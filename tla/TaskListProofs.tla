--------------------------- MODULE TaskListProofs ---------------------------
(***************************************************************************)
(* Theorems about TaskList, for every set of titles and addresses and any  *)
(* number of forms: the rows of the table stand for the tasks that their   *)
(* buttons move, no task is lost between the two lists, and two equal      *)
(* tasks are to do only after one has been unchecked.                      *)
(***************************************************************************)
EXTENDS TaskList, SequenceLemmas

-----------------------------------------------------------------------------
(* The inductive invariant.                                                *)

TaskInv == TypeOK /\ RowsStand /\ NoTwins

LEMMA TaskInvInit == ASSUME Init PROVE TaskInv
  <1>1. /\ tasks = <<>> /\ doneTasks = <<>> /\ rows.todo = <<>> /\ rows.done = <<>>
        /\ geocodes = {} /\ saves = 0 /\ unchecked = FALSE
    BY DEF Init, Table
  <1>2. <<>> \in Seq(Task) /\ saves \in 0 .. MaxSaves
    BY <1>1, TaskListAssumption
  <1>3. TypeOK
    BY <1>1, <1>2 DEF TypeOK
  <1>4. RowsStand
    <2>1. Len(<<>>) = 0 /\ <<>> \in Seq(Task)
      OBVIOUS
    <2>2. IsPrefix(<<>>, <<>>)
      BY <2>1 DEF IsPrefix
    <2> QED
      BY <1>1, <2>2 DEF RowsStand
  <1>5. NoTwins
    BY <1>1 DEF NoTwins
  <1> QED
    BY <1>3, <1>4, <1>5 DEF TaskInv

(* A new task comes last, unless there is an equal one.                    *)
LEMMA AddIs ==
  ASSUME TypeOK, NEW task \in Task, Add(task)
  PROVE  /\ tasks' \in Seq(Task) /\ Len(tasks) <= Len(tasks')
         /\ \A i \in 1 .. Len(tasks) : tasks'[i] = tasks[i]
         /\ NoTwins /\ unchecked' = unchecked => NoTwins'
  <1>0. /\ tasks \in Seq(Task) /\ Len(tasks) \in Nat /\ DOMAIN tasks = 1 .. Len(tasks)
        /\ \A i \in 1 .. Len(tasks) : tasks[i] \in Task
    BY SeqFacts DEF TypeOK
  <1>1. CASE Holds(tasks, task)
    <2>1. tasks' = tasks
      BY <1>1 DEF Add
    <2> QED
      BY <1>0, <2>1 DEF NoTwins
  <1>2. CASE ~ Holds(tasks, task)
    <2>1. tasks' = Append(tasks, task)
      BY <1>2 DEF Add
    <2>2. /\ tasks' \in Seq(Task) /\ Len(tasks') = Len(tasks) + 1
          /\ tasks'[Len(tasks) + 1] = task
          /\ \A i \in 1 .. Len(tasks) : tasks'[i] = tasks[i]
      BY <1>0, <2>1, AppendProperties
    <2>3. DOMAIN tasks' = 1 .. Len(tasks) + 1
      BY <2>2, SeqFacts
    <2>4. \A i \in 1 .. Len(tasks) : ~ Equal(tasks[i], task) /\ ~ Equal(task, tasks[i])
      BY <1>0, <1>2 DEF Holds, Equal
    <2>5. ASSUME NoTwins, unchecked' = unchecked, ~ unchecked,
                 NEW i \in DOMAIN tasks', NEW j \in DOMAIN tasks', i # j
          PROVE  ~ Equal(tasks'[i], tasks'[j])
      <3>1. CASE i \in 1 .. Len(tasks) /\ j \in 1 .. Len(tasks)
        BY <1>0, <2>2, <2>5, <3>1 DEF NoTwins
      <3>2. CASE i = Len(tasks) + 1 /\ j \in 1 .. Len(tasks)
        BY <2>2, <2>4, <3>2
      <3>3. CASE i \in 1 .. Len(tasks) /\ j = Len(tasks) + 1
        BY <2>2, <2>4, <3>3
      <3> QED
        BY <1>0, <2>3, <2>5, <3>1, <3>2, <3>3
    <2> QED
      BY <1>0, <2>2, <2>5 DEF NoTwins
  <1> QED
    BY <1>1, <1>2

(* The rows of the table are still the beginning of a list that has grown. *)
LEMMA RowsStay ==
  ASSUME TaskInv, tasks' \in Seq(Task), Len(tasks) <= Len(tasks'),
         \A i \in 1 .. Len(tasks) : tasks'[i] = tasks[i], UNCHANGED <<doneTasks, rows>>
  PROVE  RowsStand'
  <1>1. /\ rows.todo \in Seq(Task) /\ tasks \in Seq(Task)
        /\ Len(rows.todo) \in Nat /\ Len(tasks) \in Nat /\ Len(tasks') \in Nat
    BY SeqFacts DEF TaskInv, TypeOK
  <1>2. Len(rows.todo) <= Len(tasks) /\ \A i \in 1 .. Len(rows.todo) : rows.todo[i] = tasks[i]
    BY <1>1, PrefixIs DEF TaskInv, RowsStand
  <1>3. IsPrefix(rows.todo, tasks')
    BY <1>1, <1>2, PrefixIs
  <1> QED
    BY <1>3 DEF TaskInv, RowsStand

(* The table has been reloaded.                                            *)
LEMMA Reloaded ==
  ASSUME tasks' \in Seq(Task), doneTasks' \in Seq(Task), rows' = Table(tasks', doneTasks')
  PROVE  RowsStand' /\ rows'.todo \in Seq(Task) /\ rows'.done \in Seq(Task)
  <1>1. rows'.todo = tasks' /\ rows'.done = doneTasks'
    BY DEF Table
  <1>2. IsPrefix(tasks', tasks')
    <2>1. Len(tasks') \in Nat
      BY SeqFacts
    <2> QED
      BY <2>1, PrefixIs
  <1> QED
    BY <1>1, <1>2 DEF RowsStand

(* The row whose button is tapped shows the task that is moved.            *)
LEMMA RowIsTask ==
  ASSUME TaskInv
  PROVE  /\ \A row \in DOMAIN rows.todo : row \in 1 .. Len(tasks) /\ rows.todo[row] = tasks[row]
         /\ \A row \in DOMAIN rows.done : row \in 1 .. Len(doneTasks)
  <1>1. /\ rows.todo \in Seq(Task) /\ tasks \in Seq(Task) /\ doneTasks \in Seq(Task)
        /\ Len(rows.todo) \in Nat /\ Len(tasks) \in Nat
        /\ DOMAIN rows.todo = 1 .. Len(rows.todo) /\ DOMAIN doneTasks = 1 .. Len(doneTasks)
    BY SeqFacts DEF TaskInv, TypeOK
  <1>2. Len(rows.todo) <= Len(tasks) /\ \A i \in 1 .. Len(rows.todo) : rows.todo[i] = tasks[i]
    BY <1>1, PrefixIs DEF TaskInv, RowsStand
  <1> QED
    BY <1>1, <1>2 DEF TaskInv, RowsStand

LEMMA CheckInv ==
  ASSUME TaskInv, NEW row \in 1 .. MaxSaves, Check(row)
  PROVE  TaskInv'
  <1>1. /\ tasks \in Seq(Task) /\ doneTasks \in Seq(Task) /\ row \in 1 .. Len(tasks)
        /\ Len(tasks) \in Nat /\ DOMAIN tasks = 1 .. Len(tasks) /\ tasks[row] \in Task
    BY RowIsTask, SeqFacts DEF TaskInv, TypeOK, Check
  <1>2. /\ tasks' \in Seq(Task) /\ Len(tasks') = Len(tasks) - 1
        /\ \A i \in 1 .. Len(tasks) - 1 : tasks'[i] = IF i < row THEN tasks[i] ELSE tasks[i + 1]
    <2>1. tasks' = RemoveAt(tasks, row)
      BY DEF Check
    <2> QED
      BY <1>1, <2>1, RemoveAtIs
  <1>3. doneTasks' \in Seq(Task)
    <2>1. doneTasks' = Append(doneTasks, tasks[row])
      BY DEF Check
    <2> QED
      BY <1>1, <2>1, AppendProperties
  <1>4. RowsStand' /\ rows'.todo \in Seq(Task) /\ rows'.done \in Seq(Task)
    <2>1. rows' = Table(tasks', doneTasks')
      BY DEF Check
    <2> QED
      BY <1>2, <1>3, <2>1, Reloaded
  <1>5. UNCHANGED <<geocodes, saves, unchecked>>
    BY DEF Check
  <1>6. TypeOK'
    BY <1>2, <1>3, <1>4, <1>5 DEF TaskInv, TypeOK
  <1>7. NoTwins'
    <2>1. DOMAIN tasks' = 1 .. Len(tasks) - 1
      BY <1>2, SeqFacts
    <2>2. ASSUME ~ unchecked, NEW i \in DOMAIN tasks', NEW j \in DOMAIN tasks', i # j
          PROVE  ~ Equal(tasks'[i], tasks'[j])
      <3> DEFINE old(k) == IF k < row THEN k ELSE k + 1
      <3>1. \A k \in 1 .. Len(tasks) - 1 : old(k) \in 1 .. Len(tasks) /\ tasks'[k] = tasks[old(k)]
        BY <1>1, <1>2
      <3>2. old(i) # old(j)
        BY <1>1, <2>1, <2>2
      <3>3. \A x, y \in 1 .. Len(tasks) : x # y => ~ Equal(tasks[x], tasks[y])
        BY <1>1, <2>2 DEF TaskInv, NoTwins
      <3> HIDE DEF old
      <3> QED
        BY <2>1, <3>1, <3>2, <3>3
    <2> QED
      BY <1>5, <2>2 DEF NoTwins
  <1> QED
    BY <1>4, <1>6, <1>7 DEF TaskInv

LEMMA UncheckInv ==
  ASSUME TaskInv, NEW row \in 1 .. MaxSaves, Uncheck(row)
  PROVE  TaskInv'
  <1> DEFINE task == doneTasks[row]
  <1>1. /\ tasks \in Seq(Task) /\ doneTasks \in Seq(Task) /\ row \in 1 .. Len(doneTasks)
        /\ Len(tasks) \in Nat /\ DOMAIN tasks = 1 .. Len(tasks) /\ task \in Task
    BY RowIsTask, SeqFacts DEF TaskInv, TypeOK, Uncheck
  <1>2. doneTasks' \in Seq(Task)
    <2>1. doneTasks' = RemoveAt(doneTasks, row)
      BY DEF Uncheck
    <2> QED
      BY <1>1, <2>1, RemoveAtIs
  <1>3. /\ tasks' \in Seq(Task) /\ Len(tasks') = Len(tasks) + 1
        /\ tasks'[Len(tasks) + 1] = task
        /\ \A i \in 1 .. Len(tasks) : tasks'[i] = tasks[i]
    <2>1. tasks' = Append(tasks, task)
      BY DEF Uncheck
    <2> QED
      BY <1>1, <2>1, AppendProperties
  <1>4. RowsStand' /\ rows'.todo \in Seq(Task) /\ rows'.done \in Seq(Task)
    <2>1. rows' = Table(tasks', doneTasks')
      BY DEF Uncheck
    <2> QED
      BY <1>2, <1>3, <2>1, Reloaded
  <1>5. /\ UNCHANGED <<geocodes, saves>> /\ unchecked' = (unchecked \/ Holds(tasks, task))
        /\ unchecked' \in BOOLEAN
    BY DEF Uncheck, TaskInv, TypeOK, Holds
  <1>6. TypeOK'
    BY <1>2, <1>3, <1>4, <1>5 DEF TaskInv, TypeOK
  <1>7. NoTwins'
    <2>1. DOMAIN tasks' = 1 .. Len(tasks) + 1
      BY <1>3, SeqFacts
    <2>2. ASSUME ~ unchecked', NEW i \in DOMAIN tasks', NEW j \in DOMAIN tasks', i # j
          PROVE  ~ Equal(tasks'[i], tasks'[j])
      <3>1. /\ \A x, y \in 1 .. Len(tasks) : x # y => ~ Equal(tasks[x], tasks[y])
            /\ \A x \in 1 .. Len(tasks) : ~ Equal(tasks[x], task) /\ ~ Equal(task, tasks[x])
        BY <1>1, <1>5, <2>2 DEF TaskInv, NoTwins, Holds, Equal
      <3>2. CASE i \in 1 .. Len(tasks) /\ j \in 1 .. Len(tasks)
        BY <1>3, <2>2, <3>1, <3>2
      <3>3. CASE i = Len(tasks) + 1 /\ j \in 1 .. Len(tasks)
        BY <1>3, <3>1, <3>3
      <3>4. CASE i \in 1 .. Len(tasks) /\ j = Len(tasks) + 1
        BY <1>3, <3>1, <3>4
      <3> QED
        BY <1>1, <2>1, <2>2, <3>2, <3>3, <3>4
    <2> QED
      BY <2>2 DEF NoTwins
  <1> QED
    BY <1>4, <1>6, <1>7 DEF TaskInv

LEMMA TaskInvNext == ASSUME TaskInv, [Next]_vars PROVE TaskInv'
  <1>1. ASSUME NEW title \in Titles, NEW address \in Places, Save(title, address)
        PROVE  TaskInv'
    <2>1. UNCHANGED <<tasks, doneTasks, rows, unchecked>>
      BY <1>1 DEF Save
    <2>2. TypeOK'
      BY <1>1, TaskListAssumption DEF TaskInv, TypeOK, Save, Form
    <2> QED
      BY <2>1, <2>2 DEF TaskInv, RowsStand, NoTwins
  <1>2. ASSUME NEW form \in geocodes, NEW place \in Places \cup {None}, Geocoded(form, place)
        PROVE  TaskInv'
    <2> DEFINE task == [title |-> form.title, place |-> place, n |-> form.n]
    <2>1. task \in Task
      BY DEF TaskInv, TypeOK, Form, Task
    <2>2. /\ Add(task) /\ geocodes' = geocodes \ {form}
          /\ UNCHANGED <<doneTasks, rows, saves, unchecked>>
      BY <1>2 DEF Geocoded
    <2> HIDE DEF task
    <2>3. /\ tasks' \in Seq(Task) /\ Len(tasks) <= Len(tasks')
          /\ \A i \in 1 .. Len(tasks) : tasks'[i] = tasks[i]
          /\ NoTwins'
      BY <2>1, <2>2, AddIs DEF TaskInv
    <2>4. TypeOK'
      BY <2>2, <2>3 DEF TaskInv, TypeOK
    <2>5. RowsStand'
      BY <2>2, <2>3, RowsStay
    <2> QED
      BY <2>3, <2>4, <2>5 DEF TaskInv
  <1>3. CASE Reload
    <2>1. /\ UNCHANGED <<tasks, doneTasks, geocodes, saves, unchecked>>
          /\ rows' = Table(tasks', doneTasks')
      BY <1>3 DEF Reload
    <2>2. RowsStand' /\ rows'.todo \in Seq(Task) /\ rows'.done \in Seq(Task)
      BY <2>1, Reloaded DEF TaskInv, TypeOK
    <2> QED
      BY <2>1, <2>2 DEF TaskInv, TypeOK, NoTwins
  <1>4. CASE UNCHANGED vars
    BY <1>4 DEF vars, TaskInv, TypeOK, RowsStand, NoTwins
  <1> QED
    BY <1>1, <1>2, <1>3, <1>4, CheckInv, UncheckInv DEF Next

(* The inductive invariant holds in every behaviour, whatever the geocoder *)
(* answers and whichever rows are tapped before the table is reloaded.     *)
THEOREM TaskInvTheorem == Spec => []TaskInv
  <1>1. Init => TaskInv
    BY TaskInvInit
  <1>2. TaskInv /\ [Next]_vars => TaskInv'
    BY TaskInvNext
  <1> QED
    BY <1>1, <1>2, PTL DEF Spec

(* The rows that DataProvider shows are the beginning of the tasks to do   *)
(* and all of those done: the button of a row moves the task it shows,     *)
(* although tasks are added without a reload.                              *)
THEOREM RowsHoldTheorem == Spec => []RowsHold
  <1>1. TaskInv => RowsHold
    BY DEF TaskInv, RowsHold
  <1> QED
    BY <1>1, TaskInvTheorem, PTL

(* Two equal tasks are to do only after one of them has been unchecked:    *)
(* TaskManager.add keeps the others out, in whatever order the geocoder    *)
(* answers.                                                                *)
THEOREM NoTwinsTheorem == Spec => []NoTwins
  <1>1. TaskInv => NoTwins
    BY DEF TaskInv
  <1> QED
    BY <1>1, TaskInvTheorem, PTL

-----------------------------------------------------------------------------
(* No task is lost.                                                        *)

(* Where the tasks of the one list after the other are.                    *)
LEMMA Joined ==
  ASSUME NEW s \in Seq(Task), NEW t \in Seq(Task)
  PROVE  /\ s \o t \in Seq(Task) /\ Len(s \o t) = Len(s) + Len(t)
         /\ \A i \in 1 .. Len(s) + Len(t) :
              (s \o t)[i] = IF i <= Len(s) THEN s[i] ELSE t[i - Len(s)]
  BY ConcatProperties

(* A task more at the end of the list to do.                               *)
LEMMA AddKeeps ==
  ASSUME TypeOK, NEW task \in Task, Add(task), doneTasks' = doneTasks
  PROVE  ToBag(tasks \o doneTasks) \sqsubseteq ToBag(tasks' \o doneTasks')
  <1> DEFINE n == Len(tasks)
             m == Len(doneTasks)
             more == Len(tasks') - n
             f == [i \in 1 .. n + m |-> IF i <= n THEN i ELSE i + more]
             all == tasks \o doneTasks
             now == tasks' \o doneTasks
  <1>1. /\ tasks \in Seq(Task) /\ doneTasks \in Seq(Task) /\ tasks' \in Seq(Task)
        /\ n \in Nat /\ m \in Nat /\ more \in Nat /\ Len(tasks') = n + more
        /\ \A i \in 1 .. n : tasks'[i] = tasks[i]
    <2>1. tasks \in Seq(Task) /\ doneTasks \in Seq(Task)
      BY DEF TypeOK
    <2>2. tasks' \in Seq(Task) /\ n <= Len(tasks') /\ \A i \in 1 .. n : tasks'[i] = tasks[i]
      BY AddIs
    <2> QED
      BY <2>1, <2>2, SeqFacts
  <1>2. /\ all \in Seq(Task) /\ Len(all) = n + m
        /\ \A i \in 1 .. n + m : all[i] = IF i <= n THEN tasks[i] ELSE doneTasks[i - n]
    BY <1>1, Joined
  <1>3. /\ now \in Seq(Task) /\ Len(now) = n + more + m
        /\ \A i \in 1 .. n + more + m :
             now[i] = IF i <= n + more THEN tasks'[i] ELSE doneTasks[i - (n + more)]
    BY <1>1, Joined
  <1> HIDE DEF n, m, more, all, now
  <1>4. /\ f \in [1 .. Len(all) -> 1 .. Len(now)]
        /\ \A i \in 1 .. n + m : (i <= n => f[i] = i) /\ (i > n => f[i] = i + more)
    BY <1>1, <1>2, <1>3
  <1> HIDE DEF f
  <1>5. \A i, j \in 1 .. Len(all) : i # j => f[i] # f[j]
    <2> SUFFICES ASSUME NEW i \in 1 .. n + m, NEW j \in 1 .. n + m, i # j
                 PROVE  f[i] # f[j]
      BY <1>2
    <2>1. i \in Int /\ j \in Int /\ n \in Int /\ more \in Int /\ more >= 0
      BY <1>1
    <2>2. (i <= n => f[i] = i) /\ (i > n => f[i] = i + more)
      BY <1>4
    <2>3. (j <= n => f[j] = j) /\ (j > n => f[j] = j + more)
      BY <1>4
    <2> QED
      BY <2>1, <2>2, <2>3
  <1>6. ASSUME NEW i \in 1 .. n + m PROVE now[f[i]] = all[i]
    <2>1. CASE i <= n
      <3>1. f[i] = i /\ all[i] = tasks[i]
        BY <1>2, <1>4, <2>1
      <3>2. i \in 1 .. n + more + m /\ i <= n + more /\ i \in 1 .. n
        BY <1>1, <2>1
      <3>3. now[i] = tasks'[i]
        BY <1>3, <3>2
      <3> QED
        BY <1>1, <3>1, <3>2, <3>3
    <2>2. CASE i > n
      <3>1. i + more \in 1 .. n + more + m /\ ~ (i + more <= n + more)
            /\ (i + more) - (n + more) = i - n
        BY <1>1, <2>2
      <3> QED
        <4>1. f[i] = i + more /\ ~ (i <= n)
          BY <1>1, <1>4, <2>2
        <4>2. all[i] = doneTasks[i - n]
          BY <1>2, <4>1
        <4>3. now[i + more] = doneTasks[(i + more) - (n + more)]
          BY <1>3, <3>1
        <4> QED
          BY <3>1, <4>1, <4>2, <4>3
    <2> QED
      BY <1>1, <2>1, <2>2
  <1>7. ToBag(all) \sqsubseteq ToBag(now)
    BY <1>2, <1>3, <1>4, <1>5, <1>6, BagGrows
  <1> QED
    BY <1>7 DEF all, now

(* "Done": the task of the row goes to the end of those done.              *)
LEMMA CheckKeeps ==
  ASSUME TaskInv, NEW row \in 1 .. MaxSaves, Check(row)
  PROVE  ToBag(tasks \o doneTasks) \sqsubseteq ToBag(tasks' \o doneTasks')
  <1> DEFINE n == Len(tasks)
             m == Len(doneTasks)
             f == [i \in 1 .. n + m |->
                     IF i < row THEN i ELSE IF i = row THEN n + m ELSE i - 1]
             all == tasks \o doneTasks
             now == tasks' \o doneTasks'
  <1>1. /\ tasks \in Seq(Task) /\ doneTasks \in Seq(Task) /\ n \in Nat /\ m \in Nat
        /\ row \in 1 .. n /\ tasks[row] \in Task
    BY RowIsTask, SeqFacts DEF TaskInv, TypeOK, Check
  <1>2. tasks' = RemoveAt(tasks, row) /\ doneTasks' = Append(doneTasks, tasks[row])
    BY DEF Check
  <1>3. /\ tasks' \in Seq(Task) /\ Len(tasks') = n - 1
        /\ \A i \in 1 .. n - 1 : tasks'[i] = IF i < row THEN tasks[i] ELSE tasks[i + 1]
    BY <1>1, <1>2, RemoveAtIs
  <1>4. /\ doneTasks' \in Seq(Task) /\ Len(doneTasks') = m + 1
        /\ doneTasks'[m + 1] = tasks[row]
        /\ \A i \in 1 .. m : doneTasks'[i] = doneTasks[i]
    BY <1>1, <1>2, AppendProperties
  <1>5. /\ all \in Seq(Task) /\ Len(all) = n + m
        /\ \A i \in 1 .. n + m : all[i] = IF i <= n THEN tasks[i] ELSE doneTasks[i - n]
    BY <1>1, Joined
  <1>6. /\ now \in Seq(Task) /\ Len(now) = n + m
        /\ \A i \in 1 .. n + m :
             now[i] = IF i <= n - 1 THEN tasks'[i] ELSE doneTasks'[i - (n - 1)]
    <2>1. n - 1 \in Nat /\ (n - 1) + (m + 1) = n + m
      BY <1>1
    <2>2. Len(tasks') + Len(doneTasks') = n + m
      BY <1>3, <1>4, <2>1
    <2>3. /\ now \in Seq(Task) /\ Len(now) = Len(tasks') + Len(doneTasks')
          /\ \A i \in 1 .. Len(tasks') + Len(doneTasks') :
               now[i] = IF i <= Len(tasks') THEN tasks'[i] ELSE doneTasks'[i - Len(tasks')]
      BY <1>3, <1>4, Joined
    <2> HIDE DEF n, m, now
    <2> QED
      BY <1>3, <2>2, <2>3
  <1> HIDE DEF n, m, all, now
  <1>7. /\ f \in [1 .. n + m -> 1 .. n + m]
        /\ f[row] = n + m
        /\ \A i \in 1 .. n + m : (i < row => f[i] = i) /\ (i > row => f[i] = i - 1)
    BY <1>1
  <1> HIDE DEF f
  <1>8. \A i, j \in 1 .. n + m : i # j => f[i] # f[j]
    <2> SUFFICES ASSUME NEW i \in 1 .. n + m, NEW j \in 1 .. n + m, i # j
                 PROVE  f[i] # f[j]
      OBVIOUS
    <2>1. i \in Int /\ j \in Int /\ n \in Int /\ m \in Int /\ row \in Int /\ m >= 0
          /\ row <= n /\ i <= n + m /\ j <= n + m
      BY <1>1
    <2>2. (i < row => f[i] = i) /\ (i = row => f[i] = n + m) /\ (i > row => f[i] = i - 1)
      BY <1>7
    <2>3. (j < row => f[j] = j) /\ (j = row => f[j] = n + m) /\ (j > row => f[j] = j - 1)
      BY <1>7
    <2> QED
      BY <2>1, <2>2, <2>3
  <1>9. ASSUME NEW i \in 1 .. n + m PROVE now[f[i]] = all[i]
    <2>1. CASE i < row
      <3>1. f[i] = i /\ i <= n /\ i <= n - 1 /\ i \in 1 .. n - 1
        BY <1>1, <1>7, <2>1
      <3>2. now[i] = tasks'[i] /\ all[i] = tasks[i]
        BY <1>5, <1>6, <3>1
      <3> QED
        BY <1>3, <2>1, <3>1, <3>2
    <2>2. CASE i = row
      <3>1. f[i] = n + m /\ i <= n /\ ~ (n + m <= n - 1) /\ (n + m) - (n - 1) = m + 1
            /\ n + m \in 1 .. n + m
        BY <1>1, <1>7, <2>2
      <3>2. now[n + m] = doneTasks'[m + 1] /\ all[i] = tasks[i]
        BY <1>5, <1>6, <3>1
      <3> QED
        BY <1>4, <2>2, <3>1, <3>2
    <2>3. CASE i > row /\ i <= n
      <3>1. f[i] = i - 1 /\ i - 1 <= n - 1 /\ i - 1 \in 1 .. n - 1 /\ ~ (i - 1 < row)
            /\ i - 1 \in 1 .. n + m /\ (i - 1) + 1 = i
        BY <1>1, <1>7, <2>3
      <3>2. now[i - 1] = tasks'[i - 1] /\ all[i] = tasks[i]
        BY <1>5, <1>6, <2>3, <3>1
      <3>3. tasks'[i - 1] = tasks[i]
        BY <1>3, <3>1
      <3> QED
        BY <3>1, <3>2, <3>3
    <2>4. CASE i > n
      <3>1. f[i] = i - 1 /\ ~ (i - 1 <= n - 1) /\ ~ (i <= n) /\ i - n \in 1 .. m
            /\ i - 1 \in 1 .. n + m /\ (i - 1) - (n - 1) = i - n
        BY <1>1, <1>7, <2>4
      <3>2. now[i - 1] = doneTasks'[i - n] /\ all[i] = doneTasks[i - n]
        BY <1>5, <1>6, <3>1
      <3> QED
        BY <1>4, <3>1, <3>2
    <2> QED
      BY <1>1, <2>1, <2>2, <2>3, <2>4
  <1>10. ToBag(all) \sqsubseteq ToBag(now)
    <2>1. /\ f \in [1 .. Len(all) -> 1 .. Len(now)]
          /\ \A i, j \in 1 .. Len(all) : i # j => f[i] # f[j]
          /\ \A i \in 1 .. Len(all) : now[f[i]] = all[i]
      BY <1>5, <1>6, <1>7, <1>8, <1>9
    <2> QED
      BY <1>5, <1>6, <2>1, BagGrows
  <1> QED
    BY <1>10 DEF all, now

(* "Undone": the task of the row goes to the end of those to do.           *)
LEMMA UncheckKeeps ==
  ASSUME TaskInv, NEW row \in 1 .. MaxSaves, Uncheck(row)
  PROVE  ToBag(tasks \o doneTasks) \sqsubseteq ToBag(tasks' \o doneTasks')
  <1> DEFINE n == Len(tasks)
             m == Len(doneTasks)
             f == [i \in 1 .. n + m |->
                     IF i <= n THEN i ELSE IF i < n + row THEN i + 1
                     ELSE IF i = n + row THEN n + 1 ELSE i]
             all == tasks \o doneTasks
             now == tasks' \o doneTasks'
  <1>1. /\ tasks \in Seq(Task) /\ doneTasks \in Seq(Task) /\ n \in Nat /\ m \in Nat
        /\ row \in 1 .. m /\ doneTasks[row] \in Task
    BY RowIsTask, SeqFacts DEF TaskInv, TypeOK, Uncheck
  <1>2. doneTasks' = RemoveAt(doneTasks, row) /\ tasks' = Append(tasks, doneTasks[row])
    BY DEF Uncheck
  <1>3. /\ doneTasks' \in Seq(Task) /\ Len(doneTasks') = m - 1
        /\ \A i \in 1 .. m - 1 :
             doneTasks'[i] = IF i < row THEN doneTasks[i] ELSE doneTasks[i + 1]
    BY <1>1, <1>2, RemoveAtIs
  <1>4. /\ tasks' \in Seq(Task) /\ Len(tasks') = n + 1
        /\ tasks'[n + 1] = doneTasks[row]
        /\ \A i \in 1 .. n : tasks'[i] = tasks[i]
    BY <1>1, <1>2, AppendProperties
  <1>5. /\ all \in Seq(Task) /\ Len(all) = n + m
        /\ \A i \in 1 .. n + m : all[i] = IF i <= n THEN tasks[i] ELSE doneTasks[i - n]
    BY <1>1, Joined
  <1>6. /\ now \in Seq(Task) /\ Len(now) = n + m
        /\ \A i \in 1 .. n + m :
             now[i] = IF i <= n + 1 THEN tasks'[i] ELSE doneTasks'[i - (n + 1)]
    <2>1. (n + 1) + (m - 1) = n + m
      BY <1>1
    <2>2. Len(tasks') + Len(doneTasks') = n + m
      BY <1>3, <1>4, <2>1
    <2>3. /\ now \in Seq(Task) /\ Len(now) = Len(tasks') + Len(doneTasks')
          /\ \A i \in 1 .. Len(tasks') + Len(doneTasks') :
               now[i] = IF i <= Len(tasks') THEN tasks'[i] ELSE doneTasks'[i - Len(tasks')]
      BY <1>3, <1>4, Joined
    <2> HIDE DEF n, m, now
    <2> QED
      BY <1>4, <2>2, <2>3
  <1> HIDE DEF n, m, all, now
  <1>7. /\ f \in [1 .. n + m -> 1 .. n + m]
        /\ f[n + row] = n + 1
        /\ \A i \in 1 .. n + m : /\ i <= n => f[i] = i
                                 /\ i > n /\ i < n + row => f[i] = i + 1
                                 /\ i > n + row => f[i] = i
    BY <1>1
  <1> HIDE DEF f
  <1>8. \A i, j \in 1 .. n + m : i # j => f[i] # f[j]
    <2> SUFFICES ASSUME NEW i \in 1 .. n + m, NEW j \in 1 .. n + m, i # j
                 PROVE  f[i] # f[j]
      OBVIOUS
    <2>1. i \in Int /\ j \in Int /\ n \in Int /\ m \in Int /\ row \in Int /\ row >= 1
      BY <1>1
    <2>2. /\ i <= n => f[i] = i
          /\ i > n /\ i < n + row => f[i] = i + 1
          /\ i = n + row => f[i] = n + 1
          /\ i > n + row => f[i] = i
      BY <1>7
    <2>3. /\ j <= n => f[j] = j
          /\ j > n /\ j < n + row => f[j] = j + 1
          /\ j = n + row => f[j] = n + 1
          /\ j > n + row => f[j] = j
      BY <1>7
    <2> QED
      BY <2>1, <2>2, <2>3
  <1>9. ASSUME NEW i \in 1 .. n + m PROVE now[f[i]] = all[i]
    <2>1. CASE i <= n
      <3>1. f[i] = i /\ i <= n + 1 /\ i \in 1 .. n
        BY <1>1, <1>7, <2>1
      <3>2. now[i] = tasks'[i] /\ all[i] = tasks[i]
        BY <1>5, <1>6, <2>1, <3>1
      <3> QED
        BY <1>4, <3>1, <3>2
    <2>2. CASE i > n /\ i < n + row
      <3>1. f[i] = i + 1 /\ ~ (i <= n) /\ ~ (i + 1 <= n + 1) /\ i + 1 \in 1 .. n + m
            /\ (i + 1) - (n + 1) = i - n /\ i - n \in 1 .. m - 1 /\ i - n < row
        BY <1>1, <1>7, <2>2
      <3>2. now[i + 1] = doneTasks'[i - n] /\ all[i] = doneTasks[i - n]
        BY <1>5, <1>6, <3>1
      <3> QED
        BY <1>3, <3>1, <3>2
    <2>3. CASE i = n + row
      <3>1. f[i] = n + 1 /\ ~ (i <= n) /\ i - n = row /\ n + 1 \in 1 .. n + m /\ n + 1 <= n + 1
        BY <1>1, <1>7, <2>3
      <3>2. now[n + 1] = tasks'[n + 1] /\ all[i] = doneTasks[row]
        BY <1>5, <1>6, <3>1
      <3> QED
        BY <1>4, <3>1, <3>2
    <2>4. CASE i > n + row
      <3>1. f[i] = i /\ ~ (i <= n) /\ ~ (i <= n + 1) /\ i - (n + 1) \in 1 .. m - 1
            /\ ~ (i - (n + 1) < row) /\ (i - (n + 1)) + 1 = i - n
        BY <1>1, <1>7, <2>4
      <3>2. now[i] = doneTasks'[i - (n + 1)] /\ all[i] = doneTasks[i - n]
        BY <1>5, <1>6, <3>1
      <3>3. doneTasks'[i - (n + 1)] = doneTasks[i - n]
        BY <1>3, <3>1
      <3> QED
        BY <3>1, <3>2, <3>3
    <2> QED
      BY <1>1, <2>1, <2>2, <2>3, <2>4
  <1>10. ToBag(all) \sqsubseteq ToBag(now)
    <2>1. /\ f \in [1 .. Len(all) -> 1 .. Len(now)]
          /\ \A i, j \in 1 .. Len(all) : i # j => f[i] # f[j]
          /\ \A i \in 1 .. Len(all) : now[f[i]] = all[i]
      BY <1>5, <1>6, <1>7, <1>8, <1>9
    <2> QED
      BY <1>5, <1>6, <2>1, BagGrows
  <1> QED
    BY <1>10 DEF all, now

(* A step that leaves both lists alone.                                    *)
LEMMA SameKeeps ==
  ASSUME TypeOK, UNCHANGED <<tasks, doneTasks>>
  PROVE  ToBag(tasks \o doneTasks) \sqsubseteq ToBag(tasks' \o doneTasks')
  <1> DEFINE all == tasks \o doneTasks
             f == [i \in 1 .. Len(all) |-> i]
  <1>1. all \in Seq(Task) /\ Len(all) \in Nat
    BY Joined, SeqFacts DEF TypeOK
  <1> HIDE DEF all
  <1>2. ToBag(all) \sqsubseteq ToBag(all)
    <2>1. /\ f \in [1 .. Len(all) -> 1 .. Len(all)]
          /\ \A i \in 1 .. Len(all) : f[i] = i
      OBVIOUS
    <2> HIDE DEF f
    <2> QED
      BY <1>1, <2>1, BagGrows
  <1> QED
    BY <1>2 DEF all

(* No task leaves the two lists together: what add, checkTask and          *)
(* uncheckTask do to them keeps every task, as often as it was listed.     *)
THEOREM NothingLostTheorem == Spec => NothingLost
  <1> DEFINE Keeps == ToBag(tasks \o doneTasks) \sqsubseteq ToBag(tasks' \o doneTasks')
  <1>1. TaskInv /\ [Next]_vars => Keeps
    <2> SUFFICES ASSUME TaskInv, [Next]_vars PROVE Keeps
      OBVIOUS
    <2>0. TypeOK
      BY DEF TaskInv
    <2>1. ASSUME NEW title \in Titles, NEW address \in Places, Save(title, address)
          PROVE  Keeps
      BY <2>0, <2>1, SameKeeps DEF Save
    <2>2. ASSUME NEW form \in geocodes, NEW place \in Places \cup {None}, Geocoded(form, place)
          PROVE  Keeps
      <3> DEFINE task == [title |-> form.title, place |-> place, n |-> form.n]
      <3>1. task \in Task
        BY <2>0 DEF TypeOK, Form, Task
      <3>2. Add(task) /\ doneTasks' = doneTasks
        BY <2>2 DEF Geocoded
      <3> HIDE DEF task
      <3> QED
        BY <2>0, <3>1, <3>2, AddKeeps
    <2>3. CASE Reload
      BY <2>0, <2>3, SameKeeps DEF Reload
    <2>4. CASE UNCHANGED vars
      BY <2>0, <2>4, SameKeeps DEF vars
    <2> QED
      BY <2>1, <2>2, <2>3, <2>4, CheckKeeps, UncheckKeeps DEF Next
  <1>2. TaskInv /\ [Next]_vars => [Keeps]_vars
    BY <1>1
  <1> QED
    BY <1>2, TaskInvTheorem, PTL DEF Spec, NothingLost
=============================================================================
