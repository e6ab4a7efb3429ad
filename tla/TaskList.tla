------------------------------ MODULE TaskList ------------------------------
(***************************************************************************)
(* The tasks of ToDoApp: TaskManager keeps those to do and those done,     *)
(* NewTaskViewController adds one when its address has been geocoded, and  *)
(* DataProvider shows both in a table and moves the task of a row when its *)
(* button is tapped.  The parts are put together as the tests of the app   *)
(* do it; its storyboard does not yet.                                     *)
(***************************************************************************)
EXTENDS Naturals, SequencesExt, Bags

CONSTANTS
  Titles,   \* what is typed: title, description, name of the location
  Places,   \* coordinates of the addresses that are typed
  None,     \* no coordinate
  MaxSaves  \* bound: how often the form is saved

ASSUME TaskListAssumption == None \notin Places /\ MaxSaves \in Nat

VARIABLES
  tasks,      \* TaskManager.tasks
  doneTasks,  \* TaskManager.doneTasks
  rows,       \* the tasks in the two sections when the table was reloaded
  geocodes,   \* saved forms whose address is being geocoded
  saves,      \* forms saved so far
  unchecked   \* history: a done task was moved beside an equal one

vars == <<tasks, doneTasks, rows, geocodes, saves, unchecked>>

-----------------------------------------------------------------------------
(* Task: `n' stands for the date, which == ignores.                        *)
Task == [title : Titles, place : Places \cup {None}, n : 1 .. MaxSaves]

Equal(a, b) == a.title = b.title /\ a.place = b.place
Holds(list, task) == \E i \in DOMAIN list : Equal(list[i], task)

Form == [title : Titles, address : Places, n : 1 .. MaxSaves]

Table(todo, done) == [todo |-> todo, done |-> done]

Init ==
  /\ tasks = <<>>
  /\ doneTasks = <<>>
  /\ rows = Table(<<>>, <<>>)
  /\ geocodes = {}
  /\ saves = 0
  /\ unchecked = FALSE

-----------------------------------------------------------------------------
(* NewTaskViewController.                                                  *)

(* save(): hands the address to the geocoder.                              *)
Save(title, address) ==
  /\ saves < MaxSaves
  /\ saves' = saves + 1
  /\ geocodes' = geocodes \cup {[title |-> title, address |-> address, n |-> saves + 1]}
  /\ UNCHANGED <<tasks, doneTasks, rows, unchecked>>

(* Mutant: only the last task is compared.                                 *)
AddUnlessLast(task) ==
  tasks' = IF tasks # <<>> /\ Equal(Last(tasks), task) THEN tasks ELSE Append(tasks, task)

(* Mutant: the new task comes first.                                       *)
AddFirst(task) == tasks' = IF Holds(tasks, task) THEN tasks ELSE <<task>> \o tasks

(* TaskManager.add.                                                        *)
Add(task) == tasks' = IF Holds(tasks, task) THEN tasks ELSE Append(tasks, task)

(* Mutant: without a coordinate there is no task.                          *)
GeocodedFound(form, place) ==
  /\ form \in geocodes
  /\ place \in {form.address, None}
  /\ geocodes' = geocodes \ {form}
  /\ IF place = None
       THEN UNCHANGED tasks
       ELSE Add([title |-> form.title, place |-> place, n |-> form.n])
  /\ UNCHANGED <<doneTasks, rows, saves, unchecked>>

(* The geocoder answers, with a coordinate or an error: another request is *)
(* under way, nothing is found, the device is offline.  Either way the     *)
(* task is added; the table is not reloaded.                               *)
Geocoded(form, place) ==
  /\ form \in geocodes
  /\ place \in {form.address, None}
  /\ geocodes' = geocodes \ {form}
  /\ Add([title |-> form.title, place |-> place, n |-> form.n])
  /\ UNCHANGED <<doneTasks, rows, saves, unchecked>>

-----------------------------------------------------------------------------
(* DataProvider.                                                           *)

(* The table asks for its rows.                                            *)
Reload ==
  /\ rows' = Table(tasks, doneTasks)
  /\ UNCHANGED <<tasks, doneTasks, geocodes, saves, unchecked>>

(* tableView(_:commit:forRowAt:), "Done": checkTask and reloadData.        *)
Check(row) ==
  /\ row \in DOMAIN rows.todo
  /\ tasks' = RemoveAt(tasks, row)
  /\ doneTasks' = Append(doneTasks, tasks[row])
  /\ rows' = Table(tasks', doneTasks')
  /\ UNCHANGED <<geocodes, saves, unchecked>>

(* Mutant: the task is added as a new one is.                              *)
UncheckAdded(row) ==
  /\ row \in DOMAIN rows.done
  /\ doneTasks' = RemoveAt(doneTasks, row)
  /\ Add(doneTasks[row])
  /\ unchecked' = (unchecked \/ Holds(tasks, doneTasks[row]))
  /\ rows' = Table(tasks', doneTasks')
  /\ UNCHANGED <<geocodes, saves>>

(* "Undone": uncheckTask, without the test of add, and reloadData.         *)
Uncheck(row) ==
  /\ row \in DOMAIN rows.done
  /\ doneTasks' = RemoveAt(doneTasks, row)
  /\ tasks' = Append(tasks, doneTasks[row])
  /\ unchecked' = (unchecked \/ Holds(tasks, doneTasks[row]))
  /\ rows' = Table(tasks', doneTasks')
  /\ UNCHANGED <<geocodes, saves>>

-----------------------------------------------------------------------------
Next ==
  \/ \E title \in Titles, address \in Places : Save(title, address)
  \/ \E form \in geocodes, place \in Places \cup {None} : Geocoded(form, place)
  \/ Reload
  \/ \E row \in 1 .. MaxSaves : Check(row) \/ Uncheck(row)

Spec == Init /\ [][Next]_vars

(* Every geocode is answered.                                              *)
FairSpec == Spec /\ WF_vars(\E form \in geocodes, place \in Places \cup {None} : Geocoded(form, place))

-----------------------------------------------------------------------------
(* Properties.                                                             *)

(* The type invariant.                                                     *)
TypeOK ==
  /\ tasks \in Seq(Task) /\ doneTasks \in Seq(Task)
  /\ rows.todo \in Seq(Task) /\ rows.done \in Seq(Task)
  /\ geocodes \subseteq Form
  /\ saves \in 0 .. MaxSaves
  /\ unchecked \in BOOLEAN

(* The button of a row moves the task that the row shows, although tasks   *)
(* are added without a reload (DataProvider): the rows are the beginning   *)
(* of the list to do, and the whole list of what is done.                  *)
RowsStand == IsPrefix(rows.todo, tasks) /\ rows.done = doneTasks

(* No task leaves the two lists together: checking and unchecking move it, *)
(* and keep as many as there are.                                          *)
NothingLost ==
  [][LET all == ToBag(tasks \o doneTasks)
     IN  all \sqsubseteq ToBag(tasks' \o doneTasks')]_vars

(* Equal tasks are listed twice only after one of them has been unchecked, *)
(* whatever the geocoder answers and in whatever order.                    *)
NoTwins ==
  (\E i, j \in DOMAIN tasks : i # j /\ Equal(tasks[i], tasks[j])) => unchecked

(* A saved form leads to a task in one of the lists, or one equal to it    *)
(* but for the date was to do when its address had been geocoded.          *)
SavedIsListed ==
  \A form \in Form :
    form \in geocodes ~> \E task \in ToSet(tasks \o doneTasks) :
                           task.title = form.title /\ task.place \in {form.address, None}

(* What TaskManager and the table of DataProvider have of the tasks.       *)
RowsHold == TypeOK /\ RowsStand
=============================================================================
