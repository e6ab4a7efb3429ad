------------------------ MODULE FirestoreChatsProofs ------------------------
(***************************************************************************)
(* Theorems about FirestoreChats, for every set of users and devices and   *)
(* every bound.                                                            *)
(***************************************************************************)
EXTENDS FirestoreChats, TLAPS

-----------------------------------------------------------------------------
(* Type correctness.                                                       *)

(* The calls that are not about a message document.                        *)
Unaddressed == {"getAccept", "delDoc", "getDelete"}

CallsNameMessages == \A c \in calls : c.kind \notin Unaddressed => c.msg \in Msg

TypeInv == TypeOK /\ CallsNameMessages

(* The query for waiting messages returns messages.                        *)
LEMMA LettersOfType ==
  ASSUME NEW own, NEW peer
  PROVE  LettersOf(own, peer) \in SUBSET Msg
  BY DEF LettersOf

(* Every kind of call a handler builds is a call.                          *)
LEMMA CallIsTyped ==
  ASSUME NEW k \in CallKinds, NEW o \in Ops, NEW d \in Devices,
         NEW own \in Users, NEW peer \in Users, NEW m \in Msg \cup {None},
         NEW carry \in SUBSET Msg
  PROVE  Call(k, o, d, own, peer, m, carry) \in CallType
  BY DEF Call, CallType

(* The initial state is typed.                                             *)
LEMMA InitTypeInv == Init => TypeInv
  BY ConstantsAssumption
     DEF Init, TypeInv, TypeOK, CallsNameMessages, OpType, OpKinds, NoOp

(* Starting an operation keeps the types, if its first call is typed.      *)
LEMMA BeginTypeInv ==
  ASSUME TypeInv, NEW d \in Devices, NEW kind \in OpKinds, NEW me \in Users,
         NEW peer \in Users, NEW first, Begin(d, kind, me, peer, first),
         nops + 1 \in Ops => first \in CallType /\ (first.kind \notin Unaddressed => first.msg \in Msg),
         card' \in [Devices -> Users \cup {None}]
  PROVE  TypeInv'
  <1>1. nops + 1 \in Ops /\ nops' \in 0 .. MaxOps
    BY ConstantsAssumption DEF Begin, TypeInv, TypeOK, Ops
  <1>2. [kind |-> kind, dev |-> d, me |-> me, peer |-> peer,
         start |-> LettersOf(me, peer), snap |-> {}, ok |-> 0,
         faulty |-> FALSE] \in OpType
    BY LettersOfType DEF TypeInv, TypeOK, OpType
  <1>3. op' \in [Ops -> OpType]
    BY <1>1, <1>2 DEF Begin, TypeInv, TypeOK
  <1>4. calls' \subseteq CallType /\ CallsNameMessages'
    BY <1>1 DEF Begin, TypeInv, TypeOK, CallsNameMessages
  <1> QED
    BY <1>1, <1>3, <1>4 DEF Begin, TypeInv, TypeOK, session, store, budget

(* A call is carried out and its handler issues typed calls.               *)
LEMMA ReplyTypeInv ==
  ASSUME TypeInv, NEW c \in calls, NEW next, Reply(c, next),
         next \subseteq CallType,
         \A n \in next : n.kind \notin Unaddressed => n.msg \in Msg
  PROVE  calls' \subseteq CallType /\ CallsNameMessages'
  BY DEF TypeInv, TypeOK, CallsNameMessages, Reply

(* The same for a call that completes its operation.                       *)
LEMMA FinishTypeInv ==
  ASSUME TypeInv, NEW c \in calls, Finish(c)
  PROVE  calls' \subseteq CallType /\ CallsNameMessages' /\ op' \in [Ops -> OpType]
  <1>1. calls' \subseteq CallType /\ CallsNameMessages'
    BY DEF Finish, Reply, TypeInv, TypeOK, CallsNameMessages
  <1>2. c.op \in Ops /\ op[c.op] \in OpType
    BY DEF TypeInv, TypeOK, CallType
  <1>3. [op[c.op] EXCEPT !.ok = @ + 1] \in OpType
    BY <1>2 DEF OpType
  <1> QED
    BY <1>1, <1>2, <1>3 DEF Finish, TypeInv, TypeOK

(* Whatever the server answers, and whatever the handler does with it, the *)
(* types are kept.                                                         *)
LEMMA ServeTypeInv ==
  ASSUME TypeInv, NEW c \in calls, Serve(c)
  PROVE  TypeInv'
  <1> USE DEF store, device, session, budget
  <1>0. /\ c \in CallType
        /\ c.kind \notin Unaddressed => c.msg \in Msg
        /\ c.dev \in Devices /\ c.own \in Users /\ c.peer \in Users /\ c.op \in Ops
        /\ c.carry \in SUBSET Msg
        /\ cur[c.dev] \in Users
    BY DEF TypeInv, TypeOK, CallsNameMessages, CallType
  <1>1. CASE SetWaiting(c)
    <2>1. c.msg \in Msg /\ [c EXCEPT !.kind = "addWaiting"] \in CallType
      BY <1>0, <1>1 DEF SetWaiting, Unaddressed, CallType, CallKinds
    <2>2. calls' \subseteq CallType /\ CallsNameMessages'
      BY <1>0, <1>1, <2>1, ReplyTypeInv DEF SetWaiting, CallType
    <2> QED
      BY <1>0, <1>1, <2>2 DEF SetWaiting, TypeInv, TypeOK
  <1>2. CASE AddWaiting(c)
    <2>1. c.msg \in Msg
      BY <1>0, <1>2 DEF AddWaiting, Unaddressed
    <2>2. calls' \subseteq CallType /\ CallsNameMessages' /\ op' \in [Ops -> OpType]
      BY <1>2, FinishTypeInv DEF AddWaiting
    <2>3. letters' \subseteq Letter
      BY <1>0, <1>2, <2>1 DEF AddWaiting, Letter, TypeInv, TypeOK
    <2> QED
      BY <1>2, <2>2, <2>3 DEF AddWaiting, TypeInv, TypeOK
  <1>3. CASE GetAccept(c)
    <2>1. LettersOf(c.own, c.peer) \in SUBSET Msg
      BY LettersOfType
    <2> DEFINE n == Call("delDoc", c.op, c.dev, cur[c.dev], c.peer, None,
                         LettersOf(c.own, c.peer))
    <2>2. n \in CallType /\ n.kind \in Unaddressed
      <3>1. n \in CallType
        BY <1>0, <2>1, CallIsTyped DEF CallKinds
      <3> QED
        BY <3>1 DEF Call, Unaddressed
    <2>3. calls' \subseteq CallType /\ CallsNameMessages'
      <3>1. Reply(c, {n})
        BY <1>3 DEF GetAccept
      <3> HIDE DEF n
      <3> QED
        BY <2>2, <3>1, ReplyTypeInv
    <2>4. op' \in [Ops -> OpType]
      <3>1. [op[c.op] EXCEPT !.snap = LettersOf(c.own, c.peer)] \in OpType
        BY <1>0, <2>1 DEF TypeInv, TypeOK, OpType
      <3> QED
        BY <1>0, <1>3, <3>1 DEF GetAccept, TypeInv, TypeOK
    <2> QED
      BY <1>3, <2>3, <2>4 DEF GetAccept, TypeInv, TypeOK
  <1>4. CASE DelDoc(c)
    <2> DEFINE n == Call("getDelete", c.op, c.dev, cur[c.dev], c.peer, None, c.carry)
    <2>1. n \in CallType /\ n.kind \in Unaddressed
      <3>1. n \in CallType
        BY <1>0, CallIsTyped DEF CallKinds
      <3> QED
        BY <3>1 DEF Call, Unaddressed
    <2>2. calls' \subseteq CallType /\ CallsNameMessages'
      <3>1. Reply(c, {n})
        BY <1>4 DEF DelDoc
      <3> HIDE DEF n
      <3> QED
        BY <2>1, <3>1, ReplyTypeInv
    <2> QED
      BY <1>4, <2>2 DEF DelDoc, TypeInv, TypeOK
  <1>5. CASE GetDelete(c)
    <2>1. \A m \in Msg : LET n == [c EXCEPT !.kind = "delMsg", !.msg = m]
                         IN  n \in CallType /\ n.msg \in Msg
      BY <1>0 DEF CallType, CallKinds
    <2>2. calls' \subseteq CallType /\ CallsNameMessages'
      <3> DEFINE next == {[c EXCEPT !.kind = "delMsg", !.msg = m] :
                            m \in LettersOf(c.own, c.peer)}
      <3>1. next \subseteq CallType /\ \A n \in next : n.msg \in Msg
        BY <2>1, LettersOfType
      <3> QED
        BY <1>5, <3>1, ReplyTypeInv DEF GetDelete
    <2> QED
      BY <1>5, <2>2 DEF GetDelete, TypeInv, TypeOK
  <1>6. CASE DelMsg(c)
    <2>1. c.msg \in Msg
      BY <1>0, <1>6 DEF DelMsg, Unaddressed
    <2>2. calls' \subseteq CallType /\ CallsNameMessages' /\ op' \in [Ops -> OpType]
      <3>1. CASE Finish(c)
        BY <3>1, FinishTypeInv
      <3> DEFINE n == Call("setActive", c.op, c.dev, cur[c.dev], c.peer, c.msg, c.carry)
      <3>2. CASE Reply(c, {n}) /\ UNCHANGED op
        <4>1. n \in CallType
          BY <1>0, <2>1, CallIsTyped DEF CallKinds
        <4>2. n.msg \in Msg
          BY <2>1 DEF Call
        <4>3. calls' \subseteq CallType /\ CallsNameMessages'
          <5> HIDE DEF n
          <5> QED
            BY <3>2, <4>1, <4>2, ReplyTypeInv
        <4> QED
          BY <3>2, <4>3 DEF TypeInv, TypeOK
      <3> QED
        BY <1>6, <3>1, <3>2 DEF DelMsg
    <2> QED
      BY <1>6, <2>2 DEF DelMsg, TypeInv, TypeOK
  <1>7. CASE SetActive(c)
    <2>1. c.msg \in Msg
      BY <1>0, <1>7 DEF SetActive, Unaddressed
    <2> DEFINE next == {[c EXCEPT !.kind = "addActive", !.carry = {m}] : m \in c.carry}
    <2>2. \A m \in c.carry : LET n == [c EXCEPT !.kind = "addActive", !.carry = {m}]
                           IN  n \in CallType /\ n.msg \in Msg
      BY <1>0, <2>1 DEF CallType, CallKinds
    <2>3. next \subseteq CallType /\ \A n \in next : n.msg \in Msg
      BY <2>2
    <2>4. calls' \subseteq CallType /\ CallsNameMessages'
      BY <1>7, <2>3, ReplyTypeInv DEF SetActive
    <2>5. chats' \subseteq Users \X Users
      <3>1. chats' = chats \cup {<<c.own, c.peer>>} /\ <<c.own, c.peer>> \in Users \X Users
        BY <1>0, <1>7 DEF SetActive
      <3> QED
        BY <3>1 DEF TypeInv, TypeOK
    <2> QED
      BY <1>7, <2>4, <2>5 DEF SetActive, TypeInv, TypeOK
  <1>8. CASE AddActive(c)
    <2>1. c.msg \in Msg /\ c.kind \in CallKinds
      BY <1>0, <1>8 DEF AddActive, Unaddressed, CallKinds
    <2>2. calls' \subseteq CallType /\ CallsNameMessages' /\ op' \in [Ops -> OpType]
      BY <1>8, FinishTypeInv DEF AddActive
    <2>3. log' \subseteq Entry
      BY <1>0, <1>8, <2>1 DEF AddActive, Entry, TypeInv, TypeOK
    <2> QED
      BY <1>8, <2>2, <2>3 DEF AddActive, TypeInv, TypeOK
  <1>9. CASE SetFriend(c)
    <2>1. c.msg \in Msg /\ [c EXCEPT !.kind = "addFriend"] \in CallType
      BY <1>0, <1>9 DEF SetFriend, Unaddressed, CallType, CallKinds
    <2>2. calls' \subseteq CallType /\ CallsNameMessages'
      BY <1>0, <1>9, <2>1, ReplyTypeInv DEF SetFriend, CallType
    <2> QED
      BY <1>0, <1>9, <2>2 DEF SetFriend, TypeInv, TypeOK
  <1>10. CASE AddFriend(c)
    <2>1. c.msg \in Msg /\ SentEntry(c) \in Entry
      BY <1>0, <1>10 DEF AddFriend, Unaddressed, SentEntry, Entry, CallKinds
    <2> DEFINE n == [c EXCEPT !.kind = "addMine", !.own = c.peer, !.peer = c.own]
    <2>2. n \in CallType /\ n.msg \in Msg
      BY <1>0, <2>1 DEF CallType, CallKinds
    <2>3. calls' \subseteq CallType /\ CallsNameMessages'
      BY <1>10, <2>2, ReplyTypeInv DEF AddFriend
    <2> QED
      BY <1>10, <2>1, <2>3 DEF AddFriend, TypeInv, TypeOK
  <1>11. CASE AddMine(c)
    <2>1. SentEntry(c) \in Entry
      BY <1>0, <1>11 DEF AddMine, Unaddressed, SentEntry, Entry, CallKinds
    <2>2. calls' \subseteq CallType /\ CallsNameMessages' /\ op' \in [Ops -> OpType]
      BY <1>11, FinishTypeInv DEF AddMine
    <2> QED
      BY <1>11, <2>1, <2>2 DEF AddMine, TypeInv, TypeOK
  <1>12. CASE Upload(c)
    <2> DEFINE n == [c EXCEPT !.kind = "setFriend", !.peer = cur[c.dev]]
    <2>1. n \in CallType /\ n.msg \in Msg
      BY <1>0, <1>12 DEF Upload, Unaddressed, CallType, CallKinds
    <2>2. calls' \subseteq CallType /\ CallsNameMessages'
      <3>1. Reply(c, {n})
        BY <1>12 DEF Upload
      <3> HIDE DEF n
      <3> QED
        BY <2>1, <3>1, ReplyTypeInv
    <2> QED
      BY <1>12, <2>2 DEF Upload, TypeInv, TypeOK
  <1> QED
    BY <1>1, <1>2, <1>3, <1>4, <1>5, <1>6, <1>7, <1>8, <1>9, <1>10, <1>11, <1>12
       DEF Serve

(* The user's actions keep the types.                                      *)
LEMMA UserTypeInv ==
  ASSUME TypeInv, NEW d \in Devices,
         \/ \E f \in Users : \/ CreateWaitingChat(d, f) \/ OpenCard(d, f)
                            \/ SendMessage(d, f) \/ SendPhoto(d, f)
         \/ CloseCard(d) \/ AcceptButtonTapped(d) \/ DenyButtonTapped(d)
  PROVE  TypeInv'
  <1> USE DEF store, device, session, budget
  <1>0. ui[d] \in Users /\ cur[d] \in Users /\ card[d] \in Users \cup {None}
    BY DEF TypeInv, TypeOK
  <1>1. ASSUME NEW f \in Users, NEW u \in Users, NEW v \in Users, NEW w \in Users,
               NEW kind \in OpKinds, NEW k \in CallKinds \ Unaddressed,
               Begin(d, kind, u, f, Call(k, nops + 1, d, f, v, NewMsg(w, f), {})),
               UNCHANGED card
        PROVE  TypeInv'
    <2> DEFINE first == Call(k, nops + 1, d, f, v, NewMsg(w, f), {})
    <2>1. nops + 1 \in Ops => NewMsg(w, f) \in Msg
      BY DEF NewMsg, Msg
    <2>2. nops + 1 \in Ops => first \in CallType
      BY <2>1, CallIsTyped
    <2>3. first.msg = NewMsg(w, f)
      BY DEF Call
    <2>4. card' \in [Devices -> Users \cup {None}]
      BY <1>1 DEF TypeInv, TypeOK
    <2>5. Begin(d, kind, u, f, first)
      BY <1>1
    <2> HIDE DEF first
    <2> QED
      BY <2>1, <2>2, <2>3, <2>4, <2>5, BeginTypeInv
  <1>2. ASSUME NEW kind \in OpKinds, NEW k \in Unaddressed, card[d] # None,
               card' = [card EXCEPT ![d] = None],
               Begin(d, kind, ui[d], card[d],
                     Call(k, nops + 1, d, cur[d], card[d], None, {}))
        PROVE  TypeInv'
    <2> DEFINE first == Call(k, nops + 1, d, cur[d], card[d], None, {})
    <2>1. card[d] \in Users
      BY <1>0, <1>2
    <2>2. nops + 1 \in Ops => first \in CallType
      BY <1>0, <2>1, CallIsTyped DEF Unaddressed, CallKinds
    <2>3. first.kind \in Unaddressed
      BY DEF Call
    <2>4. card' \in [Devices -> Users \cup {None}]
      BY <1>2 DEF TypeInv, TypeOK
    <2>5. Begin(d, kind, ui[d], card[d], first)
      BY <1>2
    <2> HIDE DEF first
    <2> QED
      BY <1>0, <2>1, <2>2, <2>3, <2>4, <2>5, BeginTypeInv
  <1>3. ASSUME NEW f \in Users, CreateWaitingChat(d, f) PROVE TypeInv'
    BY <1>0, <1>1, <1>3 DEF CreateWaitingChat, OpKinds, CallKinds, Unaddressed
  <1>4. ASSUME NEW f \in Users, SendMessage(d, f) PROVE TypeInv'
    BY <1>0, <1>1, <1>4 DEF SendMessage, OpKinds, CallKinds, Unaddressed
  <1>5. ASSUME NEW f \in Users, SendPhoto(d, f) PROVE TypeInv'
    BY <1>0, <1>1, <1>5 DEF SendPhoto, OpKinds, CallKinds, Unaddressed
  <1>6. ASSUME NEW f \in Users, OpenCard(d, f) PROVE TypeInv'
    BY <1>6 DEF OpenCard, TypeInv, TypeOK, CallsNameMessages
  <1>7. CASE CloseCard(d)
    BY <1>7 DEF CloseCard, TypeInv, TypeOK, CallsNameMessages
  <1>8. CASE AcceptButtonTapped(d)
    BY <1>2, <1>8 DEF AcceptButtonTapped, OpKinds, Unaddressed
  <1>9. CASE DenyButtonTapped(d)
    BY <1>2, <1>9 DEF DenyButtonTapped, OpKinds, Unaddressed
  <1> QED
    BY <1>3, <1>4, <1>5, <1>6, <1>7, <1>8, <1>9

(* Failures, restarts, sign-ins and registrations keep the types.                         *)
LEMMA TroubleTypeInv ==
  ASSUME TypeInv,
         \/ \E c \in calls : CallFails(c) \/ LoseWrite(c)
         \/ \E d \in Devices : Kill(d) \/ \E u \in Users : SignIn(d, u) \/ SignUp(d, u)
  PROVE  TypeInv'
  <1> USE DEF store, device, session, budget
  <1>0. \A o \in Ops : [op[o] EXCEPT !.faulty = TRUE] \in OpType
    BY DEF TypeInv, TypeOK, OpType
  <1>1. ASSUME NEW c \in calls, CallFails(c) PROVE TypeInv'
    <2>1. op' \in [Ops -> OpType]
      BY <1>0, <1>1 DEF CallFails, TypeInv, TypeOK
    <2> QED
      BY <1>1, <2>1 DEF CallFails, TypeInv, TypeOK, CallsNameMessages
  <1>2. ASSUME NEW c \in calls, LoseWrite(c) PROVE TypeInv'
    BY <1>2 DEF LoseWrite, TypeInv, TypeOK, CallsNameMessages
  <1>3. ASSUME NEW d \in Devices, Kill(d) PROVE TypeInv'
    <2>1. op' \in [Ops -> OpType]
      BY <1>0, <1>3 DEF Kill, TypeInv, TypeOK
    <2>2. \A c \in calls : LET n == [c EXCEPT !.live = @ /\ c.dev # d]
                          IN  /\ n \in CallType
                              /\ n.kind \notin Unaddressed => n.msg \in Msg
      BY DEF TypeInv, TypeOK, CallsNameMessages, CallType
    <2>3. calls' \subseteq CallType /\ CallsNameMessages'
      BY <1>3, <2>2 DEF Kill, CallsNameMessages
    <2> QED
      BY <1>3, <2>1, <2>3 DEF Kill, TypeInv, TypeOK
  <1>4. ASSUME NEW d \in Devices, NEW u \in Users, SignIn(d, u) \/ SignUp(d, u)
        PROVE  TypeInv'
    BY <1>4 DEF SignIn, SignUp, Switch, TypeInv, TypeOK, CallsNameMessages
  <1> QED
    BY <1>1, <1>2, <1>3, <1>4

LEMMA StepTypeInv == TypeInv /\ [Next]_vars => TypeInv'
  <1> SUFFICES ASSUME TypeInv, [Next]_vars PROVE TypeInv'
    OBVIOUS
  <1>1. CASE UNCHANGED vars
    BY <1>1 DEF TypeInv, TypeOK, CallsNameMessages, vars, store, device, session, budget
  <1>2. CASE Next
    BY <1>2, UserTypeInv, ServeTypeInv, TroubleTypeInv DEF Next
  <1> QED
    BY <1>1, <1>2

(* The variables keep their types, and every call about a message document *)
(* names a message.                                                        *)
THEOREM TypeInvariant == Spec => []TypeInv
  BY InitTypeInv, StepTypeInv, PTL DEF Spec

(* FirestoreManager never puts anything but a message into a log, and no   *)
(* operation leaves its slot: TypeOK holds in every behaviour.             *)
THEOREM TypeCorrect == Spec => []TypeOK
  <1>1. TypeInv => TypeOK
    BY DEF TypeInv
  <1> QED
    BY <1>1, TypeInvariant, PTL

-----------------------------------------------------------------------------
(* What is shown as sent has been delivered.                               *)

(* A first message waits with its addressee, below the name of its author. *)
LettersSigned == \A l \in letters : l.msg.from = l.peer /\ l.msg.to = l.own

(* The messages an operation holds are on their way between the two users  *)
(* of its path, and the author's own copy is asked for when the friend's   *)
(* is there.                                                               *)
CallSigned(c) ==
  /\ c.kind \in {"setWaiting", "addWaiting"}
       => c.msg.from = c.peer /\ c.msg.to = c.own
  /\ c.kind \in {"upload", "setFriend", "addFriend"} => c.msg.to = c.own
  /\ c.kind = "addMine" => c.msg.to = c.peer /\ InLog(c.msg, c.peer, c.own)
  /\ c.kind \in {"delDoc", "getDelete", "delMsg", "setActive", "addActive"}
       => \A m \in c.carry : m.from = c.peer

MailInv == LettersSigned /\ (\A c \in calls : CallSigned(c)) /\ SentIsDelivered

(* A log only grows, so what is in it stays there.                         *)
LEMMA InLogStable ==
  ASSUME log \subseteq log', NEW m, NEW own, NEW peer, InLog(m, own, peer)
  PROVE  InLog(m, own, peer)'
  BY DEF InLog

(* If the log only grows, a call that stays signed does so.                *)
LEMMA CallSignedStable ==
  ASSUME log \subseteq log', NEW c, CallSigned(c)
  PROVE  CallSigned(c)'
  BY InLogStable DEF CallSigned

LEMMA InitMailInv == Init => MailInv
  BY DEF Init, MailInv, LettersSigned, SentIsDelivered

(* A step that adds no entry to a log, issues the signed calls `fresh' and *)
(* adds only signed waiting messages.                                      *)
Quiet(fresh) ==
  /\ log' = log
  /\ calls' \subseteq calls \cup fresh
  /\ \A c \in fresh : CallSigned(c)
  /\ \A l \in letters' : l \in letters \/ (l.msg.from = l.peer /\ l.msg.to = l.own)

LEMMA QuietMailInv ==
  ASSUME MailInv, NEW fresh, Quiet(fresh)
  PROVE  MailInv'
  <1>1. \A c \in calls' : CallSigned(c)'
    BY CallSignedStable DEF MailInv, Quiet
  <1>2. SentIsDelivered'
    BY DEF MailInv, SentIsDelivered, InLog, Quiet
  <1>3. LettersSigned'
    BY DEF MailInv, LettersSigned, Quiet
  <1> QED
    BY <1>1, <1>2, <1>3 DEF MailInv

(* A step that adds the entry e, a copy for its author only if the friend  *)
(* has the message, and issues the calls `fresh'.                          *)
Logs(e, fresh) ==
  /\ log' = log \cup {e}
  /\ letters' = letters
  /\ calls' \subseteq calls \cup fresh
  /\ \A c \in fresh : CallSigned(c)'
  /\ e.msg.from = e.own /\ e.msg.to = e.peer => InLog(e.msg, e.peer, e.own)'

LEMMA LogsMailInv ==
  ASSUME MailInv, NEW e, NEW fresh, Logs(e, fresh)
  PROVE  MailInv'
  <1>1. \A c \in calls' : CallSigned(c)'
    BY CallSignedStable DEF MailInv, Logs
  <1>2. SentIsDelivered'
    BY InLogStable DEF MailInv, SentIsDelivered, Logs
  <1>3. LettersSigned'
    BY DEF MailInv, LettersSigned, Logs
  <1> QED
    BY <1>1, <1>2, <1>3 DEF MailInv

(* What the user does adds nothing to a log.                               *)
LEMMA UserMailInv ==
  ASSUME TypeInv, MailInv, NEW d \in Devices,
         \/ \E f \in Users : \/ CreateWaitingChat(d, f) \/ OpenCard(d, f)
                            \/ SendMessage(d, f) \/ SendPhoto(d, f)
         \/ CloseCard(d) \/ AcceptButtonTapped(d) \/ DenyButtonTapped(d)
  PROVE  MailInv'
  <1> USE DEF store
  <1>1. ASSUME NEW f \in Users, NEW u, NEW v, NEW w, NEW kind,
               NEW k \in {"setWaiting", "upload", "setFriend"},
               k = "setWaiting" => v = w,
               Begin(d, kind, u, f, Call(k, nops + 1, d, f, v, NewMsg(w, f), {}))
        PROVE  MailInv'
    <2> DEFINE first == Call(k, nops + 1, d, f, v, NewMsg(w, f), {})
    <2>1. CallSigned(first)
      BY <1>1 DEF CallSigned, Call, NewMsg
    <2>2. Quiet({first})
      BY <1>1, <2>1 DEF Begin, Quiet
    <2> QED
      BY <2>2, QuietMailInv
  <1>2. ASSUME NEW k \in {"getAccept", "delDoc"}, NEW kind, NEW u,
               Begin(d, kind, u, card[d],
                     Call(k, nops + 1, d, cur[d], card[d], None, {}))
        PROVE  MailInv'
    <2> DEFINE first == Call(k, nops + 1, d, cur[d], card[d], None, {})
    <2>1. CallSigned(first)
      BY DEF CallSigned, Call
    <2>2. Quiet({first})
      BY <1>2, <2>1 DEF Begin, Quiet
    <2> QED
      BY <2>2, QuietMailInv
  <1>3. ASSUME NEW f \in Users, OpenCard(d, f) PROVE MailInv'
    <2>1. Quiet({})
      BY <1>3 DEF OpenCard, Quiet
    <2> QED
      BY <2>1, QuietMailInv
  <1>4. CASE CloseCard(d)
    <2>1. Quiet({})
      BY <1>4 DEF CloseCard, Quiet
    <2> QED
      BY <2>1, QuietMailInv
  <1> QED
    BY <1>1, <1>2, <1>3, <1>4
       DEF CreateWaitingChat, SendMessage, SendPhoto, AcceptButtonTapped,
           DenyButtonTapped

(* Failures, restarts and sign-ins add nothing to a log, and no call is    *)
(* issued; a kill only marks calls.                                        *)
LEMMA TroubleMailInv ==
  ASSUME TypeInv, MailInv,
         \/ \E c \in calls : CallFails(c) \/ LoseWrite(c)
         \/ \E d \in Devices : Kill(d) \/ \E u \in Users : SignIn(d, u) \/ SignUp(d, u)
  PROVE  MailInv'
  <1> USE DEF store
  <1>1. ASSUME NEW c \in calls, CallFails(c) \/ LoseWrite(c) PROVE MailInv'
    <2>1. Quiet({})
      BY <1>1 DEF CallFails, LoseWrite, Quiet
    <2> QED
      BY <2>1, QuietMailInv
  <1>2. ASSUME NEW d \in Devices, Kill(d) PROVE MailInv'
    <2> DEFINE killed == {[c EXCEPT !.live = @ /\ c.dev # d] : c \in calls}
    <2>1. \A c \in calls : CallSigned([c EXCEPT !.live = @ /\ c.dev # d])
      BY DEF MailInv, CallSigned, TypeInv, TypeOK, CallType
    <2>2. calls' \subseteq killed /\ log' = log /\ letters' = letters
      BY <1>2 DEF Kill
    <2>3. Quiet(killed)
      BY <2>1, <2>2 DEF Quiet
    <2> QED
      BY <2>3, QuietMailInv
  <1>3. ASSUME NEW d \in Devices, NEW u \in Users, SignIn(d, u) \/ SignUp(d, u)
        PROVE  MailInv'
    <2>1. Quiet({})
      BY <1>3 DEF SignIn, SignUp, Switch, Quiet
    <2> QED
      BY <2>1, QuietMailInv
  <1> QED
    BY <1>1, <1>2, <1>3

(* The handlers: messages travel signed, and only the last call of         *)
(* sendMessage adds a copy for the author.                                 *)
LEMMA ServeMailInv ==
  ASSUME TypeInv, MailInv, NEW c \in calls, Serve(c)
  PROVE  MailInv'
  <1> USE DEF store, device, session, budget
  <1>0. /\ c \in CallType
        /\ CallSigned(c)
        /\ \A m \in LettersOf(c.own, c.peer) : m.from = c.peer
    BY DEF TypeInv, TypeOK, MailInv, LettersSigned, LettersOf
  <1>1. CASE SetWaiting(c)
    <2> DEFINE n == [c EXCEPT !.kind = "addWaiting"]
    <2>1. CallSigned(n)
      BY <1>0, <1>1 DEF CallSigned, SetWaiting, CallType
    <2>2. Quiet({n})
      BY <1>1, <2>1 DEF SetWaiting, Reply, Quiet
    <2> QED
      BY <2>2, QuietMailInv
  <1>2. CASE AddWaiting(c)
    <2>1. c.msg.from = c.peer /\ c.msg.to = c.own
      BY <1>0, <1>2 DEF AddWaiting, CallSigned
    <2>2. Quiet({})
      BY <1>2, <2>1 DEF AddWaiting, Finish, Reply, Quiet
    <2> QED
      BY <2>2, QuietMailInv
  <1>3. CASE GetAccept(c)
    <2> DEFINE n == Call("delDoc", c.op, c.dev, cur[c.dev], c.peer, None,
                         LettersOf(c.own, c.peer))
    <2>1. CallSigned(n)
      BY <1>0 DEF CallSigned, Call
    <2>2. Quiet({n})
      BY <1>3, <2>1 DEF GetAccept, Reply, Quiet
    <2> QED
      BY <2>2, QuietMailInv
  <1>4. CASE DelDoc(c)
    <2> DEFINE n == Call("getDelete", c.op, c.dev, cur[c.dev], c.peer, None, c.carry)
    <2>1. CallSigned(n)
      BY <1>0, <1>4 DEF DelDoc, CallSigned, Call
    <2>2. Quiet({n})
      BY <1>4, <2>1 DEF DelDoc, Reply, Quiet
    <2> QED
      BY <2>2, QuietMailInv
  <1>5. CASE GetDelete(c)
    <2> DEFINE next == {[c EXCEPT !.kind = "delMsg", !.msg = m] :
                          m \in LettersOf(c.own, c.peer)}
    <2>1. \A m : CallSigned([c EXCEPT !.kind = "delMsg", !.msg = m])
      BY <1>0, <1>5 DEF GetDelete, CallSigned, CallType
    <2>2. Quiet(next)
      BY <1>5, <2>1 DEF GetDelete, Reply, Quiet
    <2> QED
      BY <2>2, QuietMailInv
  <1>6. CASE DelMsg(c)
    <2> DEFINE n == Call("setActive", c.op, c.dev, cur[c.dev], c.peer, c.msg, c.carry)
    <2>1. CallSigned(n)
      BY <1>0, <1>6 DEF DelMsg, CallSigned, Call
    <2>2. Quiet({n})
      BY <1>6, <2>1 DEF DelMsg, Finish, Reply, Quiet
    <2> QED
      BY <2>2, QuietMailInv
  <1>7. CASE SetActive(c)
    <2> DEFINE next == {[c EXCEPT !.kind = "addActive", !.carry = {m}] : m \in c.carry}
    <2>1. \A m \in c.carry : CallSigned([c EXCEPT !.kind = "addActive", !.carry = {m}])
      BY <1>0, <1>7 DEF SetActive, CallSigned, CallType
    <2>2. Quiet(next)
      BY <1>7, <2>1 DEF SetActive, Reply, Quiet
    <2> QED
      BY <2>2, QuietMailInv
  <1>8. CASE AddActive(c)
    <2>1. PICK m \in c.carry :
            log' = log \cup {[own |-> c.own, peer |-> c.peer, msg |-> m,
                              op |-> c.op, call |-> c.kind, via |-> c.msg]}
      BY <1>8 DEF AddActive
    <2> DEFINE e == [own |-> c.own, peer |-> c.peer, msg |-> m, op |-> c.op, call |-> c.kind, via |-> c.msg]
    <2>2. m.from = c.peer
      BY <1>0, <1>8 DEF AddActive, CallSigned
    <2>3. m.from = c.own => InLog(m, c.peer, c.own)'
      <3>1. e \in log' /\ e.msg = m /\ e.own = c.own /\ e.peer = c.peer
        BY <2>1
      <3> QED
        BY <2>2, <3>1 DEF InLog
    <2>4. Logs(e, {})
      BY <1>8, <2>1, <2>3 DEF AddActive, Finish, Reply, Logs
    <2> QED
      BY <2>4, LogsMailInv
  <1>9. CASE SetFriend(c)
    <2> DEFINE n == [c EXCEPT !.kind = "addFriend"]
    <2>1. CallSigned(n)
      BY <1>0, <1>9 DEF CallSigned, SetFriend, CallType
    <2>2. Quiet({n})
      BY <1>9, <2>1 DEF SetFriend, Reply, Quiet
    <2> QED
      BY <2>2, QuietMailInv
  <1>10. CASE AddFriend(c)
    <2> DEFINE n == [c EXCEPT !.kind = "addMine", !.own = c.peer, !.peer = c.own]
    <2>1. c.msg.to = c.own
      BY <1>0, <1>10 DEF CallSigned, AddFriend
    <2>2. InLog(c.msg, c.own, c.peer)'
      <3> DEFINE e == SentEntry(c)
      <3>1. e \in log' /\ e.msg = c.msg /\ e.own = c.own /\ e.peer = c.peer
        BY <1>10 DEF AddFriend, SentEntry
      <3> QED
        BY <3>1 DEF InLog
    <2>3. CallSigned(n)'
      BY <1>0, <2>1, <2>2 DEF CallSigned, CallType
    <2>4. Logs(SentEntry(c), {n})
      BY <1>10, <2>1, <2>2, <2>3 DEF AddFriend, Reply, SentEntry, Logs
    <2> QED
      BY <2>4, LogsMailInv
  <1>11. CASE AddMine(c)
    <2>1. InLog(c.msg, c.peer, c.own)
      BY <1>0, <1>11 DEF CallSigned, AddMine
    <2>2. InLog(c.msg, c.peer, c.own)'
      BY <1>11, <2>1 DEF AddMine, InLog
    <2>3. Logs(SentEntry(c), {})
      BY <1>11, <2>2 DEF AddMine, Finish, Reply, SentEntry, Logs
    <2> QED
      BY <2>3, LogsMailInv
  <1>12. CASE Upload(c)
    <2> DEFINE n == [c EXCEPT !.kind = "setFriend", !.peer = cur[c.dev]]
    <2>1. CallSigned(n)
      BY <1>0, <1>12 DEF CallSigned, Upload, CallType
    <2>2. Quiet({n})
      BY <1>12, <2>1 DEF Upload, Reply, Quiet
    <2> QED
      BY <2>2, QuietMailInv
  <1> QED
    BY <1>1, <1>2, <1>3, <1>4, <1>5, <1>6, <1>7, <1>8, <1>9, <1>10, <1>11, <1>12
       DEF Serve

LEMMA StepMailInv == TypeInv /\ MailInv /\ [Next]_vars => MailInv'
  <1> SUFFICES ASSUME TypeInv, MailInv, [Next]_vars PROVE MailInv'
    OBVIOUS
  <1>1. CASE UNCHANGED vars
    <2>1. Quiet({})
      BY <1>1 DEF vars, store, Quiet
    <2> QED
      BY <2>1, QuietMailInv
  <1>2. CASE Next
    BY <1>2, UserMailInv, ServeMailInv, TroubleMailInv DEF Next
  <1> QED
    BY <1>1, <1>2

(* The author's copy of a message never exists without the friend's, in    *)
(* any number of users, devices, operations, failures and sign-ins: the    *)
(* order of the two addDocument calls of sendMessage is what guarantees    *)
(* it, and copying a request into a log never adds an author's copy.       *)
THEOREM SentIsDeliveredTheorem == Spec => []SentIsDelivered
  <1>1. MailInv => SentIsDelivered
    BY DEF MailInv
  <1> QED
    BY <1>1, InitMailInv, StepMailInv, TypeInvariant, PTL DEF Spec

-----------------------------------------------------------------------------
(* No chat without a request and its acceptance.                           *)

DecisionCalls == {"getAccept", "delDoc", "getDelete", "delMsg", "setActive", "addActive"}
SendCalls == {"upload", "setFriend", "addFriend"}

(* A decision about a request keeps to the friend it is about and to the   *)
(* accounts of its device, and only an acceptance gets as far as the       *)
(* active chats; a message is sent by an account of the device to somebody *)
(* whom an account of the device has a chat with.                          *)
CallFollows(c) ==
  /\ c.kind \in DecisionCalls =>
       /\ op[c.op].kind \in Decisions
       /\ op[c.op].peer = c.peer
       /\ op[c.op].me \in everOn[c.dev]
       /\ c.own \in everOn[c.dev]
       /\ \A m \in c.carry : m.from = c.peer /\ m.to \in everOn[c.dev]
  /\ c.kind \in {"setActive", "addActive"} => op[c.op].kind = "accept"
  /\ c.kind \in SendCalls =>
       /\ c.msg.from \in everOn[c.dev] /\ c.peer \in everOn[c.dev]
       /\ \E u \in everOn[c.dev] : <<u, c.own>> \in chats
  /\ c.kind = "addMine" => c.msg.from \in everOn[c.dev] /\ c.own \in everOn[c.dev]

CallsFollow == \A c \in calls : c.op \in 1 .. nops /\ CallFollows(c)

CurrentCounted == \A d \in Devices : ui[d] \in everOn[d] /\ cur[d] \in everOn[d]

(* The acceptance a chat goes back to.                                     *)
Accepted(own, peer) ==
  \E o \in 1 .. nops : /\ op[o].kind = "accept"
                       /\ <<op[o].me, op[o].peer>> \in {<<own, peer>>, <<peer, own>>}

ChatsAccepted ==
  \A pair \in chats :
    Private(pair[1]) /\ Private(pair[2]) => Accepted(pair[1], pair[2])

ConsentInv == CallsFollow /\ CurrentCounted /\ ChatsAccepted /\ Addressed

(* What the history variables and the documents of active chats never      *)
(* lose.                                                                   *)
Grows ==
  /\ nops \in Nat /\ nops' \in Nat /\ nops <= nops'
  /\ \A d \in Devices : everOn[d] \subseteq everOn'[d]
  /\ chats \subseteq chats'
  /\ \A o \in 1 .. nops :
       op'[o].kind = op[o].kind /\ op'[o].me = op[o].me /\ op'[o].peer = op[o].peer

LEMMA FinishGrows ==
  ASSUME TypeInv, NEW c \in calls, Finish(c)
  PROVE  \A o \in Ops :
           op'[o].kind = op[o].kind /\ op'[o].me = op[o].me /\ op'[o].peer = op[o].peer
  BY DEF TypeInv, TypeOK, OpType, Finish

LEMMA BeginGrows ==
  ASSUME TypeInv, NEW d \in Devices, NEW kind, NEW me, NEW peer, NEW first,
         Begin(d, kind, me, peer, first)
  PROVE  Grows
  <1>1. nops \in Nat /\ nops' = nops + 1
    BY DEF TypeInv, TypeOK, Begin
  <1>2. \A o \in 1 .. nops : op'[o] = op[o]
    BY <1>1, ConstantsAssumption DEF TypeInv, TypeOK, Begin, Ops
  <1> QED
    BY <1>1, <1>2 DEF Begin, session, store, Grows

LEMMA NextGrows ==
  ASSUME TypeInv, [Next]_vars
  PROVE  Grows
  <1> USE DEF store, device, session, budget
  <1>0. nops \in Nat /\ nops <= nops /\ 1 .. nops \subseteq Ops
    BY ConstantsAssumption DEF TypeInv, TypeOK, Ops
  <1>1. CASE UNCHANGED vars
    BY <1>0, <1>1 DEF vars, Grows
  <1>2. ASSUME NEW d \in Devices,
               \/ \E f \in Users : \/ CreateWaitingChat(d, f)
                                  \/ SendMessage(d, f) \/ SendPhoto(d, f)
               \/ AcceptButtonTapped(d) \/ DenyButtonTapped(d)
        PROVE  Grows
    BY <1>2, BeginGrows
       DEF CreateWaitingChat, SendMessage, SendPhoto, AcceptButtonTapped,
           DenyButtonTapped
  <1>3. ASSUME NEW d \in Devices, (\E f \in Users : OpenCard(d, f)) \/ CloseCard(d)
        PROVE  Grows
    BY <1>0, <1>3 DEF OpenCard, CloseCard, Grows
  <1>4. ASSUME NEW d \in Devices, NEW u \in Users, SignIn(d, u) \/ SignUp(d, u)
        PROVE  Grows
    BY <1>0, <1>4 DEF SignIn, SignUp, Switch, Grows, TypeInv, TypeOK
  <1>5. ASSUME NEW d \in Devices, Kill(d) PROVE Grows
    <2>1. \A o \in Ops : /\ op'[o].kind = op[o].kind
                         /\ op'[o].me = op[o].me
                         /\ op'[o].peer = op[o].peer
      BY <1>5 DEF Kill, TypeInv, TypeOK, OpType
    <2> QED
      BY <1>0, <1>5, <2>1 DEF Kill, Grows
  <1>6. ASSUME NEW c \in calls, CallFails(c) PROVE Grows
    <2>1. \A o \in Ops : /\ op'[o].kind = op[o].kind
                         /\ op'[o].me = op[o].me
                         /\ op'[o].peer = op[o].peer
      BY <1>6 DEF CallFails, TypeInv, TypeOK, OpType
    <2> QED
      BY <1>0, <1>6, <2>1 DEF CallFails, Grows
  <1>7. ASSUME NEW c \in calls, LoseWrite(c) PROVE Grows
    BY <1>0, <1>7 DEF LoseWrite, Grows
  <1>8. ASSUME NEW c \in calls, Serve(c) PROVE Grows
    <2>1. \A o \in Ops : /\ op'[o].kind = op[o].kind
                         /\ op'[o].me = op[o].me
                         /\ op'[o].peer = op[o].peer
      <3>1. CASE Finish(c)
        BY <3>1, FinishGrows
      <3>2. CASE GetAccept(c)
        BY <3>2 DEF GetAccept, TypeInv, TypeOK, OpType
      <3>3. CASE UNCHANGED op
        BY <3>3
      <3> QED
        BY <1>8, <3>1, <3>2, <3>3
           DEF Serve, SetWaiting, AddWaiting, DelDoc, GetDelete, DelMsg, SetActive,
               AddActive, Upload, SetFriend, AddFriend, AddMine
    <2>2. chats \subseteq chats' /\ UNCHANGED <<nops, everOn>>
      BY <1>8
         DEF Serve, SetWaiting, AddWaiting, GetAccept, DelDoc, GetDelete, DelMsg,
             SetActive, AddActive, Upload, SetFriend, AddFriend, AddMine
    <2> QED
      BY <1>0, <2>1, <2>2 DEF Grows
  <1> QED
    BY <1>1, <1>2, <1>3, <1>4, <1>5, <1>6, <1>7, <1>8 DEF Next

(* What a call follows, it follows for good.                               *)
LEMMA CallFollowsStable ==
  ASSUME Grows, NEW c \in CallType, c.op \in 1 .. nops, CallFollows(c)
  PROVE  CallFollows(c)' /\ c.op \in 1 .. nops'
  <1>1. c.op \in 1 .. nops'
    BY DEF Grows
  <1>2. CallFollows(c)'
    BY DEF Grows, CallFollows, CallType
  <1> QED
    BY <1>1, <1>2

(* Privacy once lost is lost.                                              *)
LEMMA PrivateStable ==
  ASSUME Grows, NEW u, Private(u)'
  PROVE  Private(u)
  BY DEF Grows, Private

LEMMA AcceptedSymmetric ==
  ASSUME NEW u, NEW v, Accepted(u, v)
  PROVE  Accepted(v, u)
  BY DEF Accepted

LEMMA AcceptedStable ==
  ASSUME Grows, NEW u, NEW v, Accepted(u, v)
  PROVE  Accepted(u, v)'
  BY DEF Grows, Accepted

LEMMA InitConsentInv == Init => ConsentInv
  BY DEF Init, ConsentInv, CallsFollow, CurrentCounted, ChatsAccepted, Addressed

(* What a step that keeps ConsentInv may add: the calls `fresh', a chat    *)
(* that goes back to an acceptance, an entry that belongs where it is.     *)
KeepsConsent(fresh) ==
  /\ CurrentCounted'
  /\ calls' \subseteq CallType /\ calls' \subseteq calls \cup fresh
  /\ \A c \in fresh : c.op \in 1 .. nops' /\ CallFollows(c)'
  /\ \A pair \in chats' :
       pair \in chats \/ (Private(pair[1])' /\ Private(pair[2])'
                            => Accepted(pair[1], pair[2])')
  /\ \A e \in log' :
       e \in log \/ (Private(e.own)' /\ Private(e.peer)'
                        => {e.msg.from, e.msg.to} = {e.own, e.peer})

LEMMA KeepsConsentInv ==
  ASSUME TypeInv, ConsentInv, Grows, NEW fresh, KeepsConsent(fresh)
  PROVE  ConsentInv'
  <1>1. CallsFollow'
    <2>1. \A c \in calls : c \in CallType /\ c.op \in 1 .. nops /\ CallFollows(c)
      BY DEF TypeInv, TypeOK, ConsentInv, CallsFollow
    <2> QED
      BY <2>1, CallFollowsStable DEF KeepsConsent, CallsFollow
  <1>2. CurrentCounted'
    BY DEF KeepsConsent
  <1>3. ChatsAccepted'
    BY AcceptedStable, PrivateStable DEF ConsentInv, ChatsAccepted, KeepsConsent
  <1>4. Addressed'
    BY PrivateStable DEF ConsentInv, Addressed, KeepsConsent
  <1> QED
    BY <1>1, <1>2, <1>3, <1>4 DEF ConsentInv

(* A step that leaves the active chats alone and issues calls that follow  *)
(* an operation.                                                           *)
Uneventful(fresh) ==
  /\ chats' = chats /\ log' = log /\ ui' = ui /\ cur' = cur
  /\ calls' \subseteq calls \cup fresh
  /\ \A c \in fresh : c.op \in 1 .. nops' /\ CallFollows(c)'

LEMMA UneventfulConsentInv ==
  ASSUME TypeInv, TypeInv', ConsentInv, Grows, NEW fresh, Uneventful(fresh)
  PROVE  ConsentInv'
  <1>1. CurrentCounted'
    BY DEF ConsentInv, CurrentCounted, Grows, Uneventful
  <1>2. KeepsConsent(fresh)
    BY <1>1 DEF KeepsConsent, TypeInv, TypeOK, Uneventful
  <1> QED
    BY <1>2, KeepsConsentInv

(* A tap starts an operation of the account that is signed in.             *)
LEMMA UserConsentInv ==
  ASSUME TypeInv, TypeInv', ConsentInv, Grows, NEW d \in Devices,
         \/ \E f \in Users : \/ CreateWaitingChat(d, f) \/ OpenCard(d, f)
                            \/ SendMessage(d, f) \/ SendPhoto(d, f)
         \/ CloseCard(d) \/ AcceptButtonTapped(d) \/ DenyButtonTapped(d)
  PROVE  ConsentInv'
  <1> USE DEF store, session
  <1> DEFINE Started(kind, me, peer, first) ==
               /\ nops' = nops + 1 /\ everOn' = everOn /\ chats' = chats
               /\ log' = log /\ ui' = ui /\ cur' = cur /\ calls' = calls \cup {first}
               /\ op'[nops + 1].kind = kind
               /\ op'[nops + 1].me = me
               /\ op'[nops + 1].peer = peer
  <1>0. nops + 1 \in 1 .. nops + 1 /\ ui[d] \in everOn[d] /\ cur[d] \in everOn[d]
    BY DEF TypeInv, TypeOK, ConsentInv, CurrentCounted
  <1>1. ASSUME NEW kind, NEW me, NEW peer, NEW first, Begin(d, kind, me, peer, first)
        PROVE  Started(kind, me, peer, first)
    BY <1>1, ConstantsAssumption DEF Begin, TypeInv, TypeOK, Ops
  <1>2. ASSUME NEW f \in Users, NEW k \in {"setWaiting", "upload", "setFriend"},
               NEW kind, NEW me, NEW v \in everOn[d], NEW w \in everOn[d],
               k # "setWaiting" => <<ui[d], f>> \in chats,
               Begin(d, kind, me, f, Call(k, nops + 1, d, f, v, NewMsg(w, f), {}))
        PROVE  ConsentInv'
    <2>0. PICK first : first = Call(k, nops + 1, d, f, v, NewMsg(w, f), {})
      OBVIOUS
    <2>1. Started(kind, me, f, first)
      BY <1>1, <1>2, <2>0
    <2>2. CallFollows(first)' /\ first.op = nops + 1
      BY <1>0, <1>2, <2>0, <2>1 DEF CallFollows, Call, NewMsg, DecisionCalls, SendCalls
    <2>3. Uneventful({first})
      BY <1>0, <2>1, <2>2 DEF Uneventful
    <2> QED
      BY <2>3, UneventfulConsentInv
  <1>3. ASSUME NEW k \in {"getAccept", "delDoc"}, NEW kind \in Decisions,
               Begin(d, kind, ui[d], card[d],
                     Call(k, nops + 1, d, cur[d], card[d], None, {}))
        PROVE  ConsentInv'
    <2>0. PICK first : first = Call(k, nops + 1, d, cur[d], card[d], None, {})
      OBVIOUS
    <2>1. Started(kind, ui[d], card[d], first)
      BY <1>1, <1>3, <2>0
    <2>2. CallFollows(first)' /\ first.op = nops + 1
      BY <1>0, <1>3, <2>0, <2>1 DEF CallFollows, Call, DecisionCalls, SendCalls
    <2>3. Uneventful({first})
      BY <1>0, <2>1, <2>2 DEF Uneventful
    <2> QED
      BY <2>3, UneventfulConsentInv
  <1>4. ASSUME NEW f \in Users, CreateWaitingChat(d, f) PROVE ConsentInv'
    BY <1>0, <1>2, <1>4 DEF CreateWaitingChat
  <1>5. ASSUME NEW f \in Users, SendMessage(d, f) \/ SendPhoto(d, f) PROVE ConsentInv'
    BY <1>0, <1>2, <1>5 DEF SendMessage, SendPhoto
  <1>6. CASE AcceptButtonTapped(d)
    BY <1>3, <1>6 DEF AcceptButtonTapped, Decisions
  <1>7. CASE DenyButtonTapped(d)
    BY <1>3, <1>7 DEF DenyButtonTapped, Decisions
  <1>8. ASSUME NEW f \in Users, OpenCard(d, f) PROVE ConsentInv'
    <2>1. Uneventful({})
      BY <1>8 DEF OpenCard, Uneventful
    <2> QED
      BY <2>1, UneventfulConsentInv
  <1>9. CASE CloseCard(d)
    <2>1. Uneventful({})
      BY <1>9 DEF CloseCard, Uneventful
    <2> QED
      BY <2>1, UneventfulConsentInv
  <1> QED
    BY <1>4, <1>5, <1>6, <1>7, <1>8, <1>9

LEMMA TroubleConsentInv ==
  ASSUME TypeInv, TypeInv', ConsentInv, Grows,
         \/ \E c \in calls : CallFails(c) \/ LoseWrite(c)
         \/ \E d \in Devices : Kill(d) \/ \E u \in Users : SignIn(d, u) \/ SignUp(d, u)
  PROVE  ConsentInv'
  <1> USE DEF store
  <1>1. ASSUME NEW c \in calls, CallFails(c) \/ LoseWrite(c) PROVE ConsentInv'
    <2>1. Uneventful({})
      BY <1>1 DEF CallFails, LoseWrite, device, session, Uneventful
    <2> QED
      BY <2>1, UneventfulConsentInv
  <1>2. ASSUME NEW d \in Devices, Kill(d) PROVE ConsentInv'
    <2> DEFINE killed == {[c EXCEPT !.live = @ /\ c.dev # d] : c \in calls}
    <2>1. ASSUME NEW c \in calls
          PROVE  LET n == [c EXCEPT !.live = @ /\ c.dev # d]
                 IN  n \in CallType /\ n.op \in 1 .. nops /\ CallFollows(n)
      <3> DEFINE n == [c EXCEPT !.live = @ /\ c.dev # d]
      <3>1. c \in CallType /\ c.op \in 1 .. nops /\ CallFollows(c)
        BY DEF ConsentInv, CallsFollow, TypeInv, TypeOK
      <3>2. /\ n \in CallType
            /\ n.kind = c.kind /\ n.op = c.op /\ n.dev = c.dev
            /\ n.own = c.own /\ n.peer = c.peer /\ n.carry = c.carry
            /\ n.msg = c.msg
        BY <3>1 DEF CallType
      <3>3. CallFollows(n)
        <4> HIDE DEF n
        <4> QED
          BY <3>1, <3>2 DEF CallFollows
      <3> QED
        BY <3>1, <3>2, <3>3
    <2>2. \A n \in killed : n \in CallType /\ n.op \in 1 .. nops /\ CallFollows(n)
      BY <2>1
    <2>3. \A n \in killed : n.op \in 1 .. nops' /\ CallFollows(n)'
      <3> HIDE DEF killed
      <3> QED
        BY <2>2, CallFollowsStable
    <2>4. CurrentCounted'
      BY <1>2 DEF Kill, TypeInv, TypeOK, ConsentInv, CurrentCounted
    <2>5. KeepsConsent(killed)
      BY <1>2, <2>3, <2>4 DEF Kill, KeepsConsent, TypeInv, TypeOK
    <2> QED
      BY <2>5, KeepsConsentInv
  <1>3. ASSUME NEW d \in Devices, NEW u \in Users, SignIn(d, u) \/ SignUp(d, u)
        PROVE  ConsentInv'
    <2>1. CurrentCounted'
      BY <1>3 DEF SignIn, SignUp, Switch, TypeInv, TypeOK, ConsentInv, CurrentCounted
    <2>2. KeepsConsent({})
      BY <1>3, <2>1 DEF SignIn, SignUp, Switch, KeepsConsent, TypeInv, TypeOK
    <2> QED
      BY <2>2, KeepsConsentInv
  <1> QED
    BY <1>1, <1>2, <1>3

(* The handlers: every call follows the operation its predecessor followed,*)
(* on the same device; chats are added by acceptances and by messages.     *)
LEMMA ServeConsentInv ==
  ASSUME TypeInv, TypeInv', MailInv, ConsentInv, Grows, NEW c \in calls, Serve(c)
  PROVE  ConsentInv'
  <1> USE DEF store, device, session, budget
  <1>0. /\ c \in CallType /\ c.op \in 1 .. nops /\ CallFollows(c) /\ CallSigned(c)
        /\ c.dev \in Devices
        /\ cur[c.dev] \in everOn[c.dev] /\ CurrentCounted
    BY DEF TypeInv, TypeOK, CallType, ConsentInv, CallsFollow, CurrentCounted, MailInv
  <1>a. /\ everOn' = everOn /\ nops' = nops /\ ui' = ui /\ cur' = cur
        /\ CurrentCounted'
        /\ \A o \in 1 .. nops : op'[o].kind = op[o].kind /\ op'[o].me = op[o].me
                                /\ op'[o].peer = op[o].peer
    <2>1. everOn' = everOn /\ nops' = nops /\ ui' = ui /\ cur' = cur
      BY DEF Serve, SetWaiting, AddWaiting, GetAccept, DelDoc, GetDelete, DelMsg,
             SetActive, AddActive, Upload, SetFriend, AddFriend, AddMine
    <2> QED
      BY <1>0, <2>1 DEF Grows, CurrentCounted
  <1>1. CASE SetWaiting(c)
    <2>0. PICK n : n = [c EXCEPT !.kind = "addWaiting"]
      OBVIOUS
    <2>1. CallFollows(n)' /\ n.op \in 1 .. nops'
      BY <1>0, <1>a, <1>1, <2>0 DEF SetWaiting, CallFollows, CallType, DecisionCalls, SendCalls
    <2>2. Uneventful({n})
      BY <1>1, <2>0, <2>1 DEF SetWaiting, Reply, Uneventful
    <2> QED
      BY <2>2, UneventfulConsentInv
  <1>2. CASE AddWaiting(c)
    <2>1. Uneventful({})
      BY <1>2 DEF AddWaiting, Finish, Reply, Uneventful
    <2> QED
      BY <2>1, UneventfulConsentInv
  <1>3. CASE GetAccept(c)
    <2>0. PICK n : n = Call("delDoc", c.op, c.dev, cur[c.dev], c.peer, None,
                            LettersOf(c.own, c.peer))
      OBVIOUS
    <2>1. \A m \in LettersOf(c.own, c.peer) : m.from = c.peer /\ m.to \in everOn[c.dev]
      BY <1>0, <1>3
         DEF GetAccept, CallFollows, DecisionCalls, SendCalls, LettersOf, MailInv, LettersSigned
    <2>2. CallFollows(n)' /\ n.op \in 1 .. nops'
      BY <1>0, <1>a, <1>3, <2>0, <2>1 DEF GetAccept, CallFollows, Call, DecisionCalls, SendCalls
    <2>3. Uneventful({n})
      BY <1>3, <2>0, <2>2 DEF GetAccept, Reply, Uneventful
    <2> QED
      BY <2>3, UneventfulConsentInv
  <1>4. CASE DelDoc(c)
    <2>0. PICK n : n = Call("getDelete", c.op, c.dev, cur[c.dev], c.peer, None, c.carry)
      OBVIOUS
    <2>1. CallFollows(n)' /\ n.op \in 1 .. nops'
      BY <1>0, <1>a, <1>4, <2>0 DEF DelDoc, CallFollows, Call, DecisionCalls, SendCalls
    <2>2. Uneventful({n})
      BY <1>4, <2>0, <2>1 DEF DelDoc, Reply, Uneventful
    <2> QED
      BY <2>2, UneventfulConsentInv
  <1>5. CASE GetDelete(c)
    <2>0. PICK next : next = {[c EXCEPT !.kind = "delMsg", !.msg = m] :
                                m \in LettersOf(c.own, c.peer)}
      OBVIOUS
    <2>1. ASSUME NEW m
          PROVE  LET n == [c EXCEPT !.kind = "delMsg", !.msg = m]
                 IN  n.op \in 1 .. nops' /\ CallFollows(n)'
      BY <1>0, <1>a, <1>5 DEF GetDelete, CallFollows, CallType, DecisionCalls, SendCalls
    <2>2. \A n \in next : n.op \in 1 .. nops' /\ CallFollows(n)'
      BY <2>0, <2>1
    <2>3. Uneventful(next)
      BY <1>5, <2>0, <2>2 DEF GetDelete, Reply, Uneventful
    <2> QED
      BY <2>3, UneventfulConsentInv
  <1>6. CASE DelMsg(c)
    <2>0. PICK n : n = Call("setActive", c.op, c.dev, cur[c.dev], c.peer, c.msg, c.carry)
      OBVIOUS
    <2>1. CASE op[c.op].kind = "accept"
      <3>1. CallFollows(n)' /\ n.op \in 1 .. nops'
        BY <1>0, <1>a, <1>6, <2>0, <2>1 DEF DelMsg, CallFollows, Call, DecisionCalls, SendCalls
      <3>2. Uneventful({n})
        BY <1>6, <2>0, <2>1, <3>1 DEF DelMsg, Reply, Uneventful
      <3> QED
        BY <3>2, UneventfulConsentInv
    <2>2. CASE op[c.op].kind = "deny"
      <3>1. Uneventful({})
        BY <1>6, <2>2 DEF DelMsg, Finish, Reply, Uneventful
      <3> QED
        BY <3>1, UneventfulConsentInv
    <2> QED
      BY <1>6, <2>1, <2>2 DEF DelMsg
  <1>7. CASE SetActive(c)
    <2>0. PICK next : next = {[c EXCEPT !.kind = "addActive", !.carry = {m}] : m \in c.carry}
      OBVIOUS
    <2>1. ASSUME NEW m \in c.carry
          PROVE  LET n == [c EXCEPT !.kind = "addActive", !.carry = {m}]
                 IN  n.op \in 1 .. nops' /\ CallFollows(n)'
      BY <1>0, <1>a, <1>7 DEF SetActive, CallFollows, CallType, DecisionCalls, SendCalls
    <2>2. \A n \in next : n.op \in 1 .. nops' /\ CallFollows(n)'
      BY <2>0, <2>1
    <2>3. Private(c.own)' => Accepted(c.own, c.peer)
      <3>1. /\ op[c.op].kind = "accept" /\ op[c.op].peer = c.peer
            /\ op[c.op].me \in everOn[c.dev] /\ c.own \in everOn[c.dev]
        BY <1>0, <1>7 DEF SetActive, CallFollows, DecisionCalls, SendCalls
      <3>2. Private(c.own)' => op[c.op].me = c.own
        BY <1>0, <1>a, <3>1 DEF Private
      <3> QED
        BY <1>0, <3>1, <3>2 DEF Accepted
    <2>4. Private(c.own)' => Accepted(c.own, c.peer)'
      BY <2>3, AcceptedStable
    <2>5. chats' = chats \cup {<<c.own, c.peer>>}
      BY <1>7 DEF SetActive
    <2>6. calls' \subseteq calls \cup next /\ log' = log
      BY <1>7, <2>0 DEF SetActive, Reply
    <2>7. KeepsConsent(next)
      <3>1. \A pair \in chats' :
              pair \in chats \/ (Private(pair[1])' => Accepted(pair[1], pair[2])')
        <4> SUFFICES ASSUME NEW pair \in chats', pair \notin chats, Private(pair[1])'
                     PROVE  Accepted(pair[1], pair[2])'
          OBVIOUS
        <4>1. pair[1] = c.own /\ pair[2] = c.peer
          BY <2>5
        <4>2. Private(c.own)'
          BY <4>1 DEF Private
        <4> QED
          BY <2>4, <4>1, <4>2 DEF Accepted
      <3> QED
        BY <1>a, <2>2, <2>6, <3>1 DEF KeepsConsent, TypeInv, TypeOK
    <2> QED
      BY <2>7, KeepsConsentInv
  <1>8. CASE AddActive(c)
    <2>1. PICK m \in c.carry :
            log' = log \cup {[own |-> c.own, peer |-> c.peer, msg |-> m,
                              op |-> c.op, call |-> c.kind, via |-> c.msg]}
      BY <1>8 DEF AddActive
    <2>2. PICK e : e = [own |-> c.own, peer |-> c.peer, msg |-> m,
                        op |-> c.op, call |-> c.kind, via |-> c.msg]
      OBVIOUS
    <2>3. /\ m.from = c.peer /\ m.to \in everOn[c.dev] /\ c.own \in everOn[c.dev]
      BY <1>0, <1>8 DEF AddActive, CallFollows, DecisionCalls, SendCalls
    <2>5. Private(e.own)' => {e.msg.from, e.msg.to} = {e.own, e.peer}
      BY <1>0, <1>a, <2>2, <2>3 DEF Private
    <2>6. log' = log \cup {e}
      BY <2>1, <2>2
    <2>7. KeepsConsent({})
      BY <1>0, <1>a, <1>8, <2>5, <2>6
         DEF AddActive, Finish, Reply, KeepsConsent, TypeInv, TypeOK
    <2> QED
      BY <2>7, KeepsConsentInv
  <1>9. CASE SetFriend(c)
    <2>0. PICK n : n = [c EXCEPT !.kind = "addFriend"]
      OBVIOUS
    <2>1. CallFollows(n)' /\ n.op \in 1 .. nops'
      BY <1>0, <1>a, <1>9, <2>0 DEF SetFriend, CallFollows, CallType, DecisionCalls, SendCalls
    <2>2. Private(c.peer) /\ Private(c.own) => Accepted(c.peer, c.own)
      <3>1. PICK u \in everOn[c.dev] : <<u, c.own>> \in chats
        BY <1>0, <1>9 DEF SetFriend, CallFollows, SendCalls
      <3>2. Private(c.peer) => u = c.peer
        BY <1>0, <1>9 DEF SetFriend, CallFollows, SendCalls, Private
      <3> QED
        BY <3>1, <3>2 DEF ConsentInv, ChatsAccepted
    <2>3. Private(c.own)' /\ Private(c.peer)' => Accepted(c.own, c.peer)'
      BY <2>2, AcceptedSymmetric, AcceptedStable, PrivateStable
    <2>4. chats' = chats \cup {<<c.own, c.peer>>}
      BY <1>9 DEF SetFriend
    <2>5. \A pair \in chats' :
            pair \in chats \/ (Private(pair[1])' /\ Private(pair[2])'
                                 => Accepted(pair[1], pair[2])')
      <3> SUFFICES ASSUME NEW pair \in chats', pair \notin chats,
                          Private(pair[1])', Private(pair[2])'
                   PROVE  Accepted(pair[1], pair[2])'
        OBVIOUS
      <3>1. pair[1] = c.own /\ pair[2] = c.peer
        BY <2>4
      <3>2. Private(c.own)' /\ Private(c.peer)'
        BY <3>1 DEF Private
      <3> QED
        BY <2>3, <3>1, <3>2 DEF Accepted
    <2>6. KeepsConsent({n})
      BY <1>0, <1>a, <1>9, <2>0, <2>1, <2>5
         DEF SetFriend, Reply, KeepsConsent, TypeInv, TypeOK
    <2> QED
      BY <2>6, KeepsConsentInv
  <1>10. CASE AddFriend(c)
    <2>0. PICK n : n = [c EXCEPT !.kind = "addMine", !.own = c.peer, !.peer = c.own]
      OBVIOUS
    <2>1. CallFollows(n)' /\ n.op \in 1 .. nops'
      BY <1>0, <1>a, <1>10, <2>0 DEF AddFriend, CallFollows, CallType, DecisionCalls, SendCalls
    <2>2. PICK e : e = SentEntry(c)
      OBVIOUS
    <2>3. Private(e.peer)' => {e.msg.from, e.msg.to} = {e.own, e.peer}
      BY <1>0, <1>a, <1>10, <2>2
         DEF AddFriend, CallSigned, CallFollows, SendCalls, SentEntry, Private
    <2>4. KeepsConsent({n})
      BY <1>0, <1>a, <1>10, <2>0, <2>1, <2>2, <2>3
         DEF AddFriend, Reply, KeepsConsent, TypeInv, TypeOK
    <2> QED
      BY <2>4, KeepsConsentInv
  <1>11. CASE AddMine(c)
    <2>1. PICK e : e = SentEntry(c)
      OBVIOUS
    <2>2. Private(e.own)' => {e.msg.from, e.msg.to} = {e.own, e.peer}
      BY <1>0, <1>a, <1>11, <2>1
         DEF AddMine, CallSigned, CallFollows, SentEntry, Private
    <2>3. KeepsConsent({})
      BY <1>0, <1>a, <1>11, <2>1, <2>2
         DEF AddMine, Finish, Reply, KeepsConsent, TypeInv, TypeOK
    <2> QED
      BY <2>3, KeepsConsentInv
  <1>12. CASE Upload(c)
    <2>0. PICK n : n = [c EXCEPT !.kind = "setFriend", !.peer = cur[c.dev]]
      OBVIOUS
    <2>1. CallFollows(n)' /\ n.op \in 1 .. nops'
      BY <1>0, <1>a, <1>12, <2>0
         DEF Upload, CallFollows, CallType, DecisionCalls, SendCalls
    <2>2. Uneventful({n})
      BY <1>12, <2>0, <2>1 DEF Upload, Reply, Uneventful
    <2> QED
      BY <2>2, UneventfulConsentInv
  <1> QED
    BY <1>1, <1>2, <1>3, <1>4, <1>5, <1>6, <1>7, <1>8, <1>9, <1>10, <1>11, <1>12
       DEF Serve

LEMMA StepConsentInv ==
  TypeInv /\ TypeInv' /\ MailInv /\ ConsentInv /\ [Next]_vars => ConsentInv'
  <1> SUFFICES ASSUME TypeInv, TypeInv', MailInv, ConsentInv, [Next]_vars
               PROVE  ConsentInv'
    OBVIOUS
  <1>0. Grows
    BY NextGrows
  <1>1. CASE UNCHANGED vars
    <2>1. Uneventful({})
      BY <1>1 DEF vars, device, session, store, Uneventful
    <2> QED
      BY <1>0, <2>1, UneventfulConsentInv
  <1>2. CASE Next
    BY <1>0, <1>2, UserConsentInv, ServeConsentInv, TroubleConsentInv DEF Next
  <1> QED
    BY <1>1, <1>2

LEMMA ConsentInvariant == Spec => []ConsentInv
  BY InitMailInv, StepMailInv, InitConsentInv, StepConsentInv, TypeInvariant, PTL
     DEF Spec

(* Two users who keep their devices to themselves never have an active     *)
(* chat that neither of them has accepted, whatever other accounts do on   *)
(* other devices, and whichever call fails.                                *)
THEOREM ConsentTheorem == Spec => []Consent
  <1>1. TypeInv /\ ConsentInv => Consent
    <2> SUFFICES ASSUME TypeInv, ConsentInv, NEW pair \in chats,
                        Private(pair[1]), Private(pair[2])
                 PROVE  \E o \in Ops :
                          /\ op[o].kind = "accept"
                          /\ <<op[o].me, op[o].peer>> \in {pair, <<pair[2], pair[1]>>}
      BY DEF Consent
    <2>1. Accepted(pair[1], pair[2])
      BY DEF ConsentInv, ChatsAccepted
    <2>2. 1 .. nops \subseteq Ops
      BY ConstantsAssumption DEF TypeInv, TypeOK, Ops
    <2>3. pair = <<pair[1], pair[2]>>
      BY DEF TypeInv, TypeOK
    <2> QED
      BY <2>1, <2>2, <2>3 DEF Accepted
  <1> QED
    BY <1>1, TypeInvariant, ConsentInvariant, PTL

(* The log two such users have with each other holds only what one of them *)
(* wrote to the other.                                                     *)
THEOREM AddressedTheorem == Spec => []Addressed
  <1>1. ConsentInv => Addressed
    BY DEF ConsentInv
  <1> QED
    BY <1>1, ConsentInvariant, PTL

-----------------------------------------------------------------------------
(* An operation is followed along its chain of calls: what each call       *)
(* issues and writes is stated once, in Follows and Writes, and every      *)
(* invariant below is proved from these.                                   *)

(* One step of the server, and one of a user.                              *)

Fanned == {"delMsg", "setActive", "addActive"}

(* The calls that the handler of c may issue.                              *)
Follows(c, n) ==
  /\ n \in CallType
  /\ n.op = c.op /\ n.dev = c.dev /\ n.live /\ c.live
  /\ \/ /\ c.kind = "setWaiting" /\ n.kind = "addWaiting"
        /\ n.own = c.own /\ n.peer = c.peer /\ n.msg = c.msg /\ n.carry = c.carry
     \/ /\ c.kind = "getAccept" /\ n.kind = "delDoc"
        /\ n.own = cur[c.dev] /\ n.peer = c.peer /\ n.msg = None
        /\ n.carry = LettersOf(c.own, c.peer)
     \/ /\ c.kind = "delDoc" /\ n.kind = "getDelete"
        /\ n.own = cur[c.dev] /\ n.peer = c.peer /\ n.msg = None /\ n.carry = c.carry
     \/ /\ c.kind = "getDelete" /\ n.kind = "delMsg"
        /\ n.own = c.own /\ n.peer = c.peer /\ n.carry = c.carry
        /\ n.msg \in LettersOf(c.own, c.peer)
     \/ /\ c.kind = "delMsg" /\ n.kind = "setActive"
        /\ n.own = cur[c.dev] /\ n.peer = c.peer /\ n.msg = c.msg /\ n.carry = c.carry
        /\ op[c.op].kind = "accept"
     \/ /\ c.kind = "setActive" /\ n.kind = "addActive"
        /\ n.own = c.own /\ n.peer = c.peer /\ n.msg = c.msg
        /\ \E m \in c.carry : n.carry = {m}
     \/ /\ c.kind = "upload" /\ n.kind = "setFriend"
        /\ n.own = c.own /\ n.peer = cur[c.dev] /\ n.msg = c.msg /\ n.carry = c.carry
     \/ /\ c.kind = "setFriend" /\ n.kind = "addFriend"
        /\ n.own = c.own /\ n.peer = c.peer /\ n.msg = c.msg /\ n.carry = c.carry
     \/ /\ c.kind = "addFriend" /\ n.kind = "addMine"
        /\ n.own = c.peer /\ n.peer = c.own /\ n.msg = c.msg /\ n.carry = c.carry

(* The entry that c adds to a log.                                         *)
Enters(c, e) ==
  /\ e.op = c.op /\ e.call = c.kind /\ e.own = c.own /\ e.peer = c.peer /\ e.via = c.msg
  /\ \/ c.kind = "addActive" /\ e.msg \in c.carry
     \/ c.kind \in {"addFriend", "addMine"} /\ e.msg = c.msg

(* What carrying c out does to the documents.                              *)
Writes(c) ==
  /\ requests' = CASE c.kind = "setWaiting" -> requests \cup {<<c.own, c.peer>>}
                    [] c.kind = "delDoc" -> requests \ {<<c.own, c.peer>>}
                    [] OTHER -> requests
  /\ letters' = LET l == [own |-> c.own, peer |-> c.peer, msg |-> c.msg]
                IN  CASE c.kind = "addWaiting" -> letters \cup {l}
                      [] c.kind = "delMsg" -> letters \ {l}
                      [] OTHER -> letters
  /\ chats' = IF c.kind \in {"setActive", "setFriend"}
              THEN chats \cup {<<c.own, c.peer>>} ELSE chats
  /\ IF c.kind \in {"addActive", "addFriend", "addMine"}
     THEN \E e \in Entry : Enters(c, e) /\ log' = log \cup {e}
     ELSE log' = log

(* Operations keep what they were started as.                              *)
OpsStay ==
  \A o \in Ops : /\ op'[o].kind = op[o].kind /\ op'[o].dev = op[o].dev
                 /\ op'[o].me = op[o].me /\ op'[o].peer = op[o].peer
                 /\ op'[o].start = op[o].start

(* The calls that may complete an operation.                               *)
Completing == {"addWaiting", "delMsg", "addActive", "addMine"}

(* What a handler records of an operation.                                 *)
Records(c) ==
  \A o \in Ops :
    /\ op'[o].faulty = op[o].faulty
    /\ op'[o].snap = IF c.kind = "getAccept" /\ c.op = o
                     THEN LettersOf(c.own, c.peer) ELSE op[o].snap
    /\ op'[o].ok # op[o].ok =>
         /\ o = c.op /\ c.kind \in Completing
         /\ c.kind = "delMsg" => op[o].kind = "deny"

Served(c) ==
  /\ calls' = (calls \ {c}) \cup {n \in CallType : Follows(c, n)}
  /\ Writes(c)
  /\ OpsStay /\ Records(c)
  /\ UNCHANGED <<device, nops, budget>>

LEMMA FinishStays ==
  ASSUME TypeInv, NEW c \in calls, Finish(c), c.kind \in Completing,
         c.kind = "delMsg" => op[c.op].kind = "deny"
  PROVE  OpsStay /\ Records(c) /\ calls' = (calls \ {c}) \cup {n \in CallType : Follows(c, n)}
  <1>1. OpsStay /\ Records(c) /\ calls' = calls \ {c}
    BY DEF TypeInv, TypeOK, OpType, Finish, Reply, OpsStay, Records, Completing
  <1>2. \A n : ~Follows(c, n)
    BY DEF Follows, Completing
  <1> QED
    BY <1>1, <1>2

(* Calls are told apart by their fields.                                   *)
SameCall(a, b) ==
  /\ a.kind = b.kind /\ a.op = b.op /\ a.dev = b.dev /\ a.own = b.own
  /\ a.peer = b.peer /\ a.msg = b.msg /\ a.carry = b.carry /\ a.live = b.live

LEMMA CallsByFields ==
  ASSUME NEW a \in CallType, NEW b \in CallType, SameCall(a, b)
  PROVE  a = b
  BY DEF SameCall, CallType

LEMMA OneFollows ==
  ASSUME NEW c, NEW n \in CallType, c.live => Follows(c, n),
         \A m \in CallType : Follows(c, m) => c.live /\ SameCall(m, n)
  PROVE  {m \in CallType : Follows(c, m)} = IF c.live THEN {n} ELSE {}
  BY CallsByFields

(* Carrying out a call and running its handler is one of the following.    *)
LEMMA ServeServed ==
  ASSUME TypeInv, NEW c \in calls, Serve(c)
  PROVE  Served(c)
  <1> USE DEF store, session
  <1>0. /\ c \in CallType /\ cur[c.dev] \in Users
        /\ c.kind \notin Unaddressed => c.msg \in Msg
        /\ LettersOf(c.own, c.peer) \in SUBSET Msg
    BY LettersOfType DEF TypeInv, TypeOK, CallsNameMessages, CallType
  <1> DEFINE Issued == {n \in CallType : Follows(c, n)}
  <1>1. CASE SetWaiting(c)
    <2>1. Issued = IF c.live THEN {[c EXCEPT !.kind = "addWaiting"]} ELSE {}
      BY <1>0, <1>1 DEF SetWaiting, CallType, CallKinds, Follows
    <2>2. calls' = (calls \ {c}) \cup Issued
      BY <1>1, <2>1 DEF SetWaiting, Reply
    <2> QED
      BY <1>1, <2>2 DEF SetWaiting, Served, Writes, OpsStay, Records
  <1>2. CASE AddWaiting(c)
    <2>1. OpsStay /\ Records(c) /\ calls' = (calls \ {c}) \cup Issued
      BY <1>2, FinishStays DEF AddWaiting, Completing
    <2> QED
      BY <1>2, <2>1 DEF AddWaiting, Served, Writes
  <1>3. CASE GetAccept(c)
    <2> DEFINE n == Call("delDoc", c.op, c.dev, cur[c.dev], c.peer, None,
                         LettersOf(c.own, c.peer))
    <2>0. n \in CallType
      BY <1>0, CallIsTyped DEF CallType, CallKinds
    <2>1. Issued = IF c.live THEN {n} ELSE {}
      BY <1>3, <2>0, OneFollows DEF GetAccept, Call, Follows, SameCall
    <2>2. calls' = (calls \ {c}) \cup Issued
      BY <1>3, <2>1 DEF GetAccept, Reply
    <2>3. OpsStay /\ Records(c)
      BY <1>3 DEF GetAccept, OpsStay, Records, TypeInv, TypeOK, OpType
    <2> QED
      BY <1>3, <2>2, <2>3 DEF GetAccept, Served, Writes
  <1>4. CASE DelDoc(c)
    <2> DEFINE n == Call("getDelete", c.op, c.dev, cur[c.dev], c.peer, None, c.carry)
    <2>0. n \in CallType
      BY <1>0, CallIsTyped DEF CallType, CallKinds
    <2>1. Issued = IF c.live THEN {n} ELSE {}
      BY <1>4, <2>0, OneFollows DEF DelDoc, Call, Follows, SameCall
    <2>2. calls' = (calls \ {c}) \cup Issued
      BY <1>4, <2>1 DEF DelDoc, Reply
    <2> QED
      BY <1>4, <2>2 DEF DelDoc, Served, Writes, OpsStay, Records
  <1>5. CASE GetDelete(c)
    <2>1. Issued = IF c.live THEN {[c EXCEPT !.kind = "delMsg", !.msg = m] :
                                     m \in LettersOf(c.own, c.peer)} ELSE {}
      <3>1. ASSUME c.live, NEW m \in LettersOf(c.own, c.peer)
            PROVE  [c EXCEPT !.kind = "delMsg", !.msg = m] \in Issued
        BY <1>0, <1>5, <3>1 DEF GetDelete, CallType, CallKinds, Follows
      <3>2. ASSUME NEW n \in Issued
            PROVE  /\ c.live /\ n.msg \in LettersOf(c.own, c.peer)
                   /\ n = [c EXCEPT !.kind = "delMsg", !.msg = n.msg]
        BY <1>0, <1>5 DEF GetDelete, CallType, CallKinds, Follows
      <3> QED
        BY <3>1, <3>2
    <2>2. calls' = (calls \ {c}) \cup Issued
      BY <1>5, <2>1 DEF GetDelete, Reply
    <2> QED
      BY <1>5, <2>2 DEF GetDelete, Served, Writes, OpsStay, Records
  <1>6. CASE DelMsg(c)
    <2> DEFINE n == Call("setActive", c.op, c.dev, cur[c.dev], c.peer, c.msg, c.carry)
    <2>1. CASE op[c.op].kind = "accept" /\ Reply(c, {n}) /\ UNCHANGED op
      <3>0. n \in CallType
        BY <1>0, CallIsTyped DEF CallType, CallKinds
      <3>1. Issued = IF c.live THEN {n} ELSE {}
        BY <1>6, <2>1, <3>0, OneFollows DEF DelMsg, Call, Follows, SameCall
      <3>2. calls' = (calls \ {c}) \cup Issued
        BY <2>1, <3>1 DEF Reply
      <3> QED
        BY <1>6, <2>1, <3>2 DEF DelMsg, Served, Writes, OpsStay, Records
    <2>2. CASE op[c.op].kind = "deny" /\ Finish(c)
      <3>1. OpsStay /\ Records(c) /\ calls' = (calls \ {c}) \cup Issued
        BY <1>6, <2>2, FinishStays DEF DelMsg, Completing
      <3> QED
        BY <1>6, <3>1 DEF DelMsg, Served, Writes
    <2> QED
      BY <1>6, <2>1, <2>2 DEF DelMsg
  <1>7. CASE SetActive(c)
    <2>1. Issued = IF c.live THEN {[c EXCEPT !.kind = "addActive", !.carry = {m}] :
                                     m \in c.carry} ELSE {}
      <3>1. ASSUME c.live, NEW m \in c.carry
            PROVE  [c EXCEPT !.kind = "addActive", !.carry = {m}] \in Issued
        BY <1>0, <1>7, <3>1 DEF SetActive, CallType, CallKinds, Follows
      <3>2. ASSUME NEW n \in Issued
            PROVE  c.live /\ \E m \in c.carry : n = [c EXCEPT !.kind = "addActive", !.carry = {m}]
        BY ZenonT(60), <1>0, <1>7 DEF SetActive, CallType, CallKinds, Follows
      <3> QED
        BY <3>1, <3>2
    <2>2. calls' = (calls \ {c}) \cup Issued
      BY <1>7, <2>1 DEF SetActive, Reply
    <2> QED
      BY <1>7, <2>2 DEF SetActive, Served, Writes, OpsStay, Records
  <1>8. CASE AddActive(c)
    <2>1. OpsStay /\ Records(c) /\ calls' = (calls \ {c}) \cup Issued
      BY <1>8, FinishStays DEF AddActive, Completing
    <2>2. PICK m \in c.carry :
            log' = log \cup {[own |-> c.own, peer |-> c.peer, msg |-> m,
                              op |-> c.op, call |-> c.kind, via |-> c.msg]}
      BY <1>8 DEF AddActive
    <2>3. \E e \in Entry : Enters(c, e) /\ log' = log \cup {e}
      BY <1>0, <1>8, <2>2
         DEF AddActive, Entry, Enters, CallType, Unaddressed
    <2> QED
      BY <1>8, <2>1, <2>3 DEF AddActive, Served, Writes
  <1>9. CASE SetFriend(c)
    <2>1. Issued = IF c.live THEN {[c EXCEPT !.kind = "addFriend"]} ELSE {}
      BY <1>0, <1>9 DEF SetFriend, CallType, CallKinds, Follows
    <2>2. calls' = (calls \ {c}) \cup Issued
      BY <1>9, <2>1 DEF SetFriend, Reply
    <2> QED
      BY <1>9, <2>2 DEF SetFriend, Served, Writes, OpsStay, Records
  <1>10. CASE AddFriend(c)
    <2>1. Issued = IF c.live THEN {[c EXCEPT !.kind = "addMine", !.own = c.peer, !.peer = c.own]} ELSE {}
      <3>1. [c EXCEPT !.kind = "addMine", !.own = c.peer, !.peer = c.own] \in CallType
        BY <1>0 DEF CallType, CallKinds
      <3> QED
        BY <1>0, <1>10, <3>1, OneFollows DEF AddFriend, CallType, Follows, SameCall
    <2>2. calls' = (calls \ {c}) \cup Issued
      BY <1>10, <2>1 DEF AddFriend, Reply
    <2>3. SentEntry(c) \in Entry /\ Enters(c, SentEntry(c))
      BY <1>0, <1>10 DEF AddFriend, SentEntry, Entry, Enters, CallType, Unaddressed
    <2> QED
      BY <1>10, <2>2, <2>3 DEF AddFriend, Served, Writes, OpsStay, Records
  <1>11. CASE AddMine(c)
    <2>1. OpsStay /\ Records(c) /\ calls' = (calls \ {c}) \cup Issued
      BY <1>11, FinishStays DEF AddMine, Completing
    <2>2. SentEntry(c) \in Entry /\ Enters(c, SentEntry(c))
      BY <1>0, <1>11 DEF AddMine, SentEntry, Entry, Enters, CallType, Unaddressed
    <2> QED
      BY <1>11, <2>1, <2>2 DEF AddMine, Served, Writes
  <1>12. CASE Upload(c)
    <2>1. Issued = IF c.live THEN {[c EXCEPT !.kind = "setFriend", !.peer = cur[c.dev]]} ELSE {}
      <3>1. [c EXCEPT !.kind = "setFriend", !.peer = cur[c.dev]] \in CallType
        BY <1>0 DEF CallType, CallKinds
      <3> QED
        BY <1>0, <1>12, <3>1, OneFollows DEF Upload, CallType, Follows, SameCall
    <2>2. calls' = (calls \ {c}) \cup Issued
      BY <1>12, <2>1 DEF Upload, Reply
    <2> QED
      BY <1>12, <2>2 DEF Upload, Served, Writes, OpsStay, Records
  <1> QED
    BY <1>1, <1>2, <1>3, <1>4, <1>5, <1>6, <1>7, <1>8, <1>9, <1>10, <1>11, <1>12
       DEF Serve

(* What a tap starts: the kind of the operation, who it is for, and its    *)
(* first call.                                                             *)
Opens(d, kind, me, peer, first) ==
  \/ /\ kind = "request" /\ me = cur[d]
     /\ first = Call("setWaiting", nops + 1, d, peer, me, NewMsg(me, peer), {})
  \/ /\ kind = "send" /\ me = ui[d] /\ <<me, peer>> \in chats
     /\ \/ first = Call("setFriend", nops + 1, d, peer, cur[d], NewMsg(me, peer), {})
        \/ first = Call("upload", nops + 1, d, peer, me, NewMsg(me, peer), {})
  \/ /\ kind = "accept" /\ me = ui[d] /\ peer = card[d]
     /\ first = Call("getAccept", nops + 1, d, cur[d], peer, None, {})
  \/ /\ kind = "deny" /\ me = ui[d] /\ peer = card[d]
     /\ first = Call("delDoc", nops + 1, d, cur[d], peer, None, {})

Started(d, kind, me, peer, first) ==
  /\ Opens(d, kind, me, peer, first)
  /\ nops + 1 \in Ops /\ nops' = nops + 1
  /\ first \in CallType /\ calls' = calls \cup {first}
  /\ op'[nops + 1].kind = kind /\ op'[nops + 1].dev = d
  /\ op'[nops + 1].me = me /\ op'[nops + 1].peer = peer
  /\ op'[nops + 1].start = LettersOf(me, peer) /\ op'[nops + 1].snap = {}
  /\ op'[nops + 1].ok = 0
  /\ \A o \in Ops \ {nops + 1} : op'[o] = op[o]
  /\ UNCHANGED <<session, store, budget>>
  /\ card' = card \/ card' = [card EXCEPT ![d] = None]

(* Only the card of a device changes.                                      *)
Looks(d) ==
  /\ \/ card' = [card EXCEPT ![d] = None]
     \/ \E f \in Users : <<ui[d], f>> \in requests /\ card' = [card EXCEPT ![d] = f]
  /\ UNCHANGED <<session, store, calls, nops, op, budget>>

LEMMA BeginStarts ==
  ASSUME TypeInv, NEW d \in Devices, NEW kind, NEW me \in Users, NEW peer \in Users,
         NEW first, Begin(d, kind, me, peer, first), Opens(d, kind, me, peer, first),
         card' = card \/ card' = [card EXCEPT ![d] = None]
  PROVE  Started(d, kind, me, peer, first)
  <1>1. nops + 1 \in Ops /\ nops' = nops + 1
    BY ConstantsAssumption DEF Begin, TypeInv, TypeOK, Ops
  <1>2. cur[d] \in Users /\ NewMsg(me, peer) \in Msg
    BY <1>1 DEF TypeInv, TypeOK, NewMsg, Msg
  <1>3. first \in CallType
    <2>1. ASSUME NEW k \in CallKinds, NEW own \in Users, NEW v \in Users,
                 NEW m \in Msg \cup {None}
          PROVE  Call(k, nops + 1, d, own, v, m, {}) \in CallType
      BY <1>1, CallIsTyped
    <2> QED
      BY <1>2, <2>1 DEF Opens, CallKinds
  <1> QED
    BY <1>1, <1>3 DEF Begin, Started, TypeInv, TypeOK, session, store

LEMMA UserSteps ==
  ASSUME TypeInv, NEW d \in Devices,
         \/ \E f \in Users : \/ CreateWaitingChat(d, f) \/ OpenCard(d, f)
                            \/ SendMessage(d, f) \/ SendPhoto(d, f)
         \/ CloseCard(d) \/ AcceptButtonTapped(d) \/ DenyButtonTapped(d)
  PROVE  \/ Looks(d)
         \/ \E kind \in OpKinds, me \in Users, peer \in Users, first \in CallType :
              Started(d, kind, me, peer, first)
  <1>0. ui[d] \in Users /\ cur[d] \in Users /\ card[d] \in Users \cup {None}
    BY DEF TypeInv, TypeOK
  <1>1. ASSUME NEW f \in Users, CreateWaitingChat(d, f)
        PROVE  \E first : Started(d, "request", cur[d], f, first)
    BY <1>0, <1>1, BeginStarts DEF CreateWaitingChat, Opens
  <1>2. ASSUME NEW f \in Users, SendMessage(d, f) \/ SendPhoto(d, f)
        PROVE  \E first : Started(d, "send", ui[d], f, first)
    BY <1>0, <1>2, BeginStarts DEF SendMessage, SendPhoto, Opens
  <1>3. CASE AcceptButtonTapped(d)
    <2>1. \E first : Started(d, "accept", ui[d], card[d], first)
      BY <1>0, <1>3, BeginStarts DEF AcceptButtonTapped, Opens
    <2> QED
      BY <1>0, <1>3, <2>1 DEF AcceptButtonTapped, Started, OpKinds
  <1>4. CASE DenyButtonTapped(d)
    <2>1. \E first : Started(d, "deny", ui[d], card[d], first)
      BY <1>0, <1>4, BeginStarts DEF DenyButtonTapped, Opens
    <2> QED
      BY <1>0, <1>4, <2>1 DEF DenyButtonTapped, Started, OpKinds
  <1>5. ASSUME NEW f \in Users, OpenCard(d, f) PROVE Looks(d)
    BY <1>5 DEF OpenCard, Looks, store, session
  <1>6. CASE CloseCard(d)
    BY <1>6 DEF CloseCard, Looks, store, session
  <1> QED
    BY <1>0, <1>1, <1>2, <1>3, <1>4, <1>5, <1>6 DEF Started, OpKinds

(* Failures, restarts, sign-ins and registrations: calls are lost or only  *)
(* marked, an account changes together with the card.                      *)
Marked(c, n) ==
  /\ n \in CallType /\ n.kind = c.kind /\ n.op = c.op /\ n.dev = c.dev /\ n.own = c.own
  /\ n.peer = c.peer /\ n.msg = c.msg /\ n.carry = c.carry /\ (n.live => c.live)

Troubled ==
  /\ \E mark \in [calls -> CallType] :
       /\ \A c \in calls : Marked(c, mark[c])
       /\ calls' \subseteq {mark[c] : c \in calls}
  /\ \A c \in calls : ~op'[c.op].faulty /\ c.live => c \in calls'
  /\ \A c \in calls' : ~op'[c.op].faulty => c \in calls
  /\ OpsStay /\ \A o \in Ops : op'[o].snap = op[o].snap /\ op'[o].ok = op[o].ok
  /\ \A o \in Ops : op[o].faulty => op'[o].faulty
  /\ \A d \in Devices : card'[d] = None \/ (card'[d] = card[d] /\ ui'[d] = ui[d])
  /\ switches' = switches + 1 \/ UNCHANGED <<switches, everOn>>
  /\ UNCHANGED <<store, nops>>

LEMMA TroubleTroubled ==
  ASSUME TypeInv,
         \/ \E c \in calls : CallFails(c) \/ LoseWrite(c)
         \/ \E d \in Devices : Kill(d) \/ \E u \in Users : SignIn(d, u) \/ SignUp(d, u)
  PROVE  Troubled
  <1> USE DEF store, device, session
  <1>0. /\ [c \in calls |-> c] \in [calls -> CallType]
        /\ \A c \in calls : Marked(c, [b \in calls |-> b][c])
        /\ calls = {[b \in calls |-> b][c] : c \in calls}
    BY DEF TypeInv, TypeOK, Marked
  <1>1. ASSUME NEW c \in calls, CallFails(c) PROVE Troubled
    <2>1. /\ OpsStay
          /\ \A o \in Ops : op'[o].snap = op[o].snap /\ op'[o].ok = op[o].ok
          /\ \A o \in Ops : op[o].faulty => op'[o].faulty
      BY <1>1 DEF CallFails, OpsStay, TypeInv, TypeOK, OpType
    <2>2. calls' \subseteq {[b \in calls |-> b][a] : a \in calls}
      BY <1>0, <1>1 DEF CallFails
    <2>3. \A b \in calls : ~op'[b.op].faulty /\ b.live => b \in calls'
      BY <1>1 DEF CallFails, TypeInv, TypeOK, CallType, OpType
    <2>4. calls' \subseteq calls
      BY <1>1 DEF CallFails
    <2>5. UNCHANGED <<store, nops, card, ui, switches, everOn>>
      BY <1>1 DEF CallFails
    <2> QED
      BY <1>0, <2>1, <2>2, <2>3, <2>4, <2>5 DEF Troubled
  <1>2. ASSUME NEW c \in calls, LoseWrite(c) PROVE Troubled
    <2>1. calls' \subseteq {[b \in calls |-> b][a] : a \in calls}
      BY <1>0, <1>2 DEF LoseWrite
    <2> QED
      BY <1>0, <1>2, <2>1 DEF LoseWrite, Troubled, OpsStay, budget
  <1>3. ASSUME NEW d \in Devices, NEW u \in Users, SignIn(d, u) \/ SignUp(d, u)
        PROVE  Troubled
    <2>1. \A e \in Devices : card'[e] = None \/ (card'[e] = card[e] /\ ui'[e] = ui[e])
      BY <1>3 DEF SignIn, SignUp, Switch, TypeInv, TypeOK
    <2> QED
      BY <1>0, <1>3, <2>1 DEF SignIn, SignUp, Switch, Troubled, OpsStay
  <1>4. ASSUME NEW d \in Devices, Kill(d) PROVE Troubled
    <2> DEFINE mark == [c \in calls |-> [c EXCEPT !.live = @ /\ c.dev # d]]
    <2>1. \A c \in calls : mark[c] \in CallType /\ Marked(c, mark[c])
      BY DEF TypeInv, TypeOK, CallType, Marked
    <2>2. mark \in [calls -> CallType]
      BY <2>1
    <2>3. calls' \subseteq {mark[c] : c \in calls}
      BY <1>4 DEF Kill
    <2>4. /\ OpsStay
          /\ \A o \in Ops : op'[o].snap = op[o].snap /\ op'[o].ok = op[o].ok
          /\ \A o \in Ops : op[o].faulty => op'[o].faulty
      BY <1>4 DEF Kill, OpsStay, TypeInv, TypeOK, OpType
    <2>5. \A e \in Devices : card'[e] = None \/ (card'[e] = card[e] /\ ui'[e] = ui[e])
      BY <1>4 DEF Kill, TypeInv, TypeOK
    <2>6. UNCHANGED <<store, nops, switches, everOn>>
      BY <1>4 DEF Kill
    <2>7. \A c \in calls : ~op'[c.op].faulty => c.dev # d
      BY <1>4 DEF Kill, TypeInv, TypeOK, CallType, OpType
    <2>8. \A c \in calls : c.dev # d => mark[c] = c
      BY DEF TypeInv, TypeOK, CallType
    <2>9. \A c \in calls : c.dev # d => mark[c] \in calls'
      BY <1>4 DEF Kill
    <2> HIDE DEF mark
    <2>10. \A c \in calls : ~op'[c.op].faulty => mark[c] = c /\ c \in calls'
      BY <2>7, <2>8, <2>9
    <2>11. \A c \in calls' : ~op'[c.op].faulty => c \in calls
      BY <2>1, <2>3, <2>10 DEF Marked
    <2> QED
      BY <2>1, <2>2, <2>3, <2>4, <2>5, <2>6, <2>10, <2>11 DEF Troubled
  <1> QED
    BY <1>1, <1>2, <1>3, <1>4

(* Every step is one of four.                                              *)
LEMMA StepShapes ==
  ASSUME TypeInv, [Next]_vars
  PROVE  \/ \E d \in Devices : Looks(d)
         \/ \E d \in Devices, kind \in OpKinds, me \in Users, peer \in Users,
               first \in CallType : Started(d, kind, me, peer, first)
         \/ \E c \in calls : Served(c)
         \/ Troubled
  <1>1. CASE UNCHANGED vars
    <2>1. /\ [c \in calls |-> c] \in [calls -> CallType]
          /\ \A c \in calls : Marked(c, [b \in calls |-> b][c])
          /\ calls' = {[b \in calls |-> b][c] : c \in calls}
      BY <1>1 DEF vars, TypeInv, TypeOK, Marked
    <2> QED
      BY <1>1, <2>1 DEF vars, device, store, budget, Troubled, OpsStay
  <1>2. CASE Next
    BY <1>2, UserSteps, ServeServed, TroubleTroubled DEF Next
  <1> QED
    BY <1>1, <1>2

-----------------------------------------------------------------------------
(* Where messages and entries come from.                                   *)

AskingCalls == {"setWaiting", "addWaiting"}
SendingCalls == {"upload", "setFriend", "addFriend", "addMine"}

(* Operations are started one after the other.                             *)
Unstarted == \A o \in Ops : o > nops => op[o].kind = "none"

(* Until the deletions of a decision fan out, an operation has one call    *)
(* outstanding.                                                            *)
OneAtATime ==
  \A c, b \in calls : c.op = b.op /\ c.kind \notin Fanned => c = b

IsMessageOf(m, kind) ==
  /\ m.n \in 1 .. nops
  /\ op[m.n].kind = kind /\ op[m.n].me = m.from /\ op[m.n].peer = m.to

(* The messages a call is about are those of the operation it belongs to,  *)
(* or, in a decision, those of the requests it is about.                   *)
CallTracked(c) ==
  /\ c.op \in 1 .. nops
  /\ c.kind \in AskingCalls =>
       /\ IsMessageOf(c.msg, "request")
       /\ c.msg.n = c.op /\ c.peer = c.msg.from /\ c.own = c.msg.to
  /\ c.kind \in SendingCalls => IsMessageOf(c.msg, "send") /\ c.msg.n = c.op
  /\ c.kind \in DecisionCalls => \A m \in c.carry : IsMessageOf(m, "request")
  /\ c.kind \in Fanned => IsMessageOf(c.msg, "request") /\ c.msg.from = c.peer

(* An entry is the copy an acceptance made of a request, or one of the two *)
(* copies of a message that was sent.                                      *)
EntryTracked(e) ==
  \/ /\ e.call = "addActive"
     /\ IsMessageOf(e.msg, "request") /\ IsMessageOf(e.via, "request")
     /\ e.msg.from = e.peer /\ e.via.from = e.peer
     /\ e.op \in 1 .. nops /\ op[e.op].kind = "accept" /\ op[e.op].peer = e.peer
  \/ /\ e.call \in {"addFriend", "addMine"}
     /\ IsMessageOf(e.msg, "send")
     /\ e.via = e.msg /\ e.op = e.msg.n

(* sendMessage adds the friend's entry first, and its own into the log at  *)
(* the other end.                                                          *)
BeforeEntry(c, e) ==
  c.op = e.op /\ c.kind \in SendingCalls =>
    /\ c.kind = "addMine" /\ e.call = "addFriend"
    /\ e.own = c.peer /\ e.peer = c.own

EntriesOfOne(e, f) ==
  e.op = f.op /\ e.call # "addActive" =>
    IF e.call = f.call THEN e = f ELSE e.own = f.peer /\ e.peer = f.own

TrackInv ==
  /\ Unstarted /\ OneAtATime
  /\ \A l \in letters : IsMessageOf(l.msg, "request")
  /\ \A c \in calls : CallTracked(c)
  /\ \A e \in log : EntryTracked(e)
  /\ \A c \in calls, e \in log : BeforeEntry(c, e)
  /\ \A e, f \in log : EntriesOfOne(e, f)

LEMMA InitTrackInv == Init => TrackInv
  BY DEF Init, TrackInv, Unstarted, OneAtATime, NoOp

(* What is known of an operation that has started does not change.         *)
LEMMA TrackedStable ==
  ASSUME Grows, NEW m, NEW kind, IsMessageOf(m, kind)
  PROVE  IsMessageOf(m, kind)'
  BY DEF Grows, IsMessageOf

LEMMA CallTrackedStable ==
  ASSUME Grows, NEW c, CallTracked(c)
  PROVE  CallTracked(c)'
  BY TrackedStable DEF Grows, CallTracked

LEMMA EntryTrackedStable ==
  ASSUME Grows, NEW e, EntryTracked(e)
  PROVE  EntryTracked(e)'
  BY TrackedStable DEF Grows, EntryTracked

LEMMA StartedTrackInv ==
  ASSUME TypeInv, TrackInv, Grows, NEW d \in Devices, NEW kind \in OpKinds,
         NEW me \in Users, NEW peer \in Users, NEW first \in CallType,
         Started(d, kind, me, peer, first)
  PROVE  TrackInv'
  <1> USE DEF session, store
  <1>0. nops \in Nat /\ nops' = nops + 1 /\ nops + 1 \in 1 .. nops' /\ first.op = nops + 1
    BY DEF Started, Opens, Call, TypeInv, TypeOK
  <1>1. Unstarted'
    BY <1>0 DEF Started, TrackInv, Unstarted, Ops
  <1>2. \A c \in calls : c.op # first.op
    BY <1>0 DEF TrackInv, CallTracked
  <1>3. OneAtATime'
    BY <1>2 DEF Started, TrackInv, OneAtATime
  <1>4. CallTracked(first)'
    BY <1>0
       DEF Started, Opens, Call, NewMsg, CallTracked, IsMessageOf, AskingCalls,
           SendingCalls, DecisionCalls, Fanned
  <1>5. \A c \in calls' : CallTracked(c)'
    BY <1>4, CallTrackedStable DEF Started, TrackInv
  <1>6. \A e \in log : e.op \in 1 .. nops
    BY DEF TrackInv, EntryTracked, IsMessageOf
  <1>7. \A c \in calls', e \in log' : BeforeEntry(c, e)
    BY <1>0, <1>6 DEF Started, TrackInv, BeforeEntry
  <1>8. \A l \in letters' : IsMessageOf(l.msg, "request")'
    BY TrackedStable DEF Started, TrackInv
  <1>9. \A e \in log' : EntryTracked(e)'
    BY EntryTrackedStable DEF Started, TrackInv
  <1> QED
    BY <1>1, <1>3, <1>5, <1>7, <1>8, <1>9
       DEF Started, TrackInv, BeforeEntry, EntriesOfOne

LEMMA TroubledTrackInv ==
  ASSUME TypeInv, TrackInv, Grows, Troubled
  PROVE  TrackInv'
  <1> USE DEF store
  <1>1. PICK mark \in [calls -> CallType] :
          /\ \A c \in calls : Marked(c, mark[c])
          /\ calls' \subseteq {mark[c] : c \in calls}
    BY DEF Troubled
  <1>2. \A c \in calls' : \E b \in calls : c = mark[b] /\ Marked(b, c)
    BY <1>1
  <1>3. Unstarted'
    BY DEF Troubled, OpsStay, TrackInv, Unstarted
  <1>4. OneAtATime'
    BY <1>2 DEF Marked, TrackInv, OneAtATime
  <1>5. \A c \in calls' : CallTracked(c)'
    <2>1. \A c \in calls : \A n : Marked(c, n) => CallTracked(n)
      BY DEF Marked, TrackInv, CallTracked
    <2> QED
      BY <1>2, <2>1, CallTrackedStable
  <1>6. \A c \in calls', e \in log' : BeforeEntry(c, e)
    BY <1>2 DEF Marked, TrackInv, BeforeEntry, Troubled
  <1>7. \A l \in letters' : IsMessageOf(l.msg, "request")'
    BY TrackedStable DEF Troubled, TrackInv
  <1>8. \A e \in log' : EntryTracked(e)'
    BY EntryTrackedStable DEF Troubled, TrackInv
  <1> QED
    BY <1>3, <1>4, <1>5, <1>6, <1>7, <1>8
       DEF Troubled, TrackInv, BeforeEntry, EntriesOfOne

LEMMA ServedTrackInv ==
  ASSUME TypeInv, MailInv, ConsentInv, TrackInv, Grows, NEW c \in calls, Served(c)
  PROVE  TrackInv'
  <1>0. /\ c \in CallType /\ c.kind \in CallKinds
        /\ CallTracked(c) /\ CallSigned(c) /\ CallFollows(c)
        /\ \A m \in LettersOf(c.own, c.peer) :
             IsMessageOf(m, "request") /\ m.from = c.peer
    BY DEF TypeInv, TypeOK, CallType, TrackInv, MailInv, LettersSigned, ConsentInv,
           CallsFollow, LettersOf
  <1>a. nops' = nops
    BY DEF Served
  <1>1. Unstarted'
    BY <1>a DEF Served, OpsStay, TrackInv, Unstarted
  <1>2. \A n \in calls' : (n \in calls /\ n # c) \/ (n \in CallType /\ Follows(c, n))
    BY DEF Served
  <1>3. OneAtATime'
    <2>1. ASSUME NEW n \in CallType, NEW b \in CallType, Follows(c, n), Follows(c, b),
                 n.kind \notin Fanned
          PROVE  n = b
      BY <2>1 DEF Follows, Fanned, CallType
    <2>2. ASSUME NEW n \in CallType, Follows(c, n), NEW b \in calls, b # c, n.op = b.op
          PROVE  n.kind \in Fanned /\ b.kind \in Fanned
      BY <2>2 DEF Follows, Fanned, TrackInv, OneAtATime
    <2> QED
      BY <1>2, <2>1, <2>2 DEF TrackInv, OneAtATime
  <1>4. \A l \in letters' : IsMessageOf(l.msg, "request")'
    <2>1. \A l \in letters' : IsMessageOf(l.msg, "request")
      BY <1>0 DEF Served, Writes, TrackInv, CallTracked, AskingCalls
    <2> QED
      BY <2>1, TrackedStable
  <1>5. \A n \in calls' : CallTracked(n)'
    <2>1. ASSUME NEW n \in CallType, Follows(c, n) PROVE CallTracked(n)
      BY <1>0, <2>1
         DEF Follows, CallTracked, AskingCalls, SendingCalls, DecisionCalls, Fanned
    <2>2. \A n \in calls' : CallTracked(n)
      BY <1>2, <2>1 DEF TrackInv
    <2> QED
      BY <2>2, CallTrackedStable
  <1>6. \A e \in log' : e \in log \/ Enters(c, e)
    BY DEF Served, Writes
  <1>7. \A e \in log' : EntryTracked(e)'
    <2>1. ASSUME NEW e, Enters(c, e) PROVE EntryTracked(e)
      BY <1>0, <2>1
         DEF Enters, EntryTracked, CallTracked, CallSigned, CallFollows, SendingCalls,
             DecisionCalls, Fanned
    <2>2. \A e \in log' : EntryTracked(e)
      BY <1>6, <2>1 DEF TrackInv
    <2> QED
      BY <2>2, EntryTrackedStable
  <1>8. \A n \in calls', e \in log' : BeforeEntry(n, e)
    <2>1. ASSUME NEW n \in calls, n # c, NEW e, Enters(c, e) PROVE BeforeEntry(n, e)
      BY <2>1 DEF Enters, BeforeEntry, TrackInv, OneAtATime, SendingCalls, Fanned
    <2>2. ASSUME NEW n, Follows(c, n), NEW e \in log PROVE BeforeEntry(n, e)
      <3>1. BeforeEntry(c, e)
        BY DEF TrackInv
      <3>2. n.op = c.op /\ (n.kind \in SendingCalls => c.kind \in SendingCalls \ {"addMine"})
        BY <2>2 DEF Follows, SendingCalls
      <3> QED
        BY <3>1, <3>2 DEF BeforeEntry
    <2>3. ASSUME NEW n, Follows(c, n), NEW e, Enters(c, e) PROVE BeforeEntry(n, e)
      BY <2>3 DEF Follows, Enters, BeforeEntry, SendingCalls
    <2> QED
      BY <1>2, <1>6, <2>1, <2>2, <2>3 DEF TrackInv
  <1>9. \A e, f \in log' : EntriesOfOne(e, f)
    <2>1. ASSUME NEW e, Enters(c, e), NEW f \in log PROVE EntriesOfOne(e, f)
      <3>1. BeforeEntry(c, f)
        BY DEF TrackInv
      <3> QED
        BY <2>1, <3>1 DEF Enters, EntriesOfOne, BeforeEntry, SendingCalls
    <2>2. ASSUME NEW f, Enters(c, f), NEW e \in log PROVE EntriesOfOne(e, f)
      <3>1. CASE c.kind = "addActive"
        <4>1. op[c.op].kind = "accept"
          BY <1>0, <3>1 DEF CallFollows
        <4>2. e.call # "addActive" => op[e.op].kind = "send"
          BY DEF TrackInv, EntryTracked, IsMessageOf
        <4> QED
          BY <2>2, <4>1, <4>2 DEF Enters, EntriesOfOne
      <3>2. CASE c.kind # "addActive"
        BY <2>2, <3>2 DEF Enters, EntriesOfOne, BeforeEntry, TrackInv, SendingCalls
      <3> QED
        BY <3>1, <3>2
    <2>3. \A e, f \in log' : (e \in log /\ f \in log) \/ (e \in log /\ Enters(c, f))
                               \/ (Enters(c, e) /\ f \in log) \/ e = f
      BY DEF Served, Writes
    <2>4. \A e : EntriesOfOne(e, e) \/ e.call = e.call
      OBVIOUS
    <2> QED
      BY <2>1, <2>2, <2>3 DEF TrackInv, EntriesOfOne
  <1> QED
    BY <1>1, <1>3, <1>4, <1>5, <1>7, <1>8, <1>9 DEF TrackInv

LEMMA LooksTrackInv ==
  ASSUME TrackInv, NEW d \in Devices, Looks(d)
  PROVE  TrackInv'
  BY DEF Looks, store, TrackInv, Unstarted, OneAtATime, CallTracked, EntryTracked,
         BeforeEntry, EntriesOfOne, IsMessageOf

LEMMA StepTrackInv ==
  TypeInv /\ MailInv /\ ConsentInv /\ TrackInv /\ [Next]_vars => TrackInv'
  <1> SUFFICES ASSUME TypeInv, MailInv, ConsentInv, TrackInv, [Next]_vars
               PROVE  TrackInv'
    OBVIOUS
  <1>1. Grows
    BY NextGrows
  <1> QED
    BY <1>1, StepShapes, LooksTrackInv, StartedTrackInv, ServedTrackInv, TroubledTrackInv

(* MailInv holds in every behaviour, as TypeInv and ConsentInv do.         *)
LEMMA MailInvariant == Spec => []MailInv
  BY InitMailInv, StepMailInv, TypeInvariant, PTL DEF Spec

LEMMA TrackInvariant == Spec => []TrackInv
  BY InitTrackInv, StepTrackInv, TypeInvariant, MailInvariant, ConsentInvariant, PTL
     DEF Spec

(* No message is copied twice into a log unless its author has made two    *)
(* requests or two of her requests were accepted: one acceptance makes one *)
(* copy for each message it deletes, which is one when there is one        *)
(* request, and sendMessage makes one entry at either end.                 *)
THEOREM OneRequestOneCopyTheorem == Spec => []OneRequestOneCopy
  <1>1. TypeInv /\ TrackInv => OneRequestOneCopy
    <2> SUFFICES ASSUME TypeInv, TrackInv, NEW e1 \in log, NEW e2 \in log,
                        e1.msg = e2.msg, e1.own = e2.own, e1.own # e1.peer, e1 # e2
                 PROVE  \E o, p \in Ops :
                          /\ o # p /\ op[o].kind = op[p].kind
                          /\ \/ /\ op[o].kind = "request"
                                /\ {op[o].me, op[p].me} = {e1.msg.from}
                             \/ /\ op[o].kind = "accept"
                                /\ {op[o].peer, op[p].peer} = {e1.msg.from}
      BY DEF OneRequestOneCopy
    <2>0. 1 .. nops \subseteq Ops
      BY ConstantsAssumption DEF TypeInv, TypeOK, Ops
    <2>1. EntryTracked(e1) /\ EntryTracked(e2) /\ EntriesOfOne(e1, e2)
      BY DEF TrackInv
    <2>2. e1.call = "addActive" /\ e2.call = "addActive"
      BY <2>1 DEF EntryTracked, EntriesOfOne, IsMessageOf
    <2>3. CASE e1.op # e2.op
      BY <2>0, <2>1, <2>2, <2>3 DEF EntryTracked
    <2>4. CASE e1.op = e2.op
      <3>1. e1.via # e2.via
        BY <2>1, <2>2, <2>4 DEF EntryTracked, TypeInv, TypeOK, Entry
      <3>2. e1.via \in Msg /\ e2.via \in Msg
        BY DEF TypeInv, TypeOK, Entry
      <3>3. e1.via.n # e2.via.n
        BY <2>1, <2>2, <3>1, <3>2 DEF EntryTracked, IsMessageOf, Msg
      <3> QED
        BY <2>0, <2>1, <2>2, <3>3 DEF EntryTracked, IsMessageOf
    <2> QED
      BY <2>3, <2>4
  <1> QED
    BY <1>1, TypeInvariant, TrackInvariant, PTL

-----------------------------------------------------------------------------
(* Messages travel as Courier says.                                        *)

(* Who wrote what is settled when the operation starts.                    *)
LEMMA WrittenStays ==
  ASSUME TypeInv, OpsStay
  PROVE  Written' = Written
  <1>1. \A m \in Msg : m.n \in Ops
    BY DEF Msg
  <1> QED
    BY <1>1 DEF OpsStay, Written

LEMMA LogsStay ==
  ASSUME log' = log
  PROVE  Got' = Got /\ Shown' = Shown
  BY DEF Got, Shown, InLog

(* A request or a message that is sent is written, once.                   *)
LEMMA StartedImplements ==
  ASSUME TypeInv, TrackInv, NEW d \in Devices, NEW kind \in OpKinds,
         NEW me \in Users, NEW peer \in Users, NEW first \in CallType,
         Started(d, kind, me, peer, first)
  PROVE  [MessageCourier!CourierNext]_MessageCourier!courierVars
  <1> DEFINE m == NewMsg(me, peer)
  <1>0. /\ m \in Msg /\ m.n = nops + 1 /\ m.from = me /\ m.to = peer
        /\ \A b \in Msg : b.n \in Ops
        /\ nops + 1 \in Ops /\ op[nops + 1].kind = "none"
    BY DEF Started, NewMsg, Msg, TrackInv, Unstarted, TypeInv, TypeOK
  <1>1. Got' = Got /\ Shown' = Shown
    BY LogsStay DEF Started, store
  <1>2. ASSUME NEW b \in Msg, b.n # nops + 1 PROVE b \in Written' <=> b \in Written
    BY <1>0, <1>2 DEF Started, Written
  <1>3. ASSUME NEW b \in Msg, b.n = nops + 1
        PROVE  /\ b \notin Written
               /\ b \in Written' <=> kind \in {"request", "send"} /\ b = m
    <2>1. b \notin Written
      BY <1>0, <1>3 DEF Written
    <2>2. b = m <=> b.from = me /\ b.to = peer
      BY <1>0, <1>3 DEF Msg
    <2>3. b \in Written' <=> kind \in {"request", "send"} /\ b.from = me /\ b.to = peer
      BY <1>3 DEF Started, Written
    <2> QED
      BY <2>1, <2>2, <2>3
  <1> HIDE DEF m
  <1>4. CASE kind \in {"request", "send"}
    <2>1. m \notin Written /\ Written' = Written \cup {m}
      <3>1. Written \subseteq Msg /\ Written' \subseteq Msg
        BY DEF Written
      <3> QED
        BY <1>0, <1>2, <1>3, <1>4, <3>1
    <2>2. MessageCourier!Write(m)
      BY <1>1, <2>1 DEF MessageCourier!Write
    <2> QED
      BY <1>0, <2>2 DEF MessageCourier!CourierNext
  <1>5. CASE kind \notin {"request", "send"}
    <2>1. Written' = Written
      <3>1. Written \subseteq Msg /\ Written' \subseteq Msg
        BY DEF Written
      <3> QED
        BY <1>2, <1>3, <1>5, <3>1
    <2> QED
      BY <1>1, <2>1 DEF MessageCourier!courierVars
  <1> QED
    BY <1>4, <1>5

(* An entry delivers its message, shows it, or is one more copy.           *)
LEMMA ServedImplements ==
  ASSUME TypeInv, MailInv, MailInv', TrackInv', NEW c \in calls, Served(c)
  PROVE  [MessageCourier!CourierNext]_MessageCourier!courierVars
  <1>1. Written' = Written
    BY WrittenStays DEF Served
  <1>2. CASE log' = log
    BY <1>1, <1>2, LogsStay DEF MessageCourier!courierVars
  <1>3. ASSUME NEW e \in Entry, log' = log \cup {e}
        PROVE  [MessageCourier!CourierNext]_MessageCourier!courierVars
    <2>0. e.msg \in Msg
      BY DEF Entry
    <2>1. e.msg \in Written
      <3>1. EntryTracked(e)'
        BY <1>3 DEF TrackInv
      <3>2. e.msg \in Written'
        BY <2>0, <3>1 DEF EntryTracked, IsMessageOf, Written
      <3> QED
        BY <1>1, <3>2
    <2>2. Got' = Got \cup (IF e.own = e.msg.to /\ e.peer = e.msg.from THEN {e.msg} ELSE {})
      <3>1. \A m \in Msg : InLog(m, m.to, m.from)' <=>
              InLog(m, m.to, m.from) \/ (m = e.msg /\ e.own = m.to /\ e.peer = m.from)
        BY <1>3 DEF InLog
      <3> QED
        BY <2>0, <3>1 DEF Got
    <2>3. Shown' = Shown \cup (IF e.own = e.msg.from /\ e.peer = e.msg.to THEN {e.msg} ELSE {})
      <3>1. \A m \in Msg : InLog(m, m.from, m.to)' <=>
              InLog(m, m.from, m.to) \/ (m = e.msg /\ e.own = m.from /\ e.peer = m.to)
        BY <1>3 DEF InLog
      <3> QED
        BY <2>0, <3>1 DEF Shown
    <2>4. Shown' \subseteq Got'
      BY DEF MailInv, SentIsDelivered, Shown, Got, InLog
    <2>5. CASE e.msg \notin Got /\ e.own = e.msg.to /\ e.peer = e.msg.from
      <3>1. Got' = Got \cup {e.msg}
        BY <2>2, <2>5
      <3>2. Shown' = Shown \cup ({e.msg} \cap {m \in Msg : m.from = m.to})
        BY <2>0, <2>3, <2>5
      <3>3. MessageCourier!Deliver(e.msg)
        BY <1>1, <2>1, <2>5, <3>1, <3>2 DEF MessageCourier!Deliver
      <3> QED
        BY <2>0, <3>3 DEF MessageCourier!CourierNext
    <2>6. CASE Got' = Got /\ Shown' # Shown
      <3>1. Shown' = Shown \cup {e.msg} /\ e.msg \in Got \ Shown
        BY <2>3, <2>4, <2>6
      <3>2. MessageCourier!Show(e.msg)
        BY <1>1, <2>6, <3>1 DEF MessageCourier!Show
      <3> QED
        BY <2>0, <3>2 DEF MessageCourier!CourierNext
    <2>7. CASE Got' = Got /\ Shown' = Shown
      BY <1>1, <2>7 DEF MessageCourier!courierVars
    <2> QED
      BY <2>2, <2>5, <2>6, <2>7
  <1> QED
    BY <1>2, <1>3 DEF Served, Writes

(* FirestoreManager's chains of calls implement the courier: a message is  *)
(* written once, reaches its addressee before its author sees it as sent,  *)
(* and never disappears from a log, whatever fails in between.             *)
THEOREM ImplementsTheorem == Spec => Implements
  <1>1. Init => MessageCourier!CourierInit
    BY DEF Init, NoOp, Msg, Written, Got, Shown, InLog, MessageCourier!CourierInit
  <1>2. /\ TypeInv /\ MailInv /\ MailInv' /\ TrackInv /\ TrackInv' /\ [Next]_vars
        => [MessageCourier!CourierNext]_MessageCourier!courierVars
    <2> SUFFICES ASSUME TypeInv, MailInv, MailInv', TrackInv, TrackInv', [Next]_vars
                 PROVE  [MessageCourier!CourierNext]_MessageCourier!courierVars
      OBVIOUS
    <2>1. CASE Troubled
      BY <2>1, WrittenStays, LogsStay DEF Troubled, store, MessageCourier!courierVars
    <2>2. ASSUME NEW d \in Devices, Looks(d)
          PROVE  [MessageCourier!CourierNext]_MessageCourier!courierVars
      <3>1. OpsStay
        BY <2>2 DEF Looks, OpsStay
      <3> QED
        BY <2>2, <3>1, WrittenStays, LogsStay DEF Looks, store, MessageCourier!courierVars
    <2> QED
      BY <2>1, <2>2, StepShapes, StartedImplements, ServedImplements
  <1> QED
    BY <1>1, <1>2, TypeInvariant, MailInvariant, TrackInvariant, PTL
       DEF Spec, Implements, MessageCourier!CourierSpec

-----------------------------------------------------------------------------
(* A friend is in both sections only after two requests.                   *)

Between(o, u, v) ==
  /\ op[o].kind = "request"
  /\ <<op[o].me, op[o].peer>> \in {<<u, v>>, <<v, u>>}

(* A request of `peer' to `own' whose document has been written, or never  *)
(* will be.                                                                *)
Placed(own, peer) ==
  \E o \in 1 .. nops :
    /\ op[o].kind = "request" /\ op[o].me = peer /\ op[o].peer = own
    /\ \A c \in calls : c.kind = "setWaiting" => c.op # o

TwoBetween(u, v) ==
  \E o, p \in 1 .. nops : o # p /\ Between(o, u, v) /\ Between(p, u, v)

(* No document of a request between u and v exists or is on its way.       *)
NoneWaits(u, v) ==
  /\ <<u, v>> \notin requests /\ <<v, u>> \notin requests
  /\ \A c \in calls :
       c.kind = "setWaiting" => <<c.own, c.peer>> \notin {<<u, v>>, <<v, u>>}

Settled(u, v) ==
  /\ \E o \in 1 .. nops : Between(o, u, v)
  /\ TwoBetween(u, v) \/ NoneWaits(u, v)

PastDelDoc == {"getDelete", "delMsg", "setActive"}

RequestInv ==
  /\ \A pair \in requests : Placed(pair[1], pair[2])
  /\ \A d \in Devices : card[d] # None => Placed(ui[d], card[d])
  /\ \A o \in 1 .. nops : op[o].kind \in Decisions => Placed(op[o].me, op[o].peer)
  /\ \A c \in calls :
       c.kind \in PastDelDoc /\ Private(c.own) => Settled(c.own, c.peer)
  /\ \A pair \in chats :
       Private(pair[1]) /\ Private(pair[2]) => Settled(pair[1], pair[2])

LEMMA InitRequestInv == Init => RequestInv
  BY DEF Init, RequestInv

LEMMA SettledSymmetric ==
  ASSUME NEW u, NEW v, Settled(u, v)
  PROVE  Settled(v, u)
  BY DEF Settled, TwoBetween, Between, NoneWaits

(* A request that is placed stays so: no call of its own is issued again.  *)
LEMMA PlacedStable ==
  ASSUME Grows, NEW own, NEW peer, Placed(own, peer),
         \A c \in calls' : c.kind = "setWaiting" =>
           c.op \notin 1 .. nops \/ \E b \in calls : b.kind = "setWaiting" /\ b.op = c.op
  PROVE  Placed(own, peer)'
  BY DEF Grows, Placed

LEMMA BetweenStable ==
  ASSUME Grows, NEW o \in 1 .. nops, NEW u, NEW v
  PROVE  o \in 1 .. nops' /\ (Between(o, u, v)' <=> Between(o, u, v))
  BY DEF Grows, Between

(* So does what is settled, if a new document or a new call for one means  *)
(* a second request.                                                       *)
LEMMA SettledStable ==
  ASSUME Grows, NEW u, NEW v, Settled(u, v), NoneWaits(u, v)' \/ TwoBetween(u, v)' \/ ~NoneWaits(u, v)
  PROVE  Settled(u, v)'
  <1>1. \E o \in 1 .. nops' : Between(o, u, v)'
    BY BetweenStable DEF Settled
  <1>2. TwoBetween(u, v) => TwoBetween(u, v)'
    BY BetweenStable DEF TwoBetween
  <1> QED
    BY <1>1, <1>2 DEF Settled

LEMMA StartedRequestInv ==
  ASSUME TypeInv, TrackInv, ConsentInv, RequestInv, Grows, NEW d \in Devices,
         NEW kind \in OpKinds, NEW me \in Users, NEW peer \in Users,
         NEW first \in CallType, Started(d, kind, me, peer, first)
  PROVE  RequestInv'
  <1> USE DEF session, store
  <1>0. /\ nops \in Nat /\ nops' = nops + 1 /\ first.op = nops + 1
        /\ first.kind \notin PastDelDoc /\ (first.kind = "setWaiting" <=> kind = "request")
        /\ calls' = calls \cup {first}
    BY DEF Started, Opens, Call, TypeInv, TypeOK, PastDelDoc
  <1>1. ASSUME NEW u, NEW v, Placed(u, v) PROVE Placed(u, v)'
    BY <1>0, <1>1, PlacedStable
  <1>2. ASSUME NEW u, NEW v, Settled(u, v) PROVE Settled(u, v)'
    <2>1. CASE first.kind = "setWaiting" /\ <<first.own, first.peer>> \in {<<u, v>>, <<v, u>>}
      <3>0. PICK k : k = nops + 1
        OBVIOUS
      <3>1. Between(k, u, v)' /\ k \in 1 .. nops'
        <4>1. kind = "request" /\ first.own = peer /\ first.peer = me
          BY <1>0, <2>1 DEF Started, Opens, Call, NewMsg
        <4>2. op'[k].kind = "request" /\ op'[k].me = me /\ op'[k].peer = peer
          BY <3>0, <4>1 DEF Started
        <4> QED
          BY <1>0, <2>1, <3>0, <4>1, <4>2 DEF Between
      <3>2. PICK o \in 1 .. nops : Between(o, u, v)
        BY <1>2 DEF Settled
      <3>3. TwoBetween(u, v)'
        BY <1>0, <3>0, <3>1, <3>2, BetweenStable DEF TwoBetween
      <3> QED
        BY <1>2, <3>3, SettledStable
    <2>2. CASE ~(first.kind = "setWaiting" /\ <<first.own, first.peer>> \in {<<u, v>>, <<v, u>>})
      <3>1. NoneWaits(u, v) => NoneWaits(u, v)'
        BY <1>0, <2>2 DEF Started, NoneWaits
      <3> QED
        BY <1>2, <3>1, SettledStable
    <2> QED
      BY <2>1, <2>2
  <1>3. kind \in Decisions => Placed(me, peer)
    BY ConstantsAssumption DEF Started, Opens, RequestInv, Decisions
  <1>4. \A pair \in requests' : Placed(pair[1], pair[2])'
    BY <1>1 DEF Started, RequestInv
  <1>5. ASSUME NEW e \in Devices, card'[e] # None PROVE Placed(ui[e], card[e])'
    <2>1. card'[e] = card[e] /\ ui'[e] = ui[e]
      BY <1>5 DEF Started, TypeInv, TypeOK
    <2> QED
      BY <1>1, <1>5, <2>1 DEF RequestInv, Placed
  <1>6. ASSUME NEW o \in 1 .. nops', op'[o].kind \in Decisions
        PROVE  Placed(op[o].me, op[o].peer)'
    <2>1. CASE o \in 1 .. nops
      <3>1. /\ op[o].kind \in Decisions
            /\ op'[o].me = op[o].me /\ op'[o].peer = op[o].peer
        BY <1>6, <2>1 DEF Grows
      <3> QED
        BY <1>1, <2>1, <3>1 DEF RequestInv, Placed
    <2>2. CASE o = nops + 1
      <3>1. kind \in Decisions /\ op'[o].me = me /\ op'[o].peer = peer
        BY <1>6, <2>2 DEF Started
      <3> QED
        BY <1>1, <1>3, <3>1 DEF Placed
    <2> QED
      BY <1>0, <1>6, <2>1, <2>2
  <1>7. ASSUME NEW c \in calls', c.kind \in PastDelDoc, Private(c.own)'
        PROVE  Settled(c.own, c.peer)'
    BY <1>0, <1>2, <1>7, PrivateStable DEF RequestInv
  <1>8. ASSUME NEW pair \in chats', Private(pair[1])', Private(pair[2])'
        PROVE  Settled(pair[1], pair[2])'
    <2>1. pair \in chats /\ Private(pair[1]) /\ Private(pair[2])
      BY <1>8, PrivateStable DEF Started
    <2> QED
      BY <1>2, <2>1 DEF RequestInv
  <1> QED
    BY <1>4, <1>5, <1>6, <1>7, <1>8 DEF RequestInv, Placed, Private, Settled

(* On a device that has had one account only, an acceptance deletes the    *)
(* request it is about.                                                    *)
LEMMA DelDocSettles ==
  ASSUME TypeInv, ConsentInv, TrackInv, RequestInv, Grows, NEW c \in calls, Served(c),
         c.kind = "delDoc", Private(c.own)
  PROVE  Settled(c.own, c.peer)'
  <1>0. /\ c \in CallType /\ CallFollows(c) /\ CallTracked(c)
        /\ \A b \in calls : CallTracked(b)
    BY DEF TypeInv, TypeOK, ConsentInv, CallsFollow, TrackInv
  <1>1. op[c.op].kind \in Decisions /\ op[c.op].me = c.own /\ op[c.op].peer = c.peer
    BY <1>0 DEF CallFollows, DecisionCalls, SendCalls, Private, CallType
  <1>2. Placed(c.own, c.peer)
    BY <1>0, <1>1 DEF RequestInv, CallTracked
  <1>3. PICK o \in 1 .. nops :
          /\ op[o].kind = "request" /\ op[o].me = c.peer /\ op[o].peer = c.own
          /\ \A b \in calls : b.kind = "setWaiting" => b.op # o
    BY <1>2 DEF Placed
  <1>4. Between(o, c.own, c.peer)
    BY <1>3 DEF Between
  <1>5. o \in 1 .. nops' /\ Between(o, c.own, c.peer)'
    BY <1>4, BetweenStable
  <1>6. ASSUME ~TwoBetween(c.own, c.peer) PROVE NoneWaits(c.own, c.peer)'
    <2>1. \A p \in 1 .. nops : Between(p, c.own, c.peer) => p = o
      BY <1>4, <1>6 DEF TwoBetween
    <2>2. requests' = requests \ {<<c.own, c.peer>>}
      BY DEF Served, Writes
    <2>3. <<c.peer, c.own>> \notin requests'
      <3>1. SUFFICES ASSUME <<c.peer, c.own>> \in requests, c.own # c.peer PROVE FALSE
        BY <2>2
      <3>2. Placed(c.peer, c.own)
        BY <3>1 DEF RequestInv
      <3>3. PICK p \in 1 .. nops :
              op[p].kind = "request" /\ op[p].me = c.own /\ op[p].peer = c.peer
        BY <3>2 DEF Placed
      <3>4. p = o
        BY <2>1, <3>3 DEF Between
      <3> QED
        BY <1>3, <3>1, <3>3, <3>4
    <2>4. ASSUME NEW b \in calls, b.kind = "setWaiting"
          PROVE  <<b.own, b.peer>> \notin {<<c.own, c.peer>>, <<c.peer, c.own>>}
      <3>1. /\ b.op \in 1 .. nops
            /\ op[b.op].kind = "request" /\ op[b.op].me = b.peer /\ op[b.op].peer = b.own
        BY <1>0, <2>4 DEF CallTracked, IsMessageOf, AskingCalls
      <3>2. b.op # o
        BY <1>3, <2>4
      <3> QED
        BY <2>1, <3>1, <3>2 DEF Between
    <2>5. \A b \in calls' : b.kind = "setWaiting" => b \in calls
      BY DEF Served, Follows
    <2> QED
      BY <2>2, <2>3, <2>4, <2>5 DEF NoneWaits
  <1>7. TwoBetween(c.own, c.peer) => TwoBetween(c.own, c.peer)'
    BY BetweenStable DEF TwoBetween
  <1> QED
    BY <1>5, <1>6, <1>7 DEF Settled

LEMMA ServedRequestInv ==
  ASSUME TypeInv, ConsentInv, TrackInv, RequestInv, Grows, NEW c \in calls, Served(c)
  PROVE  RequestInv'
  <1> USE DEF device, session
  <1>0. /\ c \in CallType /\ CallFollows(c) /\ CallTracked(c)
        /\ nops' = nops /\ ui' = ui /\ card' = card /\ everOn' = everOn
        /\ cur[c.dev] \in everOn[c.dev]
    BY DEF TypeInv, TypeOK, CallType, ConsentInv, CallsFollow, CurrentCounted, TrackInv,
           Served
  <1>1. \A b \in calls' : (b \in calls /\ b # c) \/ (b \in CallType /\ Follows(c, b))
    BY DEF Served
  <1>2. \A b \in calls' : b.kind = "setWaiting" => b \in calls /\ b # c
    BY <1>1 DEF Follows
  <1>3. ASSUME NEW u, NEW v, Placed(u, v) PROVE Placed(u, v)'
    BY <1>2, <1>3, PlacedStable
  <1>4. ASSUME NEW u, NEW v, Settled(u, v) PROVE Settled(u, v)'
    <2>1. CASE c.kind = "setWaiting" /\ <<c.own, c.peer>> \in {<<u, v>>, <<v, u>>}
      <3>1. ~NoneWaits(u, v)
        BY <2>1 DEF NoneWaits
      <3> QED
        BY <1>4, <3>1, SettledStable
    <2>2. CASE ~(c.kind = "setWaiting" /\ <<c.own, c.peer>> \in {<<u, v>>, <<v, u>>})
      <3>1. requests' \ requests \subseteq {<<c.own, c.peer>>}
        BY DEF Served, Writes
      <3>2. c.kind # "setWaiting" => requests' \subseteq requests
        BY DEF Served, Writes
      <3>3. NoneWaits(u, v) => NoneWaits(u, v)'
        BY <1>2, <2>2, <3>1, <3>2 DEF NoneWaits
      <3> QED
        BY <1>4, <3>3, SettledStable
    <2> QED
      BY <2>1, <2>2
  <1>5. ASSUME NEW pair \in requests' PROVE Placed(pair[1], pair[2])'
    <2>1. CASE pair \in requests
      BY <1>3, <2>1 DEF RequestInv
    <2>2. CASE pair \notin requests
      <3>1. c.kind = "setWaiting" /\ pair[1] = c.own /\ pair[2] = c.peer
        BY <1>5, <2>2 DEF Served, Writes
      <3>2. /\ c.op \in 1 .. nops
            /\ op[c.op].kind = "request" /\ op[c.op].me = c.peer /\ op[c.op].peer = c.own
        BY <1>0, <3>1 DEF CallTracked, IsMessageOf, AskingCalls
      <3>3. \A b \in calls' : b.kind = "setWaiting" => b.op # c.op
        BY <1>2 DEF TrackInv, OneAtATime, Fanned
      <3>4. Placed(c.own, c.peer)'
        BY <3>2, <3>3 DEF Placed, Grows
      <3> QED
        BY <3>1, <3>4 DEF Placed
    <2> QED
      BY <2>1, <2>2
  <1>6. ASSUME NEW n \in calls', n.kind \in PastDelDoc, Private(n.own)'
        PROVE  Settled(n.own, n.peer)'
    <2>0. Private(n.own)
      BY <1>6, PrivateStable
    <2>1. CASE n \in calls
      BY <1>4, <1>6, <2>0, <2>1 DEF RequestInv
    <2>2. CASE Follows(c, n)
      <3>1. c.kind \in PastDelDoc \cup {"delDoc"} /\ n.peer = c.peer /\ n.own \in {c.own, cur[c.dev]}
        BY <1>6, <2>2 DEF Follows, PastDelDoc
      <3>2. c.own \in everOn[c.dev]
        BY <1>0, <3>1 DEF CallFollows, PastDelDoc, DecisionCalls
      <3>3. n.own = c.own
        BY <1>0, <2>0, <3>1, <3>2 DEF Private, CallType
      <3>4. Settled(c.own, c.peer)'
        BY <1>4, <2>0, <3>1, <3>3, DelDocSettles DEF RequestInv
      <3> QED
        BY <3>1, <3>3, <3>4
    <2> QED
      BY <1>1, <2>1, <2>2
  <1>7. ASSUME NEW pair \in chats', Private(pair[1])', Private(pair[2])'
        PROVE  Settled(pair[1], pair[2])'
    <2>0. Private(pair[1]) /\ Private(pair[2])
      BY <1>7, PrivateStable DEF Private
    <2>1. CASE pair \in chats
      BY <1>4, <2>0, <2>1 DEF RequestInv
    <2>2. CASE pair \notin chats
      <3>1. c.kind \in {"setActive", "setFriend"} /\ pair[1] = c.own /\ pair[2] = c.peer
        BY <1>7, <2>2 DEF Served, Writes
      <3>2. CASE c.kind = "setActive"
        BY <1>4, <2>0, <3>1, <3>2 DEF RequestInv, PastDelDoc
      <3>3. CASE c.kind = "setFriend"
        <4>1. PICK u \in everOn[c.dev] : <<u, c.own>> \in chats
          BY <1>0, <3>3 DEF CallFollows, SendCalls
        <4>2. u = c.peer
          BY <1>0, <2>0, <3>1, <3>3, <4>1 DEF CallFollows, SendCalls, Private, CallType
        <4>3. Settled(c.peer, c.own)
          BY <2>0, <3>1, <4>1, <4>2 DEF RequestInv
        <4> QED
          BY <1>4, <3>1, <4>3, SettledSymmetric
      <3> QED
        BY <3>1, <3>2, <3>3
    <2> QED
      BY <2>1, <2>2
  <1>8. ASSUME NEW d \in Devices, card'[d] # None PROVE Placed(ui[d], card[d])'
    <2>1. Placed(ui[d], card[d])
      BY <1>0, <1>8 DEF RequestInv
    <2> QED
      BY <1>0, <1>3, <2>1 DEF Placed
  <1>9. ASSUME NEW o \in 1 .. nops', op'[o].kind \in Decisions
        PROVE  Placed(op[o].me, op[o].peer)'
    BY <1>0, <1>3, <1>9 DEF RequestInv, Grows, Placed
  <1> QED
    BY <1>5, <1>6, <1>7, <1>8, <1>9 DEF RequestInv, Placed, Private, Settled

(* Steps that write no document and issue no call.                         *)
LEMMA OtherRequestInv ==
  ASSUME TypeInv, RequestInv, Grows, Troubled \/ \E d \in Devices : Looks(d)
  PROVE  RequestInv'
  <1> USE DEF store, session
  <1>0. /\ nops' = nops /\ requests' = requests /\ chats' = chats
        /\ \A n \in calls' : \E c \in calls : /\ n.kind = c.kind /\ n.op = c.op
                                              /\ n.own = c.own /\ n.peer = c.peer
    <2>1. CASE Troubled
      <3>1. PICK mark \in [calls -> CallType] :
              /\ \A c \in calls : Marked(c, mark[c])
              /\ calls' \subseteq {mark[c] : c \in calls}
        BY <2>1 DEF Troubled
      <3> QED
        BY <2>1, <3>1 DEF Troubled, Marked
    <2>2. CASE \E d \in Devices : Looks(d)
      BY <2>2 DEF Looks
    <2> QED
      BY <2>1, <2>2
  <1>1. ASSUME NEW u, NEW v, Placed(u, v) PROVE Placed(u, v)'
    BY <1>0, <1>1, PlacedStable
  <1>2. ASSUME NEW u, NEW v, Settled(u, v) PROVE Settled(u, v)'
    <2>1. NoneWaits(u, v) => NoneWaits(u, v)'
      BY <1>0 DEF NoneWaits
    <2> QED
      BY <1>2, <2>1, SettledStable
  <1>3. ASSUME NEW d \in Devices, card'[d] # None PROVE Placed(ui[d], card[d])'
    <2>1. ui'[d] = ui[d] /\ (card'[d] = card[d] \/ <<ui[d], card'[d]>> \in requests)
      BY <1>3 DEF Troubled, Looks, TypeInv, TypeOK
    <2>2. Placed(ui[d], card'[d])
      BY <1>3, <2>1 DEF RequestInv
    <2> QED
      BY <1>1, <2>1, <2>2 DEF Placed
  <1>4. ASSUME NEW o \in 1 .. nops', op'[o].kind \in Decisions
        PROVE  Placed(op[o].me, op[o].peer)'
    BY <1>0, <1>1, <1>4 DEF RequestInv, Grows, Placed
  <1>5. ASSUME NEW c \in calls', c.kind \in PastDelDoc, Private(c.own)'
        PROVE  Settled(c.own, c.peer)'
    BY <1>0, <1>2, <1>5, PrivateStable DEF RequestInv
  <1>6. ASSUME NEW pair \in chats', Private(pair[1])', Private(pair[2])'
        PROVE  Settled(pair[1], pair[2])'
    <2>1. Private(pair[1]) /\ Private(pair[2])
      BY <1>6, PrivateStable DEF Private
    <2> QED
      BY <1>0, <1>2, <2>1 DEF RequestInv
  <1>7. \A pair \in requests' : Placed(pair[1], pair[2])'
    BY <1>0, <1>1 DEF RequestInv
  <1> QED
    BY <1>3, <1>4, <1>5, <1>6, <1>7 DEF RequestInv, Placed, Private, Settled

LEMMA StepRequestInv ==
  TypeInv /\ ConsentInv /\ TrackInv /\ RequestInv /\ [Next]_vars => RequestInv'
  <1> SUFFICES ASSUME TypeInv, ConsentInv, TrackInv, RequestInv, [Next]_vars
               PROVE  RequestInv'
    OBVIOUS
  <1>1. Grows
    BY NextGrows
  <1> QED
    BY <1>1, StepShapes, StartedRequestInv, ServedRequestInv, OtherRequestInv

(* The list of waiting and active chats, a diffable data source that does  *)
(* not accept an item twice, shows a friend in both sections only after    *)
(* two requests between the two users: an acceptance deletes the request   *)
(* before it creates the chat.                                             *)
THEOREM ListedTwiceTheorem == Spec => []ListedTwice
  <1>1. TypeInv /\ RequestInv => ListedTwice
    <2> SUFFICES ASSUME TypeInv, RequestInv, NEW pair \in requests \cap chats,
                        Private(pair[1]), Private(pair[2])
                 PROVE  \E o, p \in Ops :
                          /\ o # p
                          /\ op[o].kind = "request" /\ op[p].kind = "request"
                          /\ {op[o].me, op[o].peer} = {pair[1], pair[2]}
                          /\ {op[p].me, op[p].peer} = {pair[1], pair[2]}
      BY DEF ListedTwice
    <2>1. pair = <<pair[1], pair[2]>> /\ 1 .. nops \subseteq Ops
      BY ConstantsAssumption DEF TypeInv, TypeOK, Ops
    <2>2. TwoBetween(pair[1], pair[2])
      BY <2>1 DEF RequestInv, Settled, NoneWaits
    <2>3. PICK o, p \in 1 .. nops :
            o # p /\ Between(o, pair[1], pair[2]) /\ Between(p, pair[1], pair[2])
      BY <2>2 DEF TwoBetween
    <2> QED
      BY <2>1, <2>3 DEF Between
  <1> QED
    BY <1>1, InitRequestInv, StepRequestInv, TypeInvariant, ConsentInvariant,
       TrackInvariant, PTL DEF Spec

-----------------------------------------------------------------------------
(* An acceptance loses nothing.                                            *)

(* The steps keep what started operations are, their device included.      *)
OpsKept ==
  \A o \in 1 .. nops :
    /\ op'[o].kind = op[o].kind /\ op'[o].dev = op[o].dev /\ op'[o].me = op[o].me
    /\ op'[o].peer = op[o].peer /\ op'[o].start = op[o].start

LEMMA StepKeepsOps ==
  ASSUME TypeInv, [Next]_vars
  PROVE  OpsKept
  <1>1. 1 .. nops \subseteq Ops /\ nops \in Nat
    BY ConstantsAssumption DEF TypeInv, TypeOK, Ops
  <1> QED
    BY <1>1, StepShapes DEF OpsKept, OpsStay, Looks, Started, Served, Troubled

(* A live process goes on with what it has begun.                          *)
LEMMA Issues ==
  ASSUME TypeInv, NEW c \in calls, c.live
  PROVE  /\ c.kind \in {"getAccept", "delDoc"} => \E n \in CallType : Follows(c, n)
         /\ c.kind = "getDelete" =>
              \A m \in LettersOf(c.own, c.peer) :
                \E n \in CallType : Follows(c, n) /\ n.msg = m
         /\ c.kind = "delMsg" /\ op[c.op].kind = "accept" =>
              \E n \in CallType : Follows(c, n)
         /\ c.kind = "setActive" =>
              \A m \in c.carry : \E n \in CallType : Follows(c, n) /\ m \in n.carry
  <1>0. /\ c \in CallType /\ cur[c.dev] \in Users
        /\ c.kind \notin Unaddressed => c.msg \in Msg
        /\ LettersOf(c.own, c.peer) \in SUBSET Msg
    BY LettersOfType DEF TypeInv, TypeOK, CallsNameMessages, CallType
  <1> DEFINE New(k, own, m, carry) == Call(k, c.op, c.dev, own, c.peer, m, carry)
  <1>1. ASSUME NEW k \in CallKinds, NEW own \in Users, NEW m \in Msg \cup {None},
               NEW carry \in SUBSET Msg
        PROVE  New(k, own, m, carry) \in CallType
    BY <1>0, CallIsTyped DEF CallType
  <1>2. CASE c.kind = "getAccept"
    <2>1. LET n == New("delDoc", cur[c.dev], None, LettersOf(c.own, c.peer))
          IN  n \in CallType /\ Follows(c, n)
      BY <1>0, <1>1, <1>2 DEF Follows, CallKinds, Call
    <2> QED
      BY <1>2, <2>1
  <1>3. CASE c.kind = "delDoc"
    <2>1. LET n == New("getDelete", cur[c.dev], None, c.carry)
          IN  n \in CallType /\ Follows(c, n)
      BY <1>0, <1>1, <1>3 DEF Follows, CallKinds, Call, CallType
    <2> QED
      BY <1>3, <2>1
  <1>4. CASE c.kind = "getDelete"
    <2>1. ASSUME NEW m \in LettersOf(c.own, c.peer)
          PROVE  LET n == New("delMsg", c.own, m, c.carry)
                 IN  n \in CallType /\ Follows(c, n) /\ n.msg = m
      BY <1>0, <1>1, <1>4 DEF Follows, CallKinds, Call, CallType
    <2> QED
      BY <1>4, <2>1
  <1>5. CASE c.kind = "delMsg" /\ op[c.op].kind = "accept"
    <2>1. LET n == New("setActive", cur[c.dev], c.msg, c.carry)
          IN  n \in CallType /\ Follows(c, n)
      BY <1>0, <1>1, <1>5 DEF Follows, CallKinds, Call, CallType
    <2> QED
      BY <1>5, <2>1
  <1>6. CASE c.kind = "setActive"
    <2>1. ASSUME NEW m \in c.carry
          PROVE  LET n == New("addActive", c.own, c.msg, {m})
                 IN  n \in CallType /\ Follows(c, n) /\ m \in n.carry
      BY <1>0, <1>1, <1>6 DEF Follows, CallKinds, Call, CallType
    <2> QED
      BY <1>6, <2>1
  <1> QED
    BY <1>2, <1>3, <1>4, <1>5, <1>6

(* A call of an operation without a failure is live; an acceptance hands   *)
(* on what it has read, all of it until the chat exists and one message to *)
(* each call after that.                                                   *)
CallHonest(c) ==
  /\ ~op[c.op].faulty => c.live
  /\ op[c.op].dev = c.dev
  /\ c.kind = "getAccept" => op[c.op].kind = "accept"
  /\ op[c.op].kind = "accept" /\ c.kind \in {"delDoc", "getDelete", "delMsg", "setActive"}
       => c.carry = op[c.op].snap
  /\ c.kind = "addActive" => \E m \in Msg : c.carry = {m}

(* What an acceptance has read are messages of the friend it is about to   *)
(* an account of its device.                                               *)
SnapsSigned ==
  \A o \in Ops : \A m \in op[o].snap :
    /\ m.from = op[o].peer
    /\ \E d \in Devices : op[o].dev = d /\ m.to \in everOn[d]

HonestInv == (\A c \in calls : CallHonest(c)) /\ SnapsSigned

LEMMA InitHonestInv == Init => HonestInv
  BY DEF Init, HonestInv, SnapsSigned, NoOp

LEMMA StartedHonestInv ==
  ASSUME TypeInv, TrackInv, HonestInv, NEW d \in Devices, NEW kind \in OpKinds,
         NEW me \in Users, NEW peer \in Users, NEW first \in CallType,
         Started(d, kind, me, peer, first)
  PROVE  HonestInv'
  <1>0. nops + 1 \in Ops /\ nops \in Nat /\ first.op = nops + 1
    BY DEF Started, Opens, Call, TypeInv, TypeOK
  <1>1. CallHonest(first)'
    BY <1>0 DEF Started, Opens, Call, CallHonest
  <1>2. ASSUME NEW c \in calls PROVE CallHonest(c)'
    <2>1. c.op \in Ops /\ c.op # nops + 1
      BY <1>0 DEF TrackInv, CallTracked, TypeInv, TypeOK, CallType
    <2> QED
      BY <2>1 DEF Started, HonestInv, CallHonest
  <1>3. SnapsSigned'
    BY <1>0 DEF Started, HonestInv, SnapsSigned, session
  <1> QED
    BY <1>1, <1>2, <1>3 DEF Started, HonestInv

LEMMA ServedHonestInv ==
  ASSUME TypeInv, MailInv, ConsentInv, TrackInv, HonestInv, NEW c \in calls, Served(c)
  PROVE  HonestInv'
  <1>0. c \in CallType /\ c.op \in Ops /\ c.dev \in Devices /\ CallHonest(c)
    BY DEF TypeInv, TypeOK, CallType, HonestInv
  <1>1. ASSUME NEW b \in calls, b # c PROVE CallHonest(b)'
    <2>1. b.op \in Ops /\ CallHonest(b)
      BY DEF TypeInv, TypeOK, CallType, HonestInv
    <2>2. c.kind = "getAccept" => b.op # c.op
      BY <1>1 DEF TrackInv, OneAtATime, Fanned
    <2> QED
      BY <1>0, <2>1, <2>2 DEF Served, Records, OpsStay, CallHonest
  <1>2. ASSUME NEW n \in CallType, Follows(c, n) PROVE CallHonest(n)'
    <2>1. c.carry \subseteq Msg
      BY <1>0 DEF CallType
    <2>2. n.op = c.op /\ n.dev = c.dev /\ n.live /\ n.kind # "getAccept"
      BY <1>2 DEF Follows
    <2>3. n.kind = "addActive" => \E m \in Msg : n.carry = {m}
      BY <1>2, <2>1 DEF Follows
    <2>4. ASSUME op[c.op].kind = "accept",
                 n.kind \in {"delDoc", "getDelete", "delMsg", "setActive"}
          PROVE  n.carry = op'[c.op].snap
      BY <1>0, <1>2, <2>4 DEF Served, Records, Follows, CallHonest
    <2> QED
      BY <1>0, <2>2, <2>3, <2>4 DEF Served, OpsStay, CallHonest
  <1>3. SnapsSigned'
    <2> SUFFICES ASSUME NEW o \in Ops, NEW m \in op'[o].snap
                 PROVE  /\ m.from = op[o].peer
                        /\ \E d \in Devices : op[o].dev = d /\ m.to \in everOn[d]
      BY DEF Served, OpsStay, SnapsSigned, device
    <2>1. CASE m \in op[o].snap
      BY <2>1 DEF HonestInv, SnapsSigned
    <2>2. CASE c.op = o /\ c.kind = "getAccept" /\ m \in LettersOf(c.own, c.peer)
      <3>1. m.from = c.peer /\ m.to = c.own
        BY <2>2 DEF LettersOf, MailInv, LettersSigned
      <3>2. op[o].peer = c.peer /\ c.own \in everOn[c.dev]
        BY <2>2 DEF ConsentInv, CallsFollow, CallFollows, DecisionCalls
      <3> QED
        BY <1>0, <2>2, <3>1, <3>2 DEF CallHonest
    <2> QED
      BY <2>1, <2>2 DEF Served, Records
  <1> QED
    BY <1>1, <1>2, <1>3 DEF Served, HonestInv

LEMMA TroubledHonestInv ==
  ASSUME TypeInv, Grows, HonestInv, Troubled
  PROVE  HonestInv'
  <1>1. PICK mark \in [calls -> CallType] :
          /\ \A c \in calls : Marked(c, mark[c])
          /\ calls' \subseteq {mark[c] : c \in calls}
    BY DEF Troubled
  <1>2. ASSUME NEW n \in calls' PROVE CallHonest(n)'
    <2>1. PICK c \in calls : n = mark[c] /\ Marked(c, n)
      BY <1>1
    <2>2. c.op \in Ops /\ CallHonest(c)
      BY DEF TypeInv, TypeOK, CallType, HonestInv
    <2>3. ASSUME ~op'[n.op].faulty PROVE n.live
      <3>1. n \in calls /\ ~op[n.op].faulty
        BY <2>1, <2>2, <2>3 DEF Troubled, Marked
      <3> QED
        BY <3>1 DEF HonestInv, CallHonest
    <2> QED
      BY <2>1, <2>2, <2>3 DEF Troubled, OpsStay, Marked, CallHonest
  <1>3. SnapsSigned'
    BY DEF Troubled, OpsStay, Grows, HonestInv, SnapsSigned
  <1> QED
    BY <1>2, <1>3 DEF HonestInv

LEMMA StepHonestInv ==
  TypeInv /\ MailInv /\ ConsentInv /\ TrackInv /\ HonestInv /\ [Next]_vars => HonestInv'
  <1> SUFFICES ASSUME TypeInv, MailInv, ConsentInv, TrackInv, HonestInv, [Next]_vars
               PROVE  HonestInv'
    OBVIOUS
  <1>1. Grows
    BY NextGrows
  <1>2. ASSUME NEW d \in Devices, Looks(d) PROVE HonestInv'
    BY <1>2 DEF Looks, session, HonestInv, CallHonest, SnapsSigned
  <1> QED
    BY <1>1, <1>2, StepShapes, StartedHonestInv, ServedHonestInv, TroubledHonestInv

LEMMA HonestInvariant == Spec => []HonestInv
  BY InitHonestInv, StepHonestInv, TypeInvariant, MailInvariant, ConsentInvariant,
     TrackInvariant, PTL DEF Spec

(* A message of an acceptance waits, is in a log, or is held by a call of  *)
(* the acceptance that will log it.                                        *)
Kept(o, m) ==
  \/ \E l \in letters : l.msg = m
  \/ \E e \in log : e.msg = m
  \/ \E c \in calls : /\ c.op = o /\ c.kind \in {"setActive", "addActive"}
                      /\ m \in c.carry

HeldInv ==
  \A o \in Ops :
    op[o].kind = "accept" /\ ~op[o].faulty /\ ~Rival(o)
      => \A m \in op[o].snap : Kept(o, m)

(* A rival stays one.                                                      *)
LEMMA RivalStable ==
  ASSUME TypeInv, Unstarted, Grows, OpsKept, NEW o \in Ops, op[o].kind # "none", Rival(o)
  PROVE  Rival(o)'
  <1>1. PICK p \in Ops \ {o} :
          /\ op[p].kind \in Decisions /\ op[p].peer = op[o].peer
          /\ \E d, e \in Devices : /\ op[o].dev = d /\ op[p].dev = e
                                  /\ everOn[d] \cap everOn[e] # {}
    BY DEF Rival
  <1>2. nops \in Nat /\ o \in 1 .. nops /\ p \in 1 .. nops
    BY <1>1 DEF Unstarted, TypeInv, TypeOK, Ops, Decisions
  <1>3. PICK d \in Devices, e \in Devices :
          op[o].dev = d /\ op[p].dev = e /\ everOn[d] \cap everOn[e] # {}
    BY <1>1
  <1>4. everOn'[d] \cap everOn'[e] # {}
    BY <1>3 DEF Grows
  <1>5. /\ op'[p].kind \in Decisions /\ op'[p].peer = op'[o].peer
        /\ op'[o].dev = d /\ op'[p].dev = e
    BY <1>1, <1>2, <1>3 DEF OpsKept
  <1> QED
    BY <1>4, <1>5 DEF Rival

(* A step in which no call is carried out takes nothing from an operation  *)
(* without a failure.                                                      *)
LEMMA IdleHeldInv ==
  ASSUME TypeInv, Unstarted, Grows, OpsKept, HeldInv, UNCHANGED store,
         \A o \in Ops : \/ op'[o].snap = {}
                        \/ /\ op'[o].kind = op[o].kind /\ op'[o].snap = op[o].snap
                           /\ op[o].faulty => op'[o].faulty,
         \A c \in calls : ~op'[c.op].faulty => c \in calls'
  PROVE  HeldInv'
  <1> SUFFICES ASSUME NEW o \in Ops, op'[o].kind = "accept", ~op'[o].faulty, ~Rival(o)',
                      NEW m \in op'[o].snap
               PROVE  Kept(o, m)'
    BY DEF HeldInv
  <1>1. op[o].kind = "accept" /\ ~op[o].faulty /\ m \in op[o].snap
    OBVIOUS
  <1>2. Kept(o, m)
    BY <1>1, RivalStable DEF HeldInv
  <1> QED
    BY <1>2 DEF Kept, store

LEMMA ServedHeldInv ==
  ASSUME TypeInv, MailInv, ConsentInv, TrackInv, HonestInv, Grows, OpsKept, HeldInv,
         NEW c \in calls, Served(c)
  PROVE  HeldInv'
  <1>0. /\ c \in CallType /\ c.op \in Ops /\ c.dev \in Devices
        /\ CallHonest(c) /\ CallFollows(c)
    BY DEF TypeInv, TypeOK, CallType, HonestInv, ConsentInv, CallsFollow
  <1> SUFFICES ASSUME NEW o \in Ops, op'[o].kind = "accept", ~op'[o].faulty, ~Rival(o)',
                      NEW m \in op'[o].snap
               PROVE  Kept(o, m)'
    BY DEF HeldInv
  <1>1. op[o].kind = "accept" /\ ~op[o].faulty /\ ~Rival(o)
    BY RivalStable DEF Served, OpsStay, Records, TrackInv
  <1>2. CASE c.kind = "getAccept" /\ c.op = o
    <2>1. m \in LettersOf(c.own, c.peer) /\ letters' = letters
      BY <1>2 DEF Served, Records, Writes
    <2> QED
      BY <2>1 DEF LettersOf, Kept
  <1>3. CASE ~(c.kind = "getAccept" /\ c.op = o)
    <2>0. m \in op[o].snap
      BY <1>3 DEF Served, Records
    <2>1. Kept(o, m)
      BY <1>1, <2>0 DEF HeldInv
    <2>2. ASSUME NEW e \in log, e.msg = m PROVE Kept(o, m)'
      BY <2>2 DEF Served, Writes, Kept
    <2>3. ASSUME NEW l \in letters, l.msg = m PROVE Kept(o, m)'
      <3>1. CASE l \in letters'
        BY <2>3, <3>1 DEF Kept
      <3>2. CASE l \notin letters'
        <4>1. c.kind = "delMsg" /\ l.own = c.own /\ l.peer = c.peer
          BY <3>2 DEF Served, Writes
        <4>2. CASE c.op = o
          <5>1. c.live /\ m \in c.carry
            BY <1>0, <1>1, <2>0, <4>1, <4>2 DEF CallHonest
          <5>2. PICK n \in CallType : Follows(c, n)
            BY <1>1, <4>1, <4>2, <5>1, Issues
          <5>3. n \in calls' /\ n.op = o /\ n.kind = "setActive" /\ m \in n.carry
            BY <4>1, <4>2, <5>1, <5>2 DEF Follows, Served
          <5> QED
            BY <5>3 DEF Kept
        <4>3. CASE c.op # o
          <5>1. op[c.op].kind \in Decisions /\ op[c.op].peer = c.peer /\ op[c.op].dev = c.dev
            BY <1>0, <4>1 DEF CallFollows, CallHonest, DecisionCalls
          <5>2. m.from = c.peer /\ m.to = c.own /\ c.own \in everOn[c.dev]
            BY <1>0, <2>3, <4>1 DEF MailInv, LettersSigned, CallFollows, DecisionCalls
          <5>3. /\ m.from = op[o].peer
                /\ \E d \in Devices : op[o].dev = d /\ m.to \in everOn[d]
            BY <2>0 DEF HonestInv, SnapsSigned
          <5>4. Rival(o)
            BY <1>0, <4>3, <5>1, <5>2, <5>3 DEF Rival
          <5> QED
            BY <1>1, <5>4
        <4> QED
          BY <4>2, <4>3
      <3> QED
        BY <3>1, <3>2
    <2>4. ASSUME NEW b \in calls, b.op = o, b.kind \in {"setActive", "addActive"},
                 m \in b.carry
          PROVE  Kept(o, m)'
      <3>1. CASE b # c
        BY <2>4, <3>1 DEF Served, Kept
      <3>2. CASE b = c /\ c.kind = "setActive"
        <4>1. PICK n \in CallType : Follows(c, n) /\ m \in n.carry
          BY <1>0, <1>1, <2>4, <3>2, Issues DEF CallHonest
        <4>2. n \in calls' /\ n.op = o /\ n.kind = "addActive"
          BY <2>4, <3>2, <4>1 DEF Follows, Served
        <4> QED
          BY <4>1, <4>2 DEF Kept
      <3>3. CASE b = c /\ c.kind = "addActive"
        <4>1. PICK e \in Entry : Enters(c, e) /\ log' = log \cup {e}
          BY <3>3 DEF Served, Writes
        <4>2. e.msg = m
          BY <1>0, <2>4, <3>3, <4>1 DEF Enters, CallHonest
        <4> QED
          BY <4>1, <4>2 DEF Kept
      <3> QED
        BY <2>4, <3>1, <3>2, <3>3
    <2> QED
      BY <2>1, <2>2, <2>3, <2>4 DEF Kept
  <1> QED
    BY <1>2, <1>3

LEMMA StepHeldInv ==
  /\ TypeInv /\ MailInv /\ ConsentInv /\ TrackInv /\ HonestInv /\ HeldInv
  /\ [Next]_vars
  => HeldInv'
  <1> SUFFICES ASSUME TypeInv, MailInv, ConsentInv, TrackInv, HonestInv, HeldInv,
                      [Next]_vars
               PROVE  HeldInv'
    OBVIOUS
  <1>0. Grows /\ OpsKept /\ Unstarted
    BY NextGrows, StepKeepsOps DEF TrackInv
  <1>1. ASSUME NEW d \in Devices, Looks(d) PROVE HeldInv'
    BY <1>0, <1>1, IdleHeldInv DEF Looks
  <1>2. ASSUME NEW d \in Devices, NEW kind \in OpKinds, NEW me \in Users,
               NEW peer \in Users, NEW first \in CallType,
               Started(d, kind, me, peer, first)
        PROVE  HeldInv'
    BY <1>0, <1>2, IdleHeldInv DEF Started
  <1>3. CASE Troubled
    <2>1. \A c \in calls : ~op'[c.op].faulty => c \in calls'
      BY <1>3 DEF Troubled, HonestInv, CallHonest, TypeInv, TypeOK, CallType
    <2> QED
      BY <1>0, <1>3, <2>1, IdleHeldInv DEF Troubled, OpsStay
  <1> QED
    BY <1>0, <1>1, <1>2, <1>3, StepShapes, ServedHeldInv

(* An acceptance deletes the request before it writes the chat, and loses  *)
(* no message on the way: what changeToActive has read is waiting, held by *)
(* the app or in a log, as long as no call of the acceptance fails and no  *)
(* other decision about the same sender runs on a device that shares an    *)
(* account with it.                                                        *)
THEOREM AcceptLosesNothingTheorem == Spec => []AcceptLosesNothing
  <1>1. Init => HeldInv
    BY DEF Init, HeldInv, NoOp
  <1>2. TypeInv /\ HonestInv /\ HeldInv => AcceptLosesNothing
    BY DEF HonestInv, CallHonest, HeldInv, Kept, Held, AcceptLosesNothing
  <1> QED
    BY <1>1, <1>2, StepHeldInv, TypeInvariant, MailInvariant, ConsentInvariant,
       TrackInvariant, HonestInvariant, PTL DEF Spec

-----------------------------------------------------------------------------
(* A decision that ends has removed what was waiting.                      *)

(* A message that is still to be added to the waiting ones was not there   *)
(* when any button was tapped.                                             *)
AskedInv ==
  /\ \A o \in Ops : \A m \in op[o].start : m.n \in 1 .. nops
  /\ \A c \in calls : c.kind \in AskingCalls =>
       /\ \A l \in letters : l.msg # c.msg
       /\ \A o \in Ops : c.msg \notin op[o].start

(* The call of decision o that is to delete message m, or that will lead   *)
(* to its deletion.                                                        *)
Clearing(o, m) ==
  \E c \in calls : /\ c.op = o
                   /\ \/ c.kind \in {"getAccept", "delDoc", "getDelete"}
                      \/ c.kind = "delMsg" /\ c.msg = m

ClearInv ==
  \A o \in Ops :
    op[o].kind \in Decisions /\ ~op[o].faulty /\ ~Switched(o)
      => \A m \in op[o].start \cap LettersOf(op[o].me, op[o].peer) : Clearing(o, m)

LEMMA InitAskedInv == Init => AskedInv
  BY DEF Init, AskedInv, NoOp

LEMMA StartedAskedInv ==
  ASSUME TypeInv, TrackInv, AskedInv, NEW d \in Devices, NEW kind \in OpKinds,
         NEW me \in Users, NEW peer \in Users, NEW first \in CallType,
         Started(d, kind, me, peer, first)
  PROVE  AskedInv'
  <1>0. /\ nops + 1 \in Ops /\ nops \in Nat /\ nops' = nops + 1
        /\ letters' = letters /\ calls' = calls \cup {first}
        /\ op'[nops + 1].start = LettersOf(me, peer)
        /\ \A o \in Ops \ {nops + 1} : op'[o] = op[o]
    BY DEF Started, TypeInv, TypeOK, store
  <1>1. \A l \in letters : l.msg.n \in 1 .. nops
    BY DEF TrackInv, IsMessageOf
  <1>2. first.kind \in AskingCalls => first.msg.n = nops + 1
    BY DEF Started, Opens, Call, NewMsg, AskingCalls
  <1>3. \A m \in LettersOf(me, peer) : \E l \in letters : l.msg = m
    BY DEF LettersOf
  <1>4. \A o \in Ops : \A m \in op'[o].start : m.n \in 1 .. nops
    BY <1>0, <1>1, <1>3 DEF AskedInv
  <1>5. ASSUME NEW c \in calls, c.kind \in AskingCalls
        PROVE  \A l \in letters : l.msg # c.msg
    BY <1>5 DEF AskedInv
  <1>6. ASSUME NEW c \in calls, c.kind \in AskingCalls, NEW o \in Ops
        PROVE  c.msg \notin op'[o].start
    BY <1>0, <1>3, <1>6 DEF AskedInv
  <1>7. ASSUME first.kind \in AskingCalls
        PROVE  /\ \A l \in letters : l.msg # first.msg
               /\ \A o \in Ops : first.msg \notin op'[o].start
    BY <1>0, <1>1, <1>2, <1>4, <1>7
  <1>8. \A o \in Ops : \A m \in op'[o].start : m.n \in 1 .. nops'
    BY <1>0, <1>4
  <1> QED
    BY <1>0, <1>5, <1>6, <1>7, <1>8 DEF AskedInv

LEMMA ServedAskedInv ==
  ASSUME TypeInv, TrackInv, AskedInv, NEW c \in calls, Served(c)
  PROVE  AskedInv'
  <1>0. CallTracked(c) /\ nops' = nops /\ \A o \in Ops : op'[o].start = op[o].start
    BY DEF TrackInv, Served, OpsStay
  <1>1. ASSUME NEW l \in letters', l \notin letters
        PROVE  c.kind = "addWaiting" /\ l.msg = c.msg
    BY <1>1 DEF Served, Writes
  <1>2. ASSUME NEW n \in calls', n.kind \in AskingCalls
        PROVE  \/ n \in calls /\ n # c
               \/ c.kind = "setWaiting" /\ n.msg = c.msg
    BY <1>2 DEF Served, Follows, AskingCalls
  <1>3. ASSUME NEW b \in calls, b # c, b.kind \in AskingCalls, c.kind \in AskingCalls
        PROVE  b.msg # c.msg
    <2>1. b.op # c.op
      BY <1>3 DEF TrackInv, OneAtATime, AskingCalls, Fanned
    <2> QED
      BY <1>3, <2>1 DEF TrackInv, CallTracked
  <1>4. ASSUME NEW n \in calls', n.kind \in AskingCalls
        PROVE  /\ \A l \in letters' : l.msg # n.msg
               /\ \A o \in Ops : n.msg \notin op[o].start
    <2>1. CASE n \in calls /\ n # c
      BY <1>1, <1>3, <1>4, <2>1 DEF AskedInv, AskingCalls
    <2>2. CASE c.kind = "setWaiting" /\ n.msg = c.msg
      BY <1>1, <2>2 DEF AskedInv, AskingCalls
    <2> QED
      BY <1>2, <1>4, <2>1, <2>2
  <1> QED
    BY <1>0, <1>4 DEF AskedInv

LEMMA StepAskedInv == TypeInv /\ TrackInv /\ AskedInv /\ [Next]_vars => AskedInv'
  <1> SUFFICES ASSUME TypeInv, TrackInv, AskedInv, [Next]_vars PROVE AskedInv'
    OBVIOUS
  <1>1. ASSUME NEW d \in Devices, Looks(d) PROVE AskedInv'
    BY <1>1 DEF Looks, store, AskedInv
  <1>2. CASE Troubled
    <2>1. PICK mark \in [calls -> CallType] :
            /\ \A c \in calls : Marked(c, mark[c])
            /\ calls' \subseteq {mark[c] : c \in calls}
      BY <1>2 DEF Troubled
    <2>2. \A n \in calls' : \E c \in calls : n.kind = c.kind /\ n.msg = c.msg
      BY <2>1 DEF Marked
    <2> QED
      BY <1>2, <2>2 DEF Troubled, OpsStay, store, AskedInv
  <1> QED
    BY <1>1, <1>2, StepShapes, StartedAskedInv, ServedAskedInv

(* An operation whose device has had one account has had it all along.     *)
LEMMA SwitchedStable ==
  ASSUME TypeInv, Grows, OpsKept, NEW o \in 1 .. nops, Switched(o)
  PROVE  Switched(o)'
  BY DEF Grows, OpsKept, Switched

LEMMA IdleClearInv ==
  ASSUME TypeInv, Unstarted, Grows, OpsKept, ClearInv, letters' = letters,
         \A o \in 1 .. nops : op[o].faulty => op'[o].faulty,
         \A c \in calls : ~op'[c.op].faulty => c \in calls',
         NEW o \in 1 .. nops, o \in Ops, op'[o].kind \in Decisions, ~op'[o].faulty,
         ~Switched(o)',
         NEW m \in op'[o].start \cap LettersOf(op[o].me, op[o].peer)'
  PROVE  Clearing(o, m)'
  <1>1. op[o].kind \in Decisions /\ ~op[o].faulty /\ ~Switched(o)
    BY SwitchedStable DEF OpsKept
  <1>2. m \in op[o].start \cap LettersOf(op[o].me, op[o].peer)
    BY DEF OpsKept, LettersOf
  <1> QED
    BY <1>1, <1>2 DEF ClearInv, Clearing

LEMMA ServedClearInv ==
  ASSUME TypeInv, ConsentInv, TrackInv, HonestInv, AskedInv, Grows, OpsKept, ClearInv,
         NEW c \in calls, Served(c)
  PROVE  ClearInv'
  <1>0. /\ c \in CallType /\ c.op \in Ops /\ c.dev \in Devices
        /\ CallHonest(c) /\ CallFollows(c)
        /\ nops \in Nat
    BY DEF TypeInv, TypeOK, CallType, HonestInv, ConsentInv, CallsFollow
  <1> SUFFICES ASSUME NEW o \in Ops, op'[o].kind \in Decisions, ~op'[o].faulty, ~Switched(o)',
                      NEW m \in op'[o].start, m \in LettersOf(op[o].me, op[o].peer)'
               PROVE  Clearing(o, m)'
    BY DEF ClearInv
  <1>1. /\ op[o].kind \in Decisions /\ ~op[o].faulty /\ m \in op[o].start
        /\ op'[o].me = op[o].me /\ op'[o].peer = op[o].peer
    BY DEF Served, OpsStay, Records
  <1>2. o \in 1 .. nops
    BY <1>0, <1>1 DEF TrackInv, Unstarted, Ops, Decisions
  <1>3. ~Switched(o)
    BY <1>2, SwitchedStable
  <1> DEFINE l == [own |-> op[o].me, peer |-> op[o].peer, msg |-> m]
  <1>4. m \in Msg /\ l \in letters'
    BY <1>1 DEF LettersOf
  <1>5. l \in letters
    <2>1. c.kind = "addWaiting" => c.msg # m
      BY <1>1 DEF AskedInv, AskingCalls
    <2> QED
      BY <1>4, <2>1 DEF Served, Writes
  <1>6. m \in LettersOf(op[o].me, op[o].peer)
    BY <1>4, <1>5 DEF LettersOf
  <1>7. PICK b \in calls : /\ b.op = o
                           /\ \/ b.kind \in {"getAccept", "delDoc", "getDelete"}
                              \/ b.kind = "delMsg" /\ b.msg = m
    BY <1>1, <1>3, <1>6 DEF ClearInv, Clearing
  <1>8. CASE b # c
    BY <1>7, <1>8 DEF Served, Clearing
  <1>9. CASE b = c
    <2>1. c.live
      BY <1>0, <1>1, <1>7, <1>9 DEF CallHonest
    <2>2. c.own = op[o].me /\ c.peer = op[o].peer
      <3>1. /\ c.own \in everOn[c.dev] /\ op[o].me \in everOn[c.dev]
            /\ c.peer = op[o].peer /\ op[o].dev = c.dev
        BY <1>0, <1>7, <1>9 DEF CallFollows, CallHonest, DecisionCalls
      <3> QED
        BY <1>0, <1>3, <3>1 DEF Switched
    <2>3. CASE c.kind \in {"getAccept", "delDoc"}
      <3>1. PICK n \in CallType : Follows(c, n)
        BY <2>1, <2>3, Issues
      <3>2. n \in calls' /\ n.op = o /\ n.kind \in {"delDoc", "getDelete"}
        BY <1>7, <1>9, <2>3, <3>1 DEF Served, Follows
      <3> QED
        BY <3>2 DEF Clearing
    <2>4. CASE c.kind = "getDelete"
      <3>1. PICK n \in CallType : Follows(c, n) /\ n.msg = m
        BY <1>6, <2>1, <2>2, <2>4, Issues
      <3>2. n \in calls' /\ n.op = o /\ n.kind = "delMsg"
        BY <1>7, <1>9, <2>4, <3>1 DEF Served, Follows
      <3> QED
        BY <3>1, <3>2 DEF Clearing
    <2>5. CASE c.kind = "delMsg" /\ c.msg = m
      BY <1>4, <2>2, <2>5 DEF Served, Writes
    <2> QED
      BY <1>7, <1>9, <2>3, <2>4, <2>5
  <1> QED
    BY <1>8, <1>9

LEMMA StepClearInv ==
  /\ TypeInv /\ ConsentInv /\ TrackInv /\ HonestInv /\ AskedInv /\ ClearInv
  /\ [Next]_vars
  => ClearInv'
  <1> SUFFICES ASSUME TypeInv, ConsentInv, TrackInv, HonestInv, AskedInv, ClearInv,
                      [Next]_vars
               PROVE  ClearInv'
    OBVIOUS
  <1>0. Grows /\ OpsKept /\ Unstarted /\ nops \in Nat /\ 1 .. nops \subseteq Ops
    BY NextGrows, StepKeepsOps, ConstantsAssumption DEF TrackInv, TypeInv, TypeOK, Ops
  <1>1. ASSUME NEW d \in Devices, Looks(d) PROVE ClearInv'
    BY <1>1 DEF Looks, session, store, ClearInv, Clearing, Switched, LettersOf
  <1>2. ASSUME NEW d \in Devices, NEW kind \in OpKinds, NEW me \in Users,
               NEW peer \in Users, NEW first \in CallType,
               Started(d, kind, me, peer, first)
        PROVE  ClearInv'
    <2> SUFFICES ASSUME NEW o \in Ops, op'[o].kind \in Decisions, ~op'[o].faulty, ~Switched(o)',
                        NEW m \in op'[o].start \cap LettersOf(op[o].me, op[o].peer)'
                 PROVE  Clearing(o, m)'
      BY DEF ClearInv
    <2>1. CASE o = nops + 1
      <3>1. /\ first \in calls' /\ first.op = o
            /\ first.kind \in {"getAccept", "delDoc", "getDelete"}
        BY <1>2, <2>1 DEF Started, Opens, Call, Decisions
      <3> QED
        BY <3>1 DEF Clearing
    <2>2. CASE o # nops + 1
      <3>1. op'[o] = op[o]
        BY <1>2, <2>2 DEF Started
      <3>2. o \in 1 .. nops
        BY <1>0, <3>1 DEF Unstarted, Decisions, Ops
      <3>3. \A p \in 1 .. nops : op[p].faulty => op'[p].faulty
        BY <1>0, <1>2 DEF Started
      <3> QED
        BY <1>0, <1>2, <3>2, <3>3, IdleClearInv DEF Started, store
    <2> QED
      BY <2>1, <2>2
  <1>3. CASE Troubled
    <2> SUFFICES ASSUME NEW o \in Ops, op'[o].kind \in Decisions, ~op'[o].faulty, ~Switched(o)',
                        NEW m \in op'[o].start \cap LettersOf(op[o].me, op[o].peer)'
                 PROVE  Clearing(o, m)'
      BY DEF ClearInv
    <2>1. \A c \in calls : ~op'[c.op].faulty => c \in calls'
      BY <1>3 DEF Troubled, HonestInv, CallHonest, TypeInv, TypeOK, CallType
    <2>2. o \in 1 .. nops
      BY <1>0, <1>3 DEF Troubled, OpsStay, Unstarted, Decisions, Ops
    <2>3. \A p \in 1 .. nops : op[p].faulty => op'[p].faulty
      BY <1>0, <1>3 DEF Troubled
    <2> QED
      BY <1>0, <1>3, <2>1, <2>2, <2>3, IdleClearInv DEF Troubled, store
  <1> QED
    BY <1>0, <1>1, <1>2, <1>3, StepShapes, ServedClearInv

(* deleteWaitingChat deletes every message that was waiting when its       *)
(* button was tapped before it is through: a decision that has no call     *)
(* outstanding, none of whose calls failed and whose device kept its       *)
(* account, leaves none of them.                                           *)
THEOREM DecisionClearsTheorem == Spec => []DecisionClears
  <1>1. Init => ClearInv
    BY DEF Init, ClearInv, NoOp, Decisions
  <1>2. ClearInv => DecisionClears
    BY DEF ClearInv, Clearing, CallsOf, DecisionClears
  <1> QED
    BY <1>1, <1>2, InitAskedInv, StepAskedInv, StepClearInv, TypeInvariant,
       ConsentInvariant, TrackInvariant, HonestInvariant, PTL DEF Spec

-----------------------------------------------------------------------------
(* Success is never reported early.                                        *)

(* While nobody has signed in or out, a device knows one account.          *)
StayInv == switches = 0 => \A d \in Devices : everOn[d] = {Home[d]}

(* A message document is added below a chat that exists.                   *)
FoundInv ==
  \A c \in calls :
    /\ c.kind \in {"addActive", "addFriend"} => <<c.own, c.peer>> \in chats
    /\ c.kind = "addMine" => <<c.peer, c.own>> \in chats

(* What "success" of a request, an acceptance and a message says.          *)
AskedFor(o) ==
  \/ \E m \in LettersOf(op[o].peer, op[o].me) : m.n = o
  \/ \E p \in Ops : /\ op[p].kind \in Decisions
                    /\ op[p].peer = op[o].me
                    /\ op[p].me = op[o].peer

Opened(o) == \E e \in log : e.op = o /\ <<e.own, e.peer>> \in chats

Delivered(o) ==
  /\ <<op[o].peer, op[o].me>> \in chats
  /\ \A pair \in {<<op[o].me, op[o].peer>>, <<op[o].peer, op[o].me>>} :
       \E e \in log : e.msg.n = o /\ <<e.own, e.peer>> = pair

Successful(o) ==
  /\ op[o].kind = "request" => AskedFor(o)
  /\ op[o].kind = "accept" => Opened(o)
  /\ op[o].kind = "send" => Delivered(o)

SuccessInv == switches = 0 => \A o \in Ops : op[o].ok > 0 => Successful(o)

LEMMA StepStayInv == TypeInv /\ StayInv /\ [Next]_vars => StayInv'
  <1> SUFFICES ASSUME TypeInv, StayInv, [Next]_vars PROVE StayInv'
    OBVIOUS
  <1>1. switches' = switches + 1 \/ UNCHANGED <<switches, everOn>>
    BY StepShapes DEF Looks, Started, Served, Troubled, session, device, budget
  <1> QED
    BY <1>1 DEF TypeInv, TypeOK, StayInv

LEMMA StepFoundInv == TypeInv /\ FoundInv /\ [Next]_vars => FoundInv'
  <1> SUFFICES ASSUME TypeInv, FoundInv, [Next]_vars PROVE FoundInv'
    OBVIOUS
  <1>1. ASSUME NEW d \in Devices, Looks(d) PROVE FoundInv'
    BY <1>1 DEF Looks, store, FoundInv
  <1>2. ASSUME NEW d \in Devices, NEW kind \in OpKinds, NEW me \in Users,
               NEW peer \in Users, NEW first \in CallType,
               Started(d, kind, me, peer, first)
        PROVE  FoundInv'
    <2>1. first.kind \notin {"addActive", "addFriend", "addMine"}
      BY <1>2 DEF Started, Opens, Call
    <2> QED
      BY <1>2, <2>1 DEF Started, store, FoundInv
  <1>3. ASSUME NEW c \in calls, Served(c) PROVE FoundInv'
    <2>1. chats \subseteq chats'
      BY <1>3 DEF Served, Writes
    <2>2. ASSUME NEW n \in CallType, Follows(c, n)
          PROVE  /\ n.kind \in {"addActive", "addFriend"} => <<n.own, n.peer>> \in chats'
                 /\ n.kind = "addMine" => <<n.peer, n.own>> \in chats'
      BY <1>3, <2>2 DEF Served, Writes, Follows, FoundInv
    <2> QED
      BY <1>3, <2>1, <2>2 DEF Served, FoundInv
  <1>4. CASE Troubled
    <2>1. PICK mark \in [calls -> CallType] :
            /\ \A c \in calls : Marked(c, mark[c])
            /\ calls' \subseteq {mark[c] : c \in calls}
      BY <1>4 DEF Troubled
    <2>2. \A n \in calls' : \E c \in calls : /\ n.kind = c.kind
                                             /\ n.own = c.own /\ n.peer = c.peer
      BY <2>1 DEF Marked
    <2> QED
      BY <1>4, <2>2 DEF Troubled, store, FoundInv
  <1> QED
    BY <1>1, <1>2, <1>3, <1>4, StepShapes

(* Nothing takes the reason for a success away, while a decision is made   *)
(* in the name of the account it is made on.                               *)
LEMMA ServedSuccessful ==
  ASSUME TypeInv, MailInv, ConsentInv, TrackInv, HonestInv, StayInv, switches = 0,
         NEW c \in calls, Served(c), NEW o \in Ops, Successful(o)
  PROVE  Successful(o)'
  <1>0. /\ c \in CallType /\ c.op \in Ops /\ c.dev \in Devices
        /\ CallFollows(c) /\ everOn[c.dev] = {Home[c.dev]}
    BY DEF TypeInv, TypeOK, CallType, ConsentInv, CallsFollow, StayInv
  <1>1. log \subseteq log' /\ chats \subseteq chats'
    BY DEF Served, Writes
  <1>2. \A p \in Ops : /\ op'[p].kind = op[p].kind /\ op'[p].me = op[p].me
                       /\ op'[p].peer = op[p].peer
    BY DEF Served, OpsStay
  <1>3. ASSUME AskedFor(o) PROVE AskedFor(o)'
    <2>1. CASE \E p \in Ops : /\ op[p].kind \in Decisions
                              /\ op[p].peer = op[o].me /\ op[p].me = op[o].peer
      BY <1>2, <2>1 DEF AskedFor
    <2>2. ASSUME NEW m \in LettersOf(op[o].peer, op[o].me), m.n = o PROVE AskedFor(o)'
      <3> DEFINE l == [own |-> op[o].peer, peer |-> op[o].me, msg |-> m]
      <3>1. m \in Msg /\ l \in letters
        BY DEF LettersOf
      <3>2. CASE l \in letters'
        <4>1. m \in LettersOf(op[o].peer, op[o].me)'
          BY <1>2, <3>1, <3>2 DEF LettersOf
        <4> QED
          BY <2>2, <4>1 DEF AskedFor
      <3>3. CASE l \notin letters'
        <4>1. c.kind = "delMsg" /\ c.own = op[o].peer /\ c.peer = op[o].me
          BY <3>1, <3>3 DEF Served, Writes
        <4>2. /\ op[c.op].kind \in Decisions /\ op[c.op].peer = c.peer
              /\ op[c.op].me = c.own
          BY <1>0, <4>1 DEF CallFollows, DecisionCalls
        <4> QED
          BY <1>0, <1>2, <4>1, <4>2 DEF AskedFor
      <3> QED
        BY <3>2, <3>3
    <2> QED
      BY <1>3, <2>1, <2>2 DEF AskedFor
  <1>4. ASSUME Opened(o) PROVE Opened(o)'
    BY <1>1, <1>4 DEF Opened
  <1>5. ASSUME Delivered(o) PROVE Delivered(o)'
    BY <1>1, <1>2, <1>5 DEF Delivered
  <1> QED
    BY <1>2, <1>3, <1>4, <1>5 DEF Successful

(* The handler that completes an operation has the reason at hand.         *)
LEMMA CompletesSuccessful ==
  ASSUME TypeInv, MailInv, ConsentInv, TrackInv, HonestInv, StayInv, FoundInv,
         switches = 0, NEW c \in calls, Served(c), op'[c.op].ok # op[c.op].ok
  PROVE  Successful(c.op)'
  <1>0. /\ c \in CallType /\ c.op \in Ops /\ c.dev \in Devices
        /\ CallFollows(c) /\ CallTracked(c) /\ CallSigned(c)
        /\ everOn[c.dev] = {Home[c.dev]}
        /\ c.kind \in {"addWaiting", "addMine"} => c.msg \in Msg
    BY DEF TypeInv, TypeOK, CallsNameMessages, Unaddressed, CallType, ConsentInv,
           CallsFollow, StayInv, TrackInv, MailInv
  <1>1. /\ op'[c.op].kind = op[c.op].kind /\ op'[c.op].me = op[c.op].me
        /\ op'[c.op].peer = op[c.op].peer
        /\ c.kind \in Completing /\ (c.kind = "delMsg" => op[c.op].kind = "deny")
    BY <1>0 DEF Served, OpsStay, Records
  <1>2. CASE c.kind = "addWaiting"
    <2>1. /\ op[c.op].kind = "request" /\ c.msg.n = c.op
          /\ c.own = op[c.op].peer /\ c.peer = op[c.op].me
      BY <1>0, <1>2 DEF CallTracked, AskingCalls, IsMessageOf
    <2>2. [own |-> c.own, peer |-> c.peer, msg |-> c.msg] \in letters'
      BY <1>2 DEF Served, Writes
    <2>3. c.msg \in LettersOf(op[c.op].peer, op[c.op].me)'
      BY <1>0, <1>1, <1>2, <2>1, <2>2 DEF LettersOf
    <2> QED
      BY <1>1, <2>1, <2>3 DEF Successful, AskedFor
  <1>3. CASE c.kind = "addActive"
    <2>1. op[c.op].kind = "accept" /\ <<c.own, c.peer>> \in chats
      BY <1>0, <1>3 DEF CallFollows, FoundInv
    <2>2. PICK e \in Entry : Enters(c, e) /\ log' = log \cup {e}
      BY <1>3 DEF Served, Writes
    <2>3. e \in log' /\ e.op = c.op /\ <<e.own, e.peer>> \in chats'
      BY <2>1, <2>2 DEF Enters, Served, Writes
    <2> QED
      BY <1>1, <2>1, <2>3 DEF Successful, Opened
  <1>4. CASE c.kind = "addMine"
    <2>1. /\ op[c.op].kind = "send" /\ c.msg.n = c.op
          /\ op[c.op].me = c.msg.from /\ op[c.op].peer = c.msg.to
      BY <1>0, <1>4 DEF CallTracked, SendingCalls, IsMessageOf
    <2>2. op[c.op].me = c.own /\ op[c.op].peer = c.peer
      BY <1>0, <1>4, <2>1 DEF CallFollows, CallSigned
    <2>3. PICK f \in log : f.msg = c.msg /\ f.own = c.peer /\ f.peer = c.own
      BY <1>0, <1>4 DEF CallSigned, InLog
    <2>4. PICK e \in Entry : Enters(c, e) /\ log' = log \cup {e}
      BY <1>4 DEF Served, Writes
    <2>5. e.msg.n = c.op /\ e.own = c.own /\ e.peer = c.peer
      BY <1>4, <2>1, <2>4 DEF Enters
    <2>6. <<c.peer, c.own>> \in chats'
      BY <1>4 DEF FoundInv, Served, Writes
    <2>7. Delivered(c.op)'
      BY <1>1, <2>1, <2>2, <2>3, <2>4, <2>5, <2>6 DEF Delivered
    <2> QED
      BY <1>1, <2>1, <2>7 DEF Successful
  <1>5. CASE c.kind = "delMsg"
    BY <1>1, <1>5 DEF Successful
  <1> QED
    BY <1>1, <1>2, <1>3, <1>4, <1>5 DEF Completing

LEMMA StepSuccessInv ==
  /\ TypeInv /\ MailInv /\ ConsentInv /\ TrackInv /\ HonestInv /\ StayInv /\ FoundInv
  /\ SuccessInv /\ [Next]_vars
  => SuccessInv'
  <1> SUFFICES ASSUME TypeInv, MailInv, ConsentInv, TrackInv, HonestInv, StayInv,
                      FoundInv, SuccessInv, [Next]_vars,
                      switches' = 0, NEW o \in Ops, op'[o].ok > 0
               PROVE  Successful(o)'
    BY DEF SuccessInv
  <1>1. switches = 0
    BY StepShapes DEF Looks, Started, Served, Troubled, budget, TypeInv, TypeOK
  <1>2. ASSUME NEW d \in Devices, Looks(d) PROVE Successful(o)'
    BY <1>1, <1>2
       DEF Looks, store, SuccessInv, Successful, AskedFor, Opened, Delivered, LettersOf
  <1>3. ASSUME NEW d \in Devices, NEW kind \in OpKinds, NEW me \in Users,
               NEW peer \in Users, NEW first \in CallType,
               Started(d, kind, me, peer, first)
        PROVE  Successful(o)'
    <2>1. o # nops + 1 /\ op'[o] = op[o]
      BY <1>3 DEF Started
    <2>2. Successful(o)
      BY <1>1, <2>1 DEF SuccessInv
    <2>3. op[nops + 1].kind = "none"
      BY <1>3 DEF Started, TrackInv, Unstarted, TypeInv, TypeOK
    <2>4. \A p \in Ops : op[p].kind \in Decisions => op'[p] = op[p]
      BY <1>3, <2>3 DEF Started, Decisions
    <2>5. AskedFor(o) => AskedFor(o)'
      BY <1>3, <2>1, <2>4 DEF AskedFor, LettersOf, Started, store
    <2> QED
      BY <1>3, <2>1, <2>2, <2>5 DEF Started, store, Successful, Opened, Delivered
  <1>4. ASSUME NEW c \in calls, Served(c) PROVE Successful(o)'
    <2>1. CASE op'[o].ok = op[o].ok
      <3>1. Successful(o)
        BY <1>1, <2>1 DEF SuccessInv
      <3> QED
        BY <1>1, <1>4, <3>1, ServedSuccessful
    <2>2. CASE op'[o].ok # op[o].ok
      <3>1. o = c.op
        BY <1>4, <2>2 DEF Served, Records
      <3> QED
        BY <1>1, <1>4, <2>2, <3>1, CompletesSuccessful
    <2> QED
      BY <2>1, <2>2
  <1>5. CASE Troubled
    <2>1. Successful(o)
      BY <1>1, <1>5 DEF SuccessInv, Troubled
    <2> QED
      BY ZenonT(60), <1>5, <2>1
         DEF Troubled, OpsStay, store, Successful, AskedFor, Opened, Delivered, LettersOf
  <1> QED
    BY <1>2, <1>3, <1>4, <1>5, StepShapes

(* completion(.success) of createWaitingChat, changeToActive and           *)
(* sendMessage comes last: as long as nobody has signed in or out since    *)
(* the start, a request reported as sent is waiting or has been decided,   *)
(* an accepted chat is there with a message in it, and a sent message is   *)
(* in both logs.                                                           *)
THEOREM SuccessIsTrueTheorem == Spec => [](switches = 0 => SuccessIsTrue)
  <1>1. Init => StayInv /\ FoundInv /\ SuccessInv
    BY DEF Init, StayInv, FoundInv, SuccessInv, NoOp
  <1>2. TypeInv /\ SuccessInv => (switches = 0 => SuccessIsTrue)
    <2> SUFFICES ASSUME SuccessInv, switches = 0, NEW o \in Ops, op[o].ok > 0
                 PROVE  CASE op[o].kind = "request" -> AskedFor(o)
                          [] op[o].kind = "accept" -> Opened(o)
                          [] op[o].kind = "send" -> Delivered(o)
                          [] OTHER -> TRUE
      BY DEF SuccessIsTrue, AskedFor, Opened, Delivered
    <2>1. Successful(o)
      BY DEF SuccessInv
    <2> QED
      BY <2>1 DEF Successful
  <1> QED
    BY <1>1, <1>2, StepStayInv, StepFoundInv, StepSuccessInv, TypeInvariant,
       MailInvariant, ConsentInvariant, TrackInvariant, HonestInvariant, PTL DEF Spec

=============================================================================
