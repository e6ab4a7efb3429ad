--------------------------- MODULE FirestoreChats ---------------------------
(***************************************************************************)
(* The chat requests and the messages of the PostPigeon app: the class     *)
(* FirestoreManager (Managers/FirestoreManager/FirestoreManager.swift),    *)
(* the buttons that call it, and the Firestore documents it reads and      *)
(* writes.                                                                 *)
(*                                                                         *)
(* A user asks another one for a chat by writing a document and a first    *)
(* message below users/<receiver>/waitingChats/<sender>.  The receiver     *)
(* accepts, and the app moves the messages to                              *)
(* users/<receiver>/activeChats/<sender>, or denies, and the app deletes   *)
(* them.  In an active chat a message is written to the friend's log first *)
(* and to the author's log second.                                         *)
(*                                                                         *)
(* Every operation of the manager is a chain of asynchronous calls: each   *)
(* call is issued by the completion handler of an earlier one.  A member   *)
(* of `calls' is one outstanding call together with what its completion    *)
(* handler has captured.  The server carries out outstanding calls in any  *)
(* order; carrying one out and running its handler are one step, which     *)
(* issues the calls the handler issues.                                    *)
(***************************************************************************)
EXTENDS Naturals, FiniteSets

CONSTANTS
  Users,        \* accounts, each with its document in "users" or a newcomer
  Devices,      \* running copies of the app
  Home,         \* the account each device starts with
  Newcomers,    \* accounts that are yet to register
  None,         \* "no card is open", "no message yet"
  MaxOps,       \* bound: operations started by all users together
  MaxFaults,    \* bound: failed calls and killed apps together
  MaxSwitches   \* bound: sign-ins and registrations

ASSUME ConstantsAssumption ==
  /\ Newcomers \subseteq Users
  /\ Home \in [Devices -> Users \ Newcomers]
  /\ None \notin Users
  /\ MaxOps \in Nat
  /\ MaxFaults \in Nat
  /\ MaxSwitches \in Nat

VARIABLES
  joined,    \* accounts with a document in the collection "users"
  ui,        \* the account on screen: Auth's, the listeners', the controllers'
  cur,       \* FirestoreManager.currentUser of every device
  everOn,    \* history: the accounts that have been signed in on a device
  card,      \* the friend whose ChatRequestViewController is open
  requests,  \* documents users/<own>/waitingChats/<peer>, as <<own, peer>>
  letters,   \* documents of their subcollections "messages"
  chats,     \* documents users/<own>/activeChats/<peer>, as <<own, peer>>
  log,       \* documents of their subcollections "messages"
  calls,     \* outstanding calls to Firestore
  nops,      \* operations started so far
  op,        \* history: what each operation is and what it has reported
  faults,    \* failed calls and killed apps so far
  switches   \* sign-ins and registrations so far

store == <<requests, letters, chats, log>>
device == <<joined, ui, cur, everOn, card>>
session == <<joined, ui, cur, everOn>>
budget == <<faults, switches>>
vars == <<device, store, calls, nops, op, budget>>

-----------------------------------------------------------------------------
(* Data.                                                                   *)

Ops == 1 .. MaxOps

(* MMessage: the operation that wrote it stands for its text and date, and *)
(* tells it from every other message.  `to' is not stored by the app; it   *)
(* is there for the properties.                                            *)
Msg == [n : Ops, from : Users, to : Users]

OpKinds == {"none", "request", "accept", "deny", "send"}
Decisions == {"accept", "deny"}

CallKinds == {"setWaiting", "addWaiting",                    \* createWaitingChat
              "getAccept",                                   \* changeToActive
              "delDoc", "getDelete", "delMsg",               \* deleteWaitingChat
              "setActive", "addActive",                      \* createActiveChat
              "upload",                                      \* sendPhoto
              "setFriend", "addFriend", "addMine"}           \* sendMessage

(* What does not outlive the process: queries and the upload of a photo.   *)
Volatile == {"getAccept", "getDelete", "upload"}

Letter == [own : Users, peer : Users, msg : Msg]

(* A message document of an active chat.  The operation and the call that  *)
(* added it, and the document whose deletion led to it, stand for its      *)
(* automatic identifier: two copies of one message are two documents.      *)
Entry == [own : Users, peer : Users, msg : Msg, op : Ops, call : CallKinds,
          via : Msg]

(* One outstanding call: `own' and `peer' give the path, `msg' the message *)
(* document it is about, `carry' the messages its completion handler holds *)
(* and `live' says whether the process that issued it still runs.          *)
CallType == [kind : CallKinds, op : Ops, dev : Devices, own : Users,
             peer : Users, msg : Msg \cup {None}, carry : SUBSET Msg,
             live : BOOLEAN]

OpType == [kind : OpKinds, dev : Devices \cup {None}, me : Users \cup {None},
           peer : Users \cup {None}, start : SUBSET Msg, snap : SUBSET Msg,
           ok : Nat, faulty : BOOLEAN]

NoOp == [kind |-> "none", dev |-> None, me |-> None, peer |-> None,
         start |-> {}, snap |-> {}, ok |-> 0, faulty |-> FALSE]

Call(k, o, d, own, peer, m, carry) ==
  [kind |-> k, op |-> o, dev |-> d, own |-> own, peer |-> peer, msg |-> m,
   carry |-> carry, live |-> TRUE]

(* Mutant: a query over all subcollections "messages" of the receiver.     *)
LettersOfAnyone(own, peer) ==
  {m \in Msg : \E p \in Users : [own |-> own, peer |-> p, msg |-> m] \in letters}

LettersOf(own, peer) ==
  {m \in Msg : [own |-> own, peer |-> peer, msg |-> m] \in letters}

-----------------------------------------------------------------------------
Init ==
  /\ joined = Users \ Newcomers
  /\ ui = Home
  /\ cur = Home
  /\ everOn = [d \in Devices |-> {Home[d]}]
  /\ card = [d \in Devices |-> None]
  /\ requests = {} /\ letters = {} /\ chats = {} /\ log = {}
  /\ calls = {}
  /\ nops = 0
  /\ op = [o \in Ops |-> NoOp]
  /\ faults = 0
  /\ switches = 0

-----------------------------------------------------------------------------
(* What the user does.                                                     *)

(* A button starts operation nops + 1, in the name of `me', with its first *)
(* call.                                                                   *)
Begin(d, kind, me, peer, first) ==
  /\ nops < MaxOps
  /\ nops' = nops + 1
  /\ op' = [op EXCEPT ![nops + 1] =
              [kind |-> kind, dev |-> d, me |-> me, peer |-> peer,
               start |-> LettersOf(me, peer), snap |-> {}, ok |-> 0,
               faulty |-> FALSE]]
  /\ calls' = calls \cup {first}
  /\ UNCHANGED <<session, store, budget>>

NewMsg(from, to) == [n |-> nops + 1, from |-> from, to |-> to]

(* ProfileViewController.sendMessage: usersObserve lists everybody but the *)
(* account on screen, and nothing asks whether a request or an active chat *)
(* exists already.  The author is FirestoreManager's current user.         *)
CreateWaitingChat(d, f) ==
  /\ f \in joined \ {ui[d]}
  /\ Begin(d, "request", cur[d], f,
           Call("setWaiting", nops + 1, d, f, cur[d], NewMsg(cur[d], f), {}))
  /\ UNCHANGED card

(* A waiting chat that is listed opens its card, and at most one card is   *)
(* open; the request may be decided elsewhere while the card is open.      *)
OpenCard(d, f) ==
  /\ card[d] = None
  /\ <<ui[d], f>> \in requests
  /\ card' = [card EXCEPT ![d] = f]
  /\ UNCHANGED <<session, store, calls, nops, op, budget>>

(* The card is swiped down.                                                *)
CloseCard(d) ==
  /\ card[d] # None
  /\ card' = [card EXCEPT ![d] = None]
  /\ UNCHANGED <<session, store, calls, nops, op, budget>>

AcceptButtonTapped(d) ==
  /\ card[d] # None
  /\ card' = [card EXCEPT ![d] = None]
  /\ Begin(d, "accept", ui[d], card[d],
           Call("getAccept", nops + 1, d, cur[d], card[d], None, {}))

DenyButtonTapped(d) ==
  /\ card[d] # None
  /\ card' = [card EXCEPT ![d] = None]
  /\ Begin(d, "deny", ui[d], card[d],
           Call("delDoc", nops + 1, d, cur[d], card[d], None, {}))

(* Mutant: a message can be sent to somebody one has no active chat with.  *)
SendMessageUnasked(d, f) ==
  /\ f \in joined \ {ui[d]}
  /\ Begin(d, "send", ui[d], f,
           Call("setFriend", nops + 1, d, f, cur[d], NewMsg(ui[d], f), {}))
  /\ UNCHANGED card

(* ChatsViewController is pushed for a chat of the list of active chats,   *)
(* and signs its messages with the account on screen; the paths are those  *)
(* of FirestoreManager's current user.                                     *)
SendMessage(d, f) ==
  /\ <<ui[d], f>> \in chats
  /\ Begin(d, "send", ui[d], f,
           Call("setFriend", nops + 1, d, f, cur[d], NewMsg(ui[d], f), {}))
  /\ UNCHANGED card

(* A photo is uploaded before sendMessage is called.                       *)
SendPhoto(d, f) ==
  /\ <<ui[d], f>> \in chats
  /\ Begin(d, "send", ui[d], f,
           Call("upload", nops + 1, d, f, ui[d], NewMsg(ui[d], f), {}))
  /\ UNCHANGED card

-----------------------------------------------------------------------------
(* What the server and the completion handlers do.                         *)

(* The handler of c runs if its process still does, and issues `next'.     *)
Reply(c, next) ==
  calls' = (calls \ {c}) \cup (IF c.live THEN next ELSE {})

(* completion(.success(...)) of the whole operation.                       *)
Finish(c) ==
  /\ Reply(c, {})
  /\ op' = IF c.live THEN [op EXCEPT ![c.op].ok = @ + 1] ELSE op

SetWaiting(c) ==
  /\ c.kind = "setWaiting"
  /\ requests' = requests \cup {<<c.own, c.peer>>}
  /\ Reply(c, {[c EXCEPT !.kind = "addWaiting"]})
  /\ UNCHANGED <<device, letters, chats, log, nops, op, budget>>

AddWaiting(c) ==
  /\ c.kind = "addWaiting"
  /\ letters' = letters \cup {[own |-> c.own, peer |-> c.peer, msg |-> c.msg]}
  /\ Finish(c)
  /\ UNCHANGED <<device, requests, chats, log, nops, budget>>

(* changeToActive holds on to what it read.  From here on the path of      *)
(* every further call of the operation is taken from the account that is   *)
(* signed in when the call is issued.                                      *)
GetAccept(c) ==
  /\ c.kind = "getAccept"
  /\ op' = [op EXCEPT ![c.op].snap = LettersOf(c.own, c.peer)]
  /\ Reply(c, {Call("delDoc", c.op, c.dev, cur[c.dev], c.peer, None,
                    LettersOf(c.own, c.peer))})
  /\ UNCHANGED <<device, store, nops, budget>>

(* Mutant: deleteWaitingChat does not go on to deleteMessages.             *)
DelDocOnly(c) ==
  /\ c.kind = "delDoc"
  /\ requests' = requests \ {<<c.own, c.peer>>}
  /\ Finish(c)
  /\ UNCHANGED <<device, letters, chats, log, nops, budget>>

(* Mutant: deleteWaitingChat deletes the messages only.                    *)
DelDocKept(c) ==
  /\ c.kind = "delDoc"
  /\ Reply(c, {Call("getDelete", c.op, c.dev, cur[c.dev], c.peer, None,
                    c.carry)})
  /\ UNCHANGED <<device, store, nops, op, budget>>

(* Deleting the document leaves its subcollection "messages" in place.     *)
DelDoc(c) ==
  /\ c.kind = "delDoc"
  /\ requests' = requests \ {<<c.own, c.peer>>}
  /\ Reply(c, {Call("getDelete", c.op, c.dev, cur[c.dev], c.peer, None,
                    c.carry)})
  /\ UNCHANGED <<device, letters, chats, log, nops, op, budget>>

(* deleteMessages: one deletion for each message, none when there is none; *)
(* then the operation never completes.                                     *)
GetDelete(c) ==
  /\ c.kind = "getDelete"
  /\ Reply(c, {[c EXCEPT !.kind = "delMsg", !.msg = m] :
                 m \in LettersOf(c.own, c.peer)})
  /\ UNCHANGED <<device, store, nops, op, budget>>

(* Mutant: the acceptance waits for a completion that never comes.         *)
DelMsgSilent(c) ==
  /\ c.kind = "delMsg"
  /\ letters' = letters \ {[own |-> c.own, peer |-> c.peer, msg |-> c.msg]}
  /\ IF op[c.op].kind = "deny" THEN Finish(c) ELSE Reply(c, {}) /\ UNCHANGED op
  /\ UNCHANGED <<device, requests, chats, log, nops, budget>>

(* The completion of deleteWaitingChat runs once for every deleted         *)
(* message: a denial reports success, an acceptance creates the chat.      *)
DelMsg(c) ==
  /\ c.kind = "delMsg"
  /\ letters' = letters \ {[own |-> c.own, peer |-> c.peer, msg |-> c.msg]}
  /\ \/ /\ op[c.op].kind = "deny"
        /\ Finish(c)
     \/ /\ op[c.op].kind = "accept"
        /\ Reply(c, {Call("setActive", c.op, c.dev, cur[c.dev], c.peer, c.msg,
                          c.carry)})
        /\ UNCHANGED op
  /\ UNCHANGED <<device, requests, chats, log, nops, budget>>

(* Mutant: createActiveChat adds one of the messages.                      *)
SetActiveFirst(c) ==
  /\ c.kind = "setActive"
  /\ chats' = chats \cup {<<c.own, c.peer>>}
  /\ Reply(c, {[c EXCEPT !.kind = "addActive", !.carry = {m}] :
                 m \in {m \in c.carry : \A b \in c.carry : m.n <= b.n}})
  /\ UNCHANGED <<device, requests, letters, log, nops, op, budget>>

SetActive(c) ==
  /\ c.kind = "setActive"
  /\ chats' = chats \cup {<<c.own, c.peer>>}
  /\ Reply(c, {[c EXCEPT !.kind = "addActive", !.carry = {m}] : m \in c.carry})
  /\ UNCHANGED <<device, requests, letters, log, nops, op, budget>>

AddActive(c) ==
  /\ c.kind = "addActive"
  /\ \E m \in c.carry :
       log' = log \cup {[own |-> c.own, peer |-> c.peer, msg |-> m,
                         op |-> c.op, call |-> c.kind, via |-> c.msg]}
  /\ Finish(c)
  /\ UNCHANGED <<device, requests, letters, chats, nops, budget>>

(* The handler of the upload calls sendMessage, whose paths are those of   *)
(* the user who is current by now.                                         *)
Upload(c) ==
  /\ c.kind = "upload"
  /\ Reply(c, {[c EXCEPT !.kind = "setFriend", !.peer = cur[c.dev]]})
  /\ UNCHANGED <<device, store, nops, op, budget>>

(* Mutant: both copies of a message are added at once.                     *)
SetFriendParallel(c) ==
  /\ c.kind = "setFriend"
  /\ chats' = chats \cup {<<c.own, c.peer>>}
  /\ Reply(c, {[c EXCEPT !.kind = "addFriend"],
               [c EXCEPT !.kind = "addMine", !.own = c.peer, !.peer = c.own]})
  /\ UNCHANGED <<device, requests, letters, log, nops, op, budget>>

(* sendMessage fixes all its paths when it is called.                      *)
SetFriend(c) ==
  /\ c.kind = "setFriend"
  /\ chats' = chats \cup {<<c.own, c.peer>>}
  /\ Reply(c, {[c EXCEPT !.kind = "addFriend"]})
  /\ UNCHANGED <<device, requests, letters, log, nops, op, budget>>

(* Mutant: the message is gone when its copy is added.                     *)
SentEntryEmpty(c) ==
  [own |-> c.own, peer |-> c.peer, msg |-> None, op |-> c.op,
   call |-> c.kind, via |-> c.msg]

SentEntry(c) ==
  [own |-> c.own, peer |-> c.peer, msg |-> c.msg, op |-> c.op,
   call |-> c.kind, via |-> c.msg]

(* Mutant: success is reported before the author's copy is added.          *)
AddFriendEarly(c) ==
  /\ c.kind = "addFriend"
  /\ log' = log \cup {SentEntry(c)}
  /\ Reply(c, {[c EXCEPT !.kind = "addMine", !.own = c.peer, !.peer = c.own]})
  /\ op' = [op EXCEPT ![c.op].ok = @ + 1]
  /\ UNCHANGED <<device, requests, letters, chats, nops, budget>>

AddFriend(c) ==
  /\ c.kind = "addFriend"
  /\ log' = log \cup {SentEntry(c)}
  /\ Reply(c, {[c EXCEPT !.kind = "addMine", !.own = c.peer, !.peer = c.own]})
  /\ UNCHANGED <<device, requests, letters, chats, nops, op, budget>>

AddMine(c) ==
  /\ c.kind = "addMine"
  /\ log' = log \cup {SentEntry(c)}
  /\ Finish(c)
  /\ UNCHANGED <<device, requests, letters, chats, nops, budget>>

Serve(c) ==
  \/ SetWaiting(c) \/ AddWaiting(c)
  \/ GetAccept(c) \/ DelDoc(c) \/ GetDelete(c) \/ DelMsg(c)
  \/ SetActive(c) \/ AddActive(c)
  \/ Upload(c) \/ SetFriend(c) \/ AddFriend(c) \/ AddMine(c)

-----------------------------------------------------------------------------
(* What goes wrong.                                                        *)

(* Every `if let error = error': the call has no effect, the completion of *)
(* the operation gets the error and nothing further is issued.             *)
CallFails(c) ==
  /\ c.live
  /\ faults < MaxFaults
  /\ faults' = faults + 1
  /\ calls' = calls \ {c}
  /\ op' = [op EXCEPT ![c.op].faulty = TRUE]
  /\ UNCHANGED <<device, store, nops, switches>>

(* The app is killed and started again: Auth still knows the account, and  *)
(* getUserData makes it the current user.  Completion handlers, queries    *)
(* and uploads are gone; the SDK keeps issued writes on disk and sends     *)
(* them later, or it does not.                                             *)
Kill(d) ==
  /\ faults < MaxFaults
  /\ cur[d] # ui[d] \/ \E c \in calls : c.dev = d /\ c.live
  /\ faults' = faults + 1
  /\ card' = [card EXCEPT ![d] = None]
  /\ cur' = [cur EXCEPT ![d] = ui[d]]
  /\ calls' = {[c EXCEPT !.live = @ /\ c.dev # d] :
                 c \in {b \in calls : b.dev = d => b.kind \notin Volatile}}
  /\ op' = [o \in Ops |->
              IF \E c \in calls : c.op = o /\ c.dev = d
              THEN [op[o] EXCEPT !.faulty = TRUE] ELSE op[o]]
  /\ UNCHANGED <<joined, ui, everOn, store, nops, switches>>

LoseWrite(c) ==
  /\ ~c.live
  /\ calls' = calls \ {c}
  /\ UNCHANGED <<device, store, nops, op, budget>>

(* The account on screen changes: outstanding calls stay.                  *)
Switch(d, u) ==
  /\ switches < MaxSwitches
  /\ u # ui[d]
  /\ switches' = switches + 1
  /\ ui' = [ui EXCEPT ![d] = u]
  /\ everOn' = [everOn EXCEPT ![d] = @ \cup {u}]
  /\ card' = [card EXCEPT ![d] = None]
  /\ UNCHANGED <<store, calls, nops, op, faults>>

(* PeopleViewController.sighOut and a login, which reads the profile of    *)
(* the account and makes it the current user.                              *)
SignIn(d, u) ==
  /\ u \in joined
  /\ cur' = [cur EXCEPT ![d] = u]
  /\ Switch(d, u)
  /\ UNCHANGED joined

(* sighOut and a registration: saveProfile writes the profile of the new   *)
(* account, and the account that was current stays current.                *)
SignUp(d, u) ==
  /\ u \notin joined
  /\ joined' = joined \cup {u}
  /\ Switch(d, u)
  /\ UNCHANGED cur

-----------------------------------------------------------------------------
Next ==
  \/ \E d \in Devices :
       \/ \E f \in Users : \/ CreateWaitingChat(d, f)
                           \/ OpenCard(d, f)
                           \/ SendMessage(d, f) \/ SendPhoto(d, f)
                           \/ SignIn(d, f) \/ SignUp(d, f)
       \/ CloseCard(d)
       \/ AcceptButtonTapped(d)
       \/ DenyButtonTapped(d)
       \/ Kill(d)
  \/ \E c \in calls : Serve(c) \/ CallFails(c) \/ LoseWrite(c)

Spec == Init /\ [][Next]_vars

(* Firestore answers every call of a device that stays online.             *)
Fairness == WF_vars(\E c \in calls : Serve(c))

FairSpec == Spec /\ Fairness

-----------------------------------------------------------------------------
(* Properties.                                                             *)

TypeOK ==
  /\ joined \subseteq Users
  /\ ui \in [Devices -> Users]
  /\ cur \in [Devices -> Users]
  /\ everOn \in [Devices -> SUBSET Users]
  /\ card \in [Devices -> Users \cup {None}]
  /\ requests \subseteq Users \X Users
  /\ letters \subseteq Letter
  /\ chats \subseteq Users \X Users
  /\ log \subseteq Entry
  /\ calls \subseteq CallType
  /\ nops \in 0 .. MaxOps
  /\ op \in [Ops -> OpType]
  /\ faults \in Nat
  /\ switches \in Nat

(* Nobody else has been signed in on a device of u.                        *)
Private(u) == \A d \in Devices : u \in everOn[d] => everOn[d] = {u}

(* Two users who keep their devices to themselves have an active chat only *)
(* if one of them has accepted a request of the other: a chat that a       *)
(* message creates at its addressee needs a chat at its author first, and  *)
(* the accounts of other devices get nothing in between.                   *)
Consent ==
  \A pair \in chats :
    Private(pair[1]) /\ Private(pair[2]) =>
      \E o \in Ops : /\ op[o].kind = "accept"
                    /\ <<op[o].me, op[o].peer>> \in {pair, <<pair[2], pair[1]>>}

(* The log of two such users holds nothing but their messages to each      *)
(* other.                                                                  *)
Addressed ==
  \A e \in log :
    Private(e.own) /\ Private(e.peer) => {e.msg.from, e.msg.to} = {e.own, e.peer}

InLog(m, own, peer) ==
  \E e \in log : e.msg = m /\ e.own = own /\ e.peer = peer

(* What a user sees as sent is in the friend's log: the author's own copy  *)
(* never exists without the friend's, whatever fails in between and        *)
(* whoever has signed in meanwhile.                                        *)
SentIsDelivered ==
  \A e \in log :
    e.msg.from = e.own /\ e.msg.to = e.peer => InLog(e.msg, e.peer, e.own)

CallsOf(o) == {c \in calls : c.op = o}

(* Another decision about a request of the same sender, on a device that   *)
(* has had an account in common with this one.                             *)
Rival(o) ==
  \E p \in Ops \ {o} :
    /\ op[p].kind \in Decisions
    /\ op[p].peer = op[o].peer
    /\ \E d, e \in Devices : /\ op[o].dev = d /\ op[p].dev = e
                            /\ everOn[d] \cap everOn[e] # {}

Held(m) ==
  \/ \E l \in letters : l.msg = m
  \/ \E e \in log : e.msg = m
  \/ \E c \in calls : c.live /\ m \in c.carry

(* Moving a request loses nothing: what an acceptance has read is at every *)
(* moment still waiting, held by the app or in a log, unless a call failed *)
(* or a second decision about the same sender ran beside it.               *)
AcceptLosesNothing ==
  \A o \in Ops :
    op[o].kind = "accept" /\ ~op[o].faulty /\ ~Rival(o)
      => \A m \in op[o].snap : Held(m)

(* Some other account has been signed in on the device of the operation.   *)
Switched(o) ==
  \E d \in Devices : op[o].dev = d /\ \E u, v \in everOn[d] : u # v

(* A decision that has run to its end has removed every message that was   *)
(* waiting when its button was tapped, whatever ran beside it.             *)
DecisionClears ==
  \A o \in Ops :
    op[o].kind \in Decisions /\ ~op[o].faulty /\ CallsOf(o) = {}
      /\ ~Switched(o)
      => op[o].start \cap LettersOf(op[o].me, op[o].peer) = {}

(* "Success" is never early.  A request reported as sent is waiting, or    *)
(* was removed by a decision of its receiver; an accepted chat exists with *)
(* a message in it; a sent message is in both logs.                        *)
SuccessIsTrue ==
  \A o \in Ops : op[o].ok > 0 =>
    CASE op[o].kind = "request" ->
           \/ \E m \in LettersOf(op[o].peer, op[o].me) : m.n = o
           \/ \E p \in Ops : /\ op[p].kind \in Decisions
                             /\ op[p].peer = op[o].me
                             /\ op[p].me = op[o].peer
      [] op[o].kind = "accept" ->
           \E e \in log : e.op = o /\ <<e.own, e.peer>> \in chats
      [] op[o].kind = "send" ->
           /\ <<op[o].peer, op[o].me>> \in chats
           /\ \A pair \in {<<op[o].me, op[o].peer>>, <<op[o].peer, op[o].me>>} :
                \E e \in log : e.msg.n = o /\ <<e.own, e.peer>> = pair
      [] OTHER -> TRUE

(* A message is copied once when its sender has asked once and the request *)
(* was accepted once.  (Two requests, or two acceptances, do duplicate it: *)
(* every deleted message starts a createActiveChat of its own.)            *)
OneRequestOneCopy ==
  \A e1, e2 \in log :
    e1.msg = e2.msg /\ e1.own = e2.own /\ e1.own # e1.peer /\ e1 # e2 =>
      \E o, p \in Ops : /\ o # p
                       /\ op[o].kind = op[p].kind
                       /\ \/ /\ op[o].kind = "request"
                             /\ {op[o].me, op[p].me} = {e1.msg.from}
                          \/ /\ op[o].kind = "accept"
                             /\ {op[o].peer, op[p].peer} = {e1.msg.from}

(* ListViewController shows requests and chats in one snapshot, which must *)
(* not list a friend twice.  Two users who keep their devices to themselves*)
(* come to that state only if there have been two requests between them:   *)
(* one each way, or a second one in a chat that is open.                   *)
ListedTwice ==
  \A pair \in requests \cap chats :
    Private(pair[1]) /\ Private(pair[2]) =>
      \E o, p \in Ops : /\ o # p
                       /\ op[o].kind = "request" /\ op[p].kind = "request"
                       /\ {op[o].me, op[o].peer} = {pair[1], pair[2]}
                       /\ {op[p].me, op[p].peer} = {pair[1], pair[2]}

(* An acceptance that has read a message ends in the chat with that        *)
(* message, unless a call failed, a second decision ran beside it or       *)
(* another account signed in on the device.                                *)
AcceptOpensChat ==
  \A o \in Ops :
    op[o].kind = "accept" /\ op[o].snap # {} ~>
      \/ op[o].faulty \/ Rival(o) \/ Switched(o)
      \/ /\ <<op[o].me, op[o].peer>> \in chats
         /\ \A m \in op[o].snap : InLog(m, op[o].me, op[o].peer)

(* Messages travel as the module Courier says.  The mapping takes the      *)
(* messages written by the operations, those in the log of their addressee *)
(* and those in the log of their author.                                   *)
Written == {m \in Msg : /\ op[m.n].kind \in {"request", "send"}
                       /\ op[m.n].me = m.from
                       /\ op[m.n].peer = m.to}
Got == {m \in Msg : InLog(m, m.to, m.from)}
Shown == {m \in Msg : InLog(m, m.from, m.to)}

MessageCourier == INSTANCE Courier WITH
  Message <- Msg, ToSelf <- {m \in Msg : m.from = m.to},
  written <- Written, got <- Got, shown <- Shown

Implements == MessageCourier!CourierSpec
=============================================================================
