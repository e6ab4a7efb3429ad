----------------------------- MODULE ChatLists -----------------------------
(***************************************************************************)
(* The requests and the chats on the main screen of PostPigeon             *)
(* (ListViewController).  Two listeners report the documents; the          *)
(* controller copies their arrays, reloads its rows and, when requests     *)
(* have come, presents the card of one of them.                            *)
(***************************************************************************)
EXTENDS Listener

CONSTANTS
  First,      \* what the documents say that exist at the start
  MaxChanges  \* bound: documents written or deleted

ASSUME ChatListsAssumption ==
  /\ None \notin Ids
  /\ First \in Contents
  /\ MaxChanges \in Nat

VARIABLES
  docs,      \* the collections, as the Firestore client knows them
  seen,      \* what each listener has reported
  reported,  \* whether it has reported anything
  alive,     \* whether it has not reported an error
  list,      \* its array, and the controller's waitingChats or activeChats
  rows,      \* what the data source shows in each section
  tab,       \* the selected tab
  loaded,    \* whether the controller has loaded its view
  pushed,    \* whether a chat is open on its navigation stack
  top,       \* what is presented over it
  crash,     \* what the process has died of
  changes    \* documents written or deleted so far

listener == <<seen, reported, alive>>
screen == <<tab, loaded, pushed>>
vars == <<docs, listener, list, rows, screen, top, crash, changes>>

-----------------------------------------------------------------------------
Sections == {"waiting", "active"}

Nothing == [kind |-> "nothing", of |-> None]
Card(f) == [kind |-> "card", of |-> f]
Alert == [kind |-> "alert", of |-> None]

Visible == tab = "lists" /\ ~ pushed

(* present(_:animated:) does nothing when the presenter is covered.        *)
Present(v) == top' = IF Visible /\ top = Nothing THEN v ELSE top

Init ==
  /\ docs \in [Sections -> [Ids -> {First, None}]]
  /\ seen = [s \in Sections |-> [f \in Ids |-> None]]
  /\ reported = [s \in Sections |-> FALSE]
  /\ alive = [s \in Sections |-> TRUE]
  /\ list = [s \in Sections |-> <<>>]
  /\ rows = [s \in Sections |-> <<>>]
  /\ tab = "people"
  /\ loaded = FALSE
  /\ pushed = FALSE
  /\ top = Nothing
  /\ crash = "no"
  /\ changes = 0

(* Some device writes or deletes a document; a chat is deleted only when   *)
(* the server refuses what this device has written.                        *)
Change(s, f, c) ==
  /\ crash = "no" /\ changes < MaxChanges
  /\ docs[s][f] # c
  /\ changes' = changes + 1
  /\ docs' = [docs EXCEPT ![s][f] = c]
  /\ UNCHANGED <<listener, list, rows, screen, top, crash>>

-----------------------------------------------------------------------------
(* The listeners.                                                          *)

(* The listener of s hands `chats' to the controller.                      *)
Reports(s, chats) ==
  /\ crash = "no" /\ loaded /\ alive[s]
  /\ ~ reported[s] \/ seen[s] # docs[s]
  /\ seen' = [seen EXCEPT ![s] = docs[s]]
  /\ reported' = [reported EXCEPT ![s] = TRUE]
  /\ list' = [list EXCEPT ![s] = chats]
  /\ UNCHANGED <<docs, alive, screen, changes>>

(* The friends of a section but those that are left out.                   *)
Without(friends, left) ==
  FoldLeft(LAMBDA kept, f : IF f \in left THEN kept ELSE Append(kept, f), <<>>, friends)

(* reloadData: identifiers of a snapshot must be unique.  A friend in both *)
(* sections ends the process or is shown in the second.                    *)
ReloadData(waiting, active) ==
  LET twice == ToSet(IdsOf(waiting)) \cap ToSet(IdsOf(active))
  IN  /\ rows' = [waiting |-> Without(IdsOf(waiting), twice), active |-> IdsOf(active)]
      /\ \/ crash' = crash
         \/ twice # {} /\ crash' = "duplicate"

Prompts(chats) == list["waiting"] # <<>> /\ Len(list["waiting"]) <= Len(chats)

(* Mutant: the card of the first request.                                  *)
FirstPrompted(chats) == Head(chats).id

(* chats.last!                                                             *)
Prompted(chats) == Last(chats).id

ReportWaiting ==
  \E chats \in Results(list["waiting"], seen["waiting"], docs["waiting"], {}) :
    /\ Reports("waiting", chats)
    /\ IF Prompts(chats) /\ chats = <<>>
         THEN /\ crash' = "unwrap"
              /\ UNCHANGED <<rows, top>>
         ELSE /\ IF Prompts(chats) THEN Present(Card(Prompted(chats))) ELSE UNCHANGED top
              /\ ReloadData(chats, list["active"])

ReportActive ==
  \E chats \in Results(list["active"], seen["active"], docs["active"], {}) :
    /\ Reports("active", chats)
    /\ ReloadData(list["waiting"], chats)
    /\ UNCHANGED top

(* An error ends a listener; the controller shows an alert.                *)
ListenerFails(s) ==
  /\ crash = "no" /\ loaded /\ alive[s]
  /\ alive' = [alive EXCEPT ![s] = FALSE]
  /\ Present(Alert)
  /\ UNCHANGED <<docs, seen, reported, list, rows, screen, crash, changes>>

-----------------------------------------------------------------------------
(* The user.                                                               *)

RequestTapped(f) ==
  /\ crash = "no" /\ Visible /\ top = Nothing
  /\ Contains(rows["waiting"], f)
  /\ Present(Card(f))
  /\ UNCHANGED <<docs, listener, list, rows, screen, crash, changes>>

ChatTapped(f) ==
  /\ crash = "no" /\ Visible /\ top = Nothing
  /\ Contains(rows["active"], f)
  /\ pushed' = TRUE
  /\ UNCHANGED <<docs, listener, list, rows, tab, loaded, top, crash, changes>>

BackTapped ==
  /\ crash = "no" /\ pushed /\ tab = "lists" /\ top = Nothing
  /\ pushed' = FALSE
  /\ UNCHANGED <<docs, listener, list, rows, tab, loaded, top, crash, changes>>

(* The second tab of MainTabBarController loads its view when it is first  *)
(* selected.                                                               *)
TabSelected(t) ==
  /\ crash = "no" /\ top = Nothing /\ tab # t
  /\ tab' = t
  /\ loaded' = (loaded \/ t = "lists")
  /\ UNCHANGED <<docs, listener, list, rows, pushed, top, crash, changes>>

(* A card or an alert is closed.                                           *)
Dismissed ==
  /\ crash = "no" /\ top # Nothing
  /\ top' = Nothing
  /\ UNCHANGED <<docs, listener, list, rows, screen, crash, changes>>

-----------------------------------------------------------------------------
Next ==
  \/ \E s \in Sections, f \in Ids, c \in Contents \cup {None} : Change(s, f, c)
  \/ ReportWaiting \/ ReportActive
  \/ \E s \in Sections : ListenerFails(s)
  \/ \E f \in Ids : RequestTapped(f) \/ ChatTapped(f)
  \/ BackTapped
  \/ \E t \in {"people", "lists"} : TabSelected(t)
  \/ Dismissed

Spec == Init /\ [][Next]_vars

-----------------------------------------------------------------------------
(* Properties.                                                             *)

(* The type invariant: the arrays hold chats, the rows their friends.      *)
TypeOK ==
  /\ docs \in [Sections -> Documents] /\ seen \in [Sections -> Documents]
  /\ reported \in [Sections -> BOOLEAN] /\ alive \in [Sections -> BOOLEAN]
  /\ list \in [Sections -> Seq(Item)] /\ rows \in [Sections -> Seq(Ids)]
  /\ tab \in {"people", "lists"} /\ loaded \in BOOLEAN /\ pushed \in BOOLEAN
  /\ top \in [kind : {"nothing", "card", "alert"}, of : Ids \cup {None}]
  /\ crash \in {"no", "duplicate", "unwrap"}
  /\ changes \in 0 .. MaxChanges

(* The arrays of waitingChatsObserve and activeChatsObserve are what has   *)
(* been reported, in whatever order and number of reports it came: every   *)
(* chat once, with its latest content.                                     *)
ListsMirror == \A s \in Sections : Mirrors(list[s], seen[s], {})

(* While the process lives the rows show the arrays: no reload is missed,  *)
(* and a friend who is in both has one row, among the chats.               *)
RowsFollow ==
  crash = "no" =>
    /\ rows["active"] = IdsOf(list["active"])
    /\ ToSet(rows["waiting"]) \cup ToSet(rows["active"])
         = ToSet(IdsOf(list["waiting"])) \cup ToSet(IdsOf(list["active"]))
    /\ IsInjective(rows["waiting"] \o rows["active"])

(* The forced unwrapping of chats.last never meets an empty array.         *)
UnwrapIsSafe == crash # "unwrap"

(* When requests are listed already and one report adds some and removes   *)
(* none, a screen with nothing over it shows the card of one of the new    *)
(* ones.  The others are not announced, and the first ones never.          *)
ArrivalIsAnnounced ==
  [][LET old == ToSet(IdsOf(list["waiting"]))
         new == ToSet(IdsOf(list'["waiting"]))
     IN  old # {} /\ old \subseteq new /\ old # new /\ Visible /\ top = Nothing
         => top'.kind = "card" /\ top'.of \in new \ old]_vars

(* What the two listeners leave of ListViewController's arrays and rows.   *)
ListsStand == TypeOK /\ ListsMirror /\ RowsFollow /\ UnwrapIsSafe
=============================================================================
