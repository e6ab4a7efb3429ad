----------------------------- MODULE PeopleList -----------------------------
(***************************************************************************)
(* The people on the main screen of PostPigeon (PeopleViewController): a   *)
(* listener reports the documents of "users", and the rows show those      *)
(* whose name the text in the search bar matches.                          *)
(***************************************************************************)
EXTENDS Listener

CONSTANTS
  Me,         \* the account that is signed in
  First,      \* the name of everybody at the start
  MaxChanges  \* bound: documents written

ASSUME PeopleListAssumption ==
  /\ Me \in Ids
  /\ First \in Contents
  /\ MaxChanges \in Nat

VARIABLES
  docs,      \* the collection "users", as the Firestore client knows it
  seen,      \* what the listener has reported
  reported,  \* whether it has reported anything
  alive,     \* whether it has not reported an error
  users,     \* its array, and the controller's
  rows,      \* what the data source shows
  typed,     \* the names that the text in the search bar matches
  profile,   \* whose profile is presented
  changes    \* documents written so far

listener == <<seen, reported, alive, users>>
vars == <<docs, listener, rows, typed, profile, changes>>

-----------------------------------------------------------------------------
Init ==
  /\ docs \in {d \in [Ids -> {First, None}] : d[Me] = First}
  /\ seen = [p \in Ids |-> None]
  /\ reported = FALSE
  /\ alive = TRUE
  /\ users = <<>>
  /\ rows = <<>>
  /\ typed = Contents
  /\ profile = None
  /\ changes = 0

(* Somebody registers, or registers again; nobody is deleted.              *)
Change(p, c) ==
  /\ changes < MaxChanges
  /\ docs[p] # c
  /\ changes' = changes + 1
  /\ docs' = [docs EXCEPT ![p] = c]
  /\ UNCHANGED <<listener, rows, typed, profile>>

(* reloadData(with:): those whose name the filter matches.                 *)
Filtered(people, filter) ==
  FoldLeft(LAMBDA kept, u : IF u.content \in filter THEN Append(kept, u.id) ELSE kept, <<>>, people)

(* The listener reports; all users are shown, whatever has been typed.     *)
Report ==
  /\ alive
  /\ ~ reported \/ seen # docs
  /\ seen' = docs
  /\ reported' = TRUE
  /\ users' \in Results(users, seen, docs, {Me})
  /\ rows' = Filtered(users', Contents)
  /\ UNCHANGED <<docs, alive, typed, profile, changes>>

(* An error ends the listener.                                             *)
ListenerFails ==
  /\ alive
  /\ alive' = FALSE
  /\ UNCHANGED <<docs, seen, reported, users, rows, typed, profile, changes>>

TextChanged(filter) ==
  /\ profile = None
  /\ typed' = filter
  /\ rows' = Filtered(users, filter)
  /\ UNCHANGED <<docs, listener, profile, changes>>

PersonTapped(p) ==
  /\ profile = None
  /\ Contains(rows, p)
  /\ profile' = p
  /\ UNCHANGED <<docs, listener, rows, typed, changes>>

ProfileClosed ==
  /\ profile # None
  /\ profile' = None
  /\ UNCHANGED <<docs, listener, rows, typed, changes>>

Next ==
  \/ \E p \in Ids, c \in Contents : Change(p, c)
  \/ Report \/ ListenerFails
  \/ \E filter \in SUBSET Contents : TextChanged(filter)
  \/ \E p \in Ids : PersonTapped(p)
  \/ ProfileClosed

Spec == Init /\ [][Next]_vars

-----------------------------------------------------------------------------
(* Properties.                                                             *)

(* The array of usersObserve is what has been reported, without oneself.   *)
UsersMirror == Mirrors(users, seen, {Me})

(* The rows are the array behind the text that was typed last, or, after a *)
(* report, the whole array although the text is still there.               *)
RowsFollow == rows \in {Filtered(users, typed), Filtered(users, Contents)}

(* What usersObserve and the search leave of PeopleViewController.         *)
PeopleStand == UsersMirror /\ RowsFollow
=============================================================================
