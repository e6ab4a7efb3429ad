------------------------------ MODULE Listener ------------------------------
(***************************************************************************)
(* What the closures of ListenerManager's usersObserve,                    *)
(* waitingChatsObserve and activeChatsObserve do: a report of Firestore    *)
(* lists the documents that have changed since the last one, and the       *)
(* closure applies the changes to its array, of which the controller has   *)
(* a copy.                                                                 *)
(***************************************************************************)
EXTENDS Naturals, FiniteSets, SequencesExt

CONSTANTS
  Ids,       \* documents of the collection
  Contents,  \* what one says: a name, a last message
  None       \* there is no such document

ASSUME ListenerAssumption == None \notin Contents /\ IsFiniteSet(Ids)

(* MUser and MChat are equal when their identifiers are.                   *)
Item == [id : Ids, content : Contents]
Documents == [Ids -> Contents \cup {None}]

IdsOf(items) == [i \in DOMAIN items |-> items[i].id]
IndexOf(items, id) == SelectInSeq(items, LAMBDA e : e.id = id)

(* querySnapshot.documentChanges, one for each document that differs.      *)
Diffs(old, new) ==
  LET changed == {p \in Ids : old[p] # new[p]}
      of(type, p, c) == [type |-> type, id |-> p, content |-> c]
  IN  {of("added", p, new[p]) : p \in {q \in changed : old[q] = None}}
      \cup {of("modified", p, new[p]) : p \in {q \in changed : None \notin {old[q], new[q]}}}
      \cup {of("removed", p, old[p]) : p \in {q \in changed : new[q] = None}}

ItemOf(d) == [id |-> d.id, content |-> d.content]

(* Mutant: modifications are left out, as in messagesObserve.              *)
ApplyUnmodified(items, d, hidden) ==
  LET i == IndexOf(items, d.id)
  IN  CASE d.type = "added" /\ i = 0 /\ d.id \notin hidden -> Append(items, ItemOf(d))
        [] d.type = "removed" /\ i # 0 -> RemoveAt(items, i)
        [] OTHER -> items

(* Mutant: nobody is left out.                                             *)
ApplyAll(items, d, hidden) ==
  LET i == IndexOf(items, d.id)
  IN  CASE d.type = "added" /\ i = 0 -> Append(items, ItemOf(d))
        [] d.type = "modified" /\ i # 0 -> ReplaceAt(items, i, ItemOf(d))
        [] d.type = "removed" /\ i # 0 -> RemoveAt(items, i)
        [] OTHER -> items

(* One change; people leave out the account of the device.                 *)
Apply(items, d, hidden) ==
  LET i == IndexOf(items, d.id)
  IN  CASE d.type = "added" /\ i = 0 /\ d.id \notin hidden -> Append(items, ItemOf(d))
        [] d.type = "modified" /\ i # 0 -> ReplaceAt(items, i, ItemOf(d))
        [] d.type = "removed" /\ i # 0 -> RemoveAt(items, i)
        [] OTHER -> items

(* The arrays a report can end with: Firestore orders the changes.         *)
Results(items, old, new, hidden) ==
  {FoldLeft(LAMBDA a, d : Apply(a, d, hidden), items, order) :
     order \in SetToSeqs(Diffs(old, new))}

(* The array is what has been reported: every document once, with its      *)
(* latest content.                                                         *)
Mirrors(items, docs, hidden) ==
  LET there == {p \in Ids \ hidden : docs[p] # None}
  IN  /\ ToSet(items) = {[id |-> p, content |-> docs[p]] : p \in there}
      /\ Len(items) = Cardinality(there)
=============================================================================
