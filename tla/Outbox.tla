------------------------------- MODULE Outbox -------------------------------
(***************************************************************************)
(* What the Firestore client promises about the writes of its users: each  *)
(* has an outbox, which the backend sees from the front on, in the order   *)
(* of the writes, as often as it takes, and which a write leaves at the    *)
(* front, after the backend has applied it or refused it.                  *)
(***************************************************************************)
EXTENDS Naturals, SequencesExt

CONSTANTS Users, MaxWrites

VARIABLES
  pending,  \* the outboxes
  run,      \* how many writes of each have been applied in a row, from the front
  log,      \* what the backend has applied, and for whom
  denied,   \* the writes it refuses
  written   \* number of the last write

vars == <<pending, run, log, denied, written>>

Entry(u, w) == [user |-> u, write |-> w]
Applied(w) == \E i \in DOMAIN log : log[i].write = w

Init ==
  /\ pending = [u \in Users |-> <<>>]
  /\ run = [u \in Users |-> 0]
  /\ log = <<>>
  /\ denied = {}
  /\ written = 0

Write(u) ==
  /\ written < MaxWrites
  /\ written' = written + 1
  /\ pending' = [pending EXCEPT ![u] = Append(@, written')]
  /\ denied' \in {denied, denied \union {written'}}
  /\ UNCHANGED <<run, log>>

Apply(u) ==
  /\ run[u] < Len(pending[u])
  /\ run' = [run EXCEPT ![u] = @ + 1]
  /\ log' = Append(log, Entry(u, pending[u][run'[u]]))
  /\ UNCHANGED <<pending, denied, written>>

Acknowledge(u) ==
  /\ run[u] > 0
  /\ run' = [run EXCEPT ![u] = @ - 1]
  /\ pending' = [pending EXCEPT ![u] = Tail(@)]
  /\ UNCHANGED <<log, denied, written>>

(* A write the backend has applied may be given up as well, when its       *)
(* acknowledgement is lost.                                                *)
GiveUp(u) ==
  /\ pending[u] # <<>>
  /\ Head(pending[u]) \in denied \/ Applied(Head(pending[u]))
  /\ pending' = [pending EXCEPT ![u] = Tail(@)]
  /\ run' = [run EXCEPT ![u] = 0]
  /\ UNCHANGED <<log, denied, written>>

(* The connection is lost: the next one begins at the front.               *)
Lose(u) ==
  /\ run' = [run EXCEPT ![u] = 0]
  /\ UNCHANGED <<pending, log, denied, written>>

Next == \E u \in Users : Write(u) \/ Apply(u) \/ Acknowledge(u) \/ GiveUp(u) \/ Lose(u)

Spec == Init /\ [][Next]_vars
=============================================================================
