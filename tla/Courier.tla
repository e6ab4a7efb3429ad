------------------------------ MODULE Courier -------------------------------
(***************************************************************************)
(* What the messages of PostPigeon promise, without documents, calls or    *)
(* devices: a message is written, then it may reach its addressee, and     *)
(* only what has reached the addressee may appear in the author's own log. *)
(* Nothing that arrived or appeared ever goes away.  A message to oneself  *)
(* has one log only, so it arrives and appears at once.  FirestoreChats    *)
(* implements this specification.                                          *)
(***************************************************************************)
CONSTANTS
  Message,   \* all messages
  ToSelf     \* those addressed to their author

VARIABLES
  written,   \* messages a user has sent off
  got,       \* messages in the log of their addressee
  shown      \* messages in the log of their author

courierVars == <<written, got, shown>>

CourierInit == written = {} /\ got = {} /\ shown = {}

Write(m) ==
  /\ m \notin written
  /\ written' = written \cup {m}
  /\ UNCHANGED <<got, shown>>

Deliver(m) ==
  /\ m \in written \ got
  /\ got' = got \cup {m}
  /\ shown' = shown \cup ({m} \cap ToSelf)
  /\ UNCHANGED written

Show(m) ==
  /\ m \in got \ shown
  /\ shown' = shown \cup {m}
  /\ UNCHANGED <<written, got>>

CourierNext == \E m \in Message : Write(m) \/ Deliver(m) \/ Show(m)

CourierSpec == CourierInit /\ [][CourierNext]_courierVars
=============================================================================
