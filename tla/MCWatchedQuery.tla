--------------------------- MODULE MCWatchedQuery ---------------------------
(***************************************************************************)
(* Instances of WatchedQuery for TLC.                                      *)
(***************************************************************************)
EXTENDS WatchedQuery

Peace == [stops |-> 0, breaks |-> 0, kills |-> 0, rejections |-> 0, lapses |-> 0]

(* One disturbance, and for those that end no listener a broken stream too. *)
OneOrTwo ==
  {[Peace EXCEPT !.stops = 1]} \union
  {[Peace EXCEPT !.breaks = 1, ![other] = 1] : other \in {"kills", "rejections", "lapses"}}
=============================================================================
