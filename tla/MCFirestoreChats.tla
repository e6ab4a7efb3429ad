-------------------------- MODULE MCFirestoreChats --------------------------
(***************************************************************************)
(* Instances of FirestoreChats for TLC.                                    *)
(***************************************************************************)
EXTENDS FirestoreChats, TLC

CONSTANTS ann, bob, cat, dan, d1, d2, d3

(* Two users, a device each.                                               *)
TwoUsers == {ann, bob}
TwoDevices == {d1, d2}
OwnDevice == d1 :> ann @@ d2 :> bob

(* Three users, a device each, and dan, who has yet to register on one.    *)
FourUsers == {ann, bob, cat, dan}
OneNewcomer == {dan}
ThreeDevices == {d1, d2, d3}
OwnDevices == d1 :> ann @@ d2 :> bob @@ d3 :> cat
=============================================================================
