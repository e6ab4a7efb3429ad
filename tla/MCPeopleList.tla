---------------------------- MODULE MCPeopleList ----------------------------
(***************************************************************************)
(* An instance of PeopleList for TLC: an account and two others.           *)
(***************************************************************************)
EXTENDS PeopleList

CONSTANTS me, ann, bob

ThreePeople == {me, ann, bob}
=============================================================================
