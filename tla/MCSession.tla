----------------------------- MODULE MCSession -----------------------------
(***************************************************************************)
(* Instances of Session for TLC: two people, of whom ann may have an       *)
(* account when the app is installed.                                      *)
(***************************************************************************)
EXTENDS Session

CONSTANTS ann, bob

TwoPeople == {ann, bob}
OnlyAnn == {ann}
=============================================================================
