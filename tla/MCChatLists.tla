---------------------------- MODULE MCChatLists ----------------------------
(***************************************************************************)
(* An instance of ChatLists for TLC: three friends.                        *)
(***************************************************************************)
EXTENDS ChatLists

CONSTANTS ann, bob, cat

ThreeFriends == {ann, bob, cat}
=============================================================================
