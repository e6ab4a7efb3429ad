---------------------------- MODULE MCChatScreen ----------------------------
(***************************************************************************)
(* Instances of ChatScreen for TLC take their numbers from the             *)
(* configuration files.                                                    *)
(***************************************************************************)
EXTENDS ChatScreen
=============================================================================
