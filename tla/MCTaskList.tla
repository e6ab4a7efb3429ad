----------------------------- MODULE MCTaskList -----------------------------
(***************************************************************************)
(* An instance of TaskList for TLC: two tasks, one address.                *)
(***************************************************************************)
EXTENDS TaskList

CONSTANTS shop, call, home

TwoTitles == {shop, call}
OnePlace == {home}
=============================================================================
