--------------------------- MODULE MCGameSession ---------------------------
(***************************************************************************)
(* Instances of GameSession for TLC.                                       *)
(***************************************************************************)
EXTENDS GameSession, TLC

CONSTANTS e1, e2, e3, s1

AllEnemies == {e1, e2, e3}
OneShot == {s1}

EnemySymmetry == Permutations(AllEnemies)
=============================================================================
