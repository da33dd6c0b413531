---------------------------- MODULE MCBoardWalk ----------------------------
(* BoardWalk on the canonical file and on every file one mistake away. *)
EXTENDS BoardWalk

OrdinarySpaces == 1 .. 5
WrongTargets == {"chammeogi", "mo", "jji_gae"}
=============================================================================
