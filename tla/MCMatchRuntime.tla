--------------------------- MODULE MCMatchRuntime ---------------------------
(***************************************************************************)
(* Small instances of MatchRuntime: two humans, one of them the host, and  *)
(* at most one CPU player.                                                 *)
(***************************************************************************)
EXTENDS MatchRuntime, TLC

CONSTANTS h1, h2, c1

HumanOrders == {<<h1, h2>>}
SoloOrders == {<<h1, c1>>}
=============================================================================
