--------------------------- MODULE MCTurnMachine ---------------------------
(***************************************************************************)
(* Small instances of TurnMachine: the cfg gives token ids as model values *)
(* and a small queue limit.                                                *)
(***************************************************************************)
EXTENDS TurnMachine
=============================================================================
