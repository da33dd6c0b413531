---------------------------- MODULE MCMatchPlay ----------------------------
(* Two pieces a team on a board of six spaces with one shortcut. *)
EXTENDS MatchPlay, TLC

CONSTANTS a1, a2, b1, b2

MCPieces == {a1, a2, b1, b2}
MCTeam == [p \in MCPieces |-> IF p \in {a1, a2} THEN "A" ELSE "B"]

\* The ring has room for a yut that does not finish; the shortcut leads from
\* its second space to the checkpoint.
SmallBoard ==
  LET ring == <<"chammeogi", "do", "mo", "back_do", "nal_do", "chammeogi">>
      edges == Chain(ring) \union Chain(<<"mo", "mo_do", "chammeogi">>)
  IN [nodes |-> {e[1] : e \in edges},
      start |-> "chammeogi", home |-> "chammeogi", center |-> "bang",
      outer |-> {ring[i] : i \in DOMAIN ring},
      edges |-> edges, repeated |-> {},
      choices |-> [mo |-> [normal |-> "back_do", shortcut |-> "mo_do"]],
      forced |-> [mo |-> "mo_do"],
      candidates |-> {"back_do"}, tagged |-> {"back_do"}, fixedBuk |-> "back_do"]

ShortTurn == 1 .. 3
LongTurn == 1 .. 4
AllOrders == {"fifo", "free"}
FreeOrder == {"free"}
SpecialResults == {"do", "yut", "backdo", "buk"}
NoBuk == {"do", "yut", "backdo"}

Usual == [stacking |-> TRUE, policy |-> "selectable", capture |-> "always"]
UsualOptions == {Usual}
SeveralOptions ==
  {Usual, [Usual EXCEPT !.stacking = FALSE, !.capture = "do_to_geol_plus_special"],
   [Usual EXCEPT !.policy = "forced", !.capture = "none"]}

\* Pieces of one team are interchangeable.
PieceSymmetry == Permutations({a1, a2}) \union Permutations({b1, b2})
=============================================================================
