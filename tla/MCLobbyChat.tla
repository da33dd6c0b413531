---------------------------- MODULE MCLobbyChat ----------------------------
(* One user, whose socket comes and goes. *)
EXTENDS LobbyChat

CONSTANT u1

OneUser == [s \in Sessions |-> u1]
=============================================================================
