---------------------------- MODULE MCRoomLobby ----------------------------
(***************************************************************************)
(* RoomLobby for TLC. Three people, a combined limit of two and a CPU in a *)
(* room of three seats make every limit bind; three attempts let a timer   *)
(* of an earlier attempt overtake the one of a later attempt.              *)
(***************************************************************************)
EXTENDS RoomLobby
=============================================================================
