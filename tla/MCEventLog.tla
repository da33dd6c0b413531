----------------------------- MODULE MCEventLog -----------------------------
(***************************************************************************)
(* Small instances of EventLog: the room alone, and the room with one      *)
(* session whose channel holds two events.                                 *)
(***************************************************************************)
EXTENDS EventLog

CONSTANT s1
=============================================================================
