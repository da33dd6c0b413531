----------------------------- MODULE RoomStream -----------------------------
(***************************************************************************)
(* What a room promises the clients that listen to it: the events it       *)
(* broadcasts are numbered 1, 2, 3, ... without a gap, a repetition or a   *)
(* restart, through lobby, match and rematch, outages included. EventLog   *)
(* is the protocol that is meant to keep this promise.                     *)
(***************************************************************************)
EXTENDS Integers, Sequences

VARIABLE stream   \* the numbers of the events broadcast so far, in order

Init == stream = <<>>

\* One critical section of the server broadcasts any number of events.
Broadcast ==
  /\ Len(stream') > Len(stream)
  /\ \A i \in DOMAIN stream' :
       stream'[i] = IF i \in DOMAIN stream THEN stream[i] ELSE i

Spec == Init /\ [][Broadcast]_stream
=============================================================================
