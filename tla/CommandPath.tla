----------------------------- MODULE CommandPath -----------------------------
(***************************************************************************)
(* From a client's command to its one execution: Processor (processor.go), *)
(* the router of realtime_application.go, RoomActor (room_actor.go) and    *)
(* its deadlines (room_actor_deadline.go).                                 *)
(*                                                                         *)
(* Every call of Process and every deadline is a goroutine of its own; the *)
(* number of a call also names the idempotency entry it creates. A step is *)
(* what a goroutine does between two points where another can come in: a   *)
(* critical section, a channel operation, an atomic load. Commands of the  *)
(* lobby chat run in the actor's goroutine; those of game rooms run in the *)
(* caller's, under the registry mutex, and are one step.                   *)
(***************************************************************************)
EXTENDS Integers, Sequences, FiniteSets

CONSTANTS
  MaxCalls,      \* bound: calls of Process and deadlines, numbered in the order they begin
  MaxDeadlines,  \* bound: how many of them are deadlines
  Commands,      \* what clients send: (user_id, command_id) and content
  LobbyContents  \* the contents that are addressed to the lobby chat

None == 0   \* no call
Callers == 1 .. MaxCalls
CommandIDs == {command[1] : command \in Commands}
DeadlineID == "deadline"   \* marks a goroutine that is a deadline; it has no command

ASSUME PathAssumption ==
  /\ MaxCalls \in Nat \ {0}
  /\ MaxDeadlines \in 0 .. MaxCalls
  /\ LobbyContents \subseteq {command[2] : command \in Commands}
  /\ DeadlineID \notin CommandIDs
  /\ \A command \in Commands : command[2] # "none"

VARIABLES
  call,      \* caller -> where it is, its command, its context, its result
  entries,   \* Processor.entries: command id -> the caller that created its entry
  entry,     \* caller -> the entry it created
  stop,      \* RoomActor.stop: "open", then "closed" is stored, then "stopping" closed
  loop,      \* the actor's goroutine and the request it holds
  effects    \* history: the commands that took effect, in order, and what was answered

vars == <<call, entries, entry, stop, loop, effects>>

\* The statuses of a command result, and the errors.
Decided == {"accepted", "rejected"}
NoResult == [status |-> "none", n |-> 0]
Result(status) == [status |-> status, n |-> 0]

\* The result of an execution; one that took effect is told apart by its place
\* in the history, as the event numbers of a command outcome do.
Executed(status, history) ==
  [status |-> status, n |-> IF status = "accepted" THEN Len(history) ELSE 0]

\* "failed" is an error, or a rejection the client may repeat.
Outcomes == {"accepted", "rejected", "failed", "panicked"}

NoEntry == [body |-> "none", completed |-> FALSE, evict |-> FALSE, result |-> NoResult]

Init ==
  /\ call = [c \in Callers |-> [pc |-> "idle", id |-> "none", body |-> "none",
                                cancelled |-> FALSE, waitsFor |-> None, result |-> NoResult]]
  /\ entries = [id \in CommandIDs |-> None]
  /\ entry = [c \in Callers |-> NoEntry]
  /\ stop = "open"
  /\ loop = [pc |-> "select", request |-> None]
  /\ effects = <<>>

At(c, pc) == call[c].pc = pc
Goto(c, pc) == call' = [call EXCEPT ![c].pc = pc]
Return(c, pc, result) ==
  call' = [call EXCEPT ![c].pc = pc, ![c].result = result, ![c].cancelled = FALSE,
                       ![c].waitsFor = None]
NextCaller(c) == At(c, "idle") /\ (c > 1 => ~At(c - 1, "idle"))
IsDeadline(c) == call[c].id = DeadlineID
ForActor(c) == IsDeadline(c) \/ call[c].body \in LobbyContents
-----------------------------------------------------------------------------
(* The processor *)

\* Process up to the executor: a known command id with the same content waits
\* for its entry, with another content it is an error, an unknown one creates
\* its entry. (A context that has ended by then is an error without a trace.)
Process(c, id, body) ==
  /\ NextCaller(c)
  /\ LET started == [call[c] EXCEPT !.id = id, !.body = body]
         known == entries[id]
     IN \/ /\ known # None /\ entry[known].body # body
           /\ call' = [call EXCEPT ![c] = [started EXCEPT !.pc = "answered",
                                                          !.result = Result("conflict")]]
           /\ UNCHANGED <<entries, entry>>
        \/ /\ known # None /\ entry[known].body = body
           /\ call' = [call EXCEPT ![c] = [started EXCEPT !.pc = "waiting", !.waitsFor = known]]
           /\ UNCHANGED <<entries, entry>>
        \/ /\ known = None
           /\ call' = [call EXCEPT ![c] = [started EXCEPT !.pc = "routing"]]
           /\ entries' = [entries EXCEPT ![id] = c]
           /\ entry' = [entry EXCEPT ![c] = [NoEntry EXCEPT !.body = body]]
  /\ UNCHANGED <<stop, loop, effects>>

\* A duplicate takes the result of the first execution, or gives up with its
\* own context.
Wait(c) ==
  /\ At(c, "waiting")
  /\ LET first == entry[call[c].waitsFor] IN
     \/ first.completed /\ Return(c, "answered", first.result)
     \/ call[c].cancelled /\ Return(c, "answered", Result("cancelled"))
  /\ UNCHANGED <<entries, entry, stop, loop, effects>>

\* Mutant: a rejection is not retained.
ShouldRetain_AcceptedOnly(result) == result.status = "accepted"

\* Mutant: nothing is retained.
ShouldRetain_Never(result) == FALSE

ShouldRetain(result) == result.status \in Decided

\* The second critical section of Process.
Complete(c) ==
  /\ At(c, "returned") /\ ~IsDeadline(c)
  /\ LET result == call[c].result
         id == call[c].id
         gone == (~ShouldRetain(result) \/ entry[c].evict) /\ entries[id] = c
     IN /\ entry' = [entry EXCEPT ![c].completed = TRUE, ![c].result = result]
        /\ entries' = [entries EXCEPT ![id] = IF gone THEN None ELSE @]
  /\ Goto(c, "answered")
  /\ UNCHANGED <<stop, loop, effects>>

\* Mutant: an entry that is still in flight is left as it is.
ForgetClosedRoom_CompletedOnly ==
  LET done == {id \in CommandIDs : /\ entries[id] # None /\ entry[entries[id]].completed
                                    /\ entry[entries[id]].body \in LobbyContents} IN
  /\ entries' = [id \in CommandIDs |-> IF id \in done THEN None ELSE entries[id]]
  /\ UNCHANGED entry

ForgetClosedRoom ==
  LET known == {id \in CommandIDs : entries[id] # None /\ entry[entries[id]].body \in LobbyContents}
      done == {id \in known : entry[entries[id]].completed}
  IN /\ entries' = [id \in CommandIDs |-> IF id \in done THEN None ELSE entries[id]]
     /\ entry' = [c \in Callers |-> IF \E id \in known \ done : entries[id] = c
                                    THEN [entry[c] EXCEPT !.evict = TRUE] ELSE entry[c]]
-----------------------------------------------------------------------------
(* The router *)

\* The history when the command of a call takes effect and is answered so.
Effect(c, status) ==
  Append(effects, [command |-> <<call[c].id, call[c].body>>, status |-> status])

\* A command of a game room runs in the caller's goroutine. One that is not
\* accepted may have taken effect all the same: a batch the store refused
\* stays pending and the match keeps the state it was made from, which the
\* client is told as a failure it may repeat; a throw that was recorded stays
\* recorded when the turn cannot go on, which is a rejection.
ExecuteDirect(c) ==
  /\ At(c, "routing") /\ ~ForActor(c)
  /\ \E status \in Outcomes \ {"panicked"} :
       /\ \/ effects' = Effect(c, status)
          \/ status # "accepted" /\ UNCHANGED effects
       /\ Return(c, "returned", Executed(status, effects'))
  /\ UNCHANGED <<entries, entry, stop, loop>>
-----------------------------------------------------------------------------
(* The actor *)

\* validateSubmission and the load of closed at the start of submit, for a
\* command or for a deadline whose timer fired.
Submit(c) ==
  /\ At(c, "routing") /\ ForActor(c)
  /\ \/ call[c].cancelled /\ Return(c, "returned", Result("cancelled"))
     \/ ~call[c].cancelled /\ stop # "open" /\ Return(c, "returned", Result("closed"))
     \/ ~call[c].cancelled /\ stop = "open" /\ Goto(c, "submitting")
  /\ UNCHANGED <<entries, entry, stop, loop, effects>>

\* The select of submit: the send, when the actor receives, ...
Admit(c) ==
  /\ At(c, "submitting") /\ loop.pc = "select"
  /\ Goto(c, "admitted")
  /\ loop' = [pc |-> "received", request |-> c]
  /\ UNCHANGED <<entries, entry, stop, effects>>

\* Mutant: the caller's context also ends the wait for the response.
GiveUp_AfterAdmission(c) ==
  /\ \/ At(c, "submitting") /\ stop = "stopping" /\ Return(c, "returned", Result("closed"))
     \/ /\ call[c].pc \in {"submitting", "admitted"} /\ call[c].cancelled
        /\ Return(c, "returned", Result("cancelled"))
  /\ UNCHANGED <<entries, entry, stop, loop, effects>>

\* ... or one of the two ways to give up before admission.
GiveUp(c) ==
  /\ At(c, "submitting")
  /\ \/ stop = "stopping" /\ Return(c, "returned", Result("closed"))
     \/ call[c].cancelled /\ Return(c, "returned", Result("cancelled"))
  /\ UNCHANGED <<entries, entry, stop, loop, effects>>

\* The response, when the caller still waits for it.
Respond(c, result) ==
  IF At(c, "admitted") THEN Return(c, "returned", result) ELSE UNCHANGED call

\* Mutant: the actor leaves without answering the request it received.
Receive_Unanswered ==
  /\ loop.pc = "received"
  /\ \/ stop = "open" /\ loop' = [loop EXCEPT !.pc = "executing"]
     \/ stop # "open" /\ loop' = [loop EXCEPT !.pc = "cleanup"]
  /\ UNCHANGED <<call, entries, entry, stop, effects>>

\* The loop of run looks at closed again after it received a request.
Receive ==
  /\ loop.pc = "received"
  /\ \/ stop = "open" /\ loop' = [loop EXCEPT !.pc = "executing"] /\ UNCHANGED call
     \/ /\ stop # "open" /\ Respond(loop.request, Result("closed"))
        /\ loop' = [pc |-> "cleanup", request |-> None]
  /\ UNCHANGED <<entries, entry, stop, effects>>

\* executeRequest, whose panics are contained: a chat message takes effect
\* when it is accepted, and may have when its command panics. What the
\* operation of a deadline does is not in the history.
Execute ==
  /\ loop.pc = "executing"
  /\ \E status \in Outcomes :
       /\ \/ /\ ~IsDeadline(loop.request) /\ status \in {"accepted", "panicked"}
             /\ effects' = Effect(loop.request, status)
          \/ (status # "accepted" \/ IsDeadline(loop.request)) /\ UNCHANGED effects
       /\ IF status = "panicked"
          THEN loop' = [loop EXCEPT !.pc = "panicked"] /\ UNCHANGED call
          ELSE /\ loop' = [pc |-> "select", request |-> None]
               /\ Respond(loop.request, Executed(status, effects'))
  /\ UNCHANGED <<entries, entry, stop>>

\* After a panic the actor answers once it has stopped admission.
AnswerPanic ==
  /\ loop.pc = "panicked" /\ stop = "stopping"
  /\ Respond(loop.request, Result("panicked"))
  /\ loop' = [pc |-> "cleanup", request |-> None]
  /\ UNCHANGED <<entries, entry, stop, effects>>

\* The other arm of the loop's select.
LeaveLoop ==
  /\ loop.pc = "select" /\ stop = "stopping"
  /\ loop' = [loop EXCEPT !.pc = "cleanup"]
  /\ UNCHANGED <<call, entries, entry, stop, effects>>

\* The cleanup of the lobby chat room, and the close of done.
Cleanup ==
  /\ loop.pc = "cleanup"
  /\ ForgetClosedRoom
  /\ loop' = [loop EXCEPT !.pc = "done"]
  /\ UNCHANGED <<call, stop, effects>>

\* stop, called by Close or after a panic: closed is stored, then stopping is
\* closed.
Stop ==
  /\ stop = "open"
  /\ stop' = "closed"
  /\ UNCHANGED <<call, entries, entry, loop, effects>>

StopPanicked == loop.pc = "panicked" /\ Stop

CloseStopping ==
  /\ stop = "closed"
  /\ stop' = "stopping"
  /\ UNCHANGED <<call, entries, entry, loop, effects>>
-----------------------------------------------------------------------------
(* Deadlines, and the world outside *)

\* ScheduleRoomActorDeadline.
Schedule(d) ==
  /\ NextCaller(d) /\ Cardinality({c \in Callers : IsDeadline(c)}) < MaxDeadlines
  /\ call' = [call EXCEPT ![d].pc = "armed", ![d].id = DeadlineID]
  /\ UNCHANGED <<entries, entry, stop, loop, effects>>

\* The select of a deadline: its timer, the actor's end or its cancellation.
DeadlineRun(d) ==
  /\ At(d, "armed")
  /\ \/ Goto(d, "routing")
     \/ stop = "stopping" /\ Return(d, "returned", Result("closed"))
     \/ call[d].cancelled /\ Return(d, "returned", Result("cancelled"))
  /\ UNCHANGED <<entries, entry, stop, loop, effects>>

\* finish of a deadline; what its operation does to the room is not tracked.
DeadlineFinish(d) ==
  /\ At(d, "returned") /\ IsDeadline(d)
  /\ Return(d, "answered", NoResult)
  /\ UNCHANGED <<entries, entry, stop, loop, effects>>

\* The connection of a caller goes away, or Cancel of a deadline is called, at
\* a point where the code still looks at the context.
Cancel(c) ==
  /\ ~call[c].cancelled
  /\ \/ call[c].pc \in {"waiting", "submitting", "armed"}
     \/ At(c, "routing") /\ ForActor(c)
  /\ call' = [call EXCEPT ![c].cancelled = TRUE]
  /\ UNCHANGED <<entries, entry, stop, loop, effects>>

CallerStep(c) ==
  \/ Wait(c) \/ ExecuteDirect(c) \/ Submit(c) \/ Admit(c) \/ GiveUp(c) \/ Complete(c)
  \/ DeadlineRun(c) \/ DeadlineFinish(c)
ActorStep ==
  Receive \/ Execute \/ AnswerPanic \/ LeaveLoop \/ Cleanup \/ StopPanicked \/ CloseStopping

Next ==
  \/ \E c \in Callers, command \in Commands : Process(c, command[1], command[2])
  \/ \E c \in Callers : Schedule(c) \/ CallerStep(c) \/ Cancel(c)
  \/ ActorStep
  \/ Stop

Spec == Init /\ [][Next]_vars

\* Goroutines that can run do run; clients and shutdown owe nothing.
FairSpec ==
  /\ Spec
  /\ \A c \in Callers : WF_vars(CallerStep(c))
  /\ WF_vars(ActorStep)
-----------------------------------------------------------------------------
(* Properties *)

\* Types; an entry under a command id was created for it, by a caller that has
\* not been answered or whose result is retained.
TypeOK ==
  /\ stop \in {"open", "closed", "stopping"}
  /\ loop.pc \in {"select", "received", "executing", "panicked", "cleanup", "done"}
  /\ loop.request \in Callers \union {None}
  /\ \A id \in CommandIDs :
       entries[id] # None =>
         /\ call[entries[id]].id = id
         /\ entry[entries[id]].completed => entry[entries[id]].result.status \in Decided

\* A command that took effect takes effect again only if it was a game room's
\* and its client was told of a failure and may repeat it: never after an
\* acceptance or a rejection, and a chat message never, however often it is
\* sent, whoever is cancelled, and also when the room closes in between.
AcceptedOnce ==
  \A i, j \in DOMAIN effects :
    i < j /\ effects[i].command = effects[j].command =>
      effects[i].status = "failed" /\ effects[i].command[2] \notin LobbyContents

\* A decision is final: calls with one command id and one content that are
\* told that it was accepted or rejected are told the same.
DuplicatesAgree ==
  \A c, d \in Callers :
    /\ At(c, "answered") /\ At(d, "answered") /\ ~IsDeadline(c)
    /\ call[c].id = call[d].id /\ call[c].body = call[d].body
    /\ {call[c].result.status, call[d].result.status} \subseteq Decided
    => call[c].result = call[d].result

\* "Closed" and "cancelled" are answers one can rely on: an entry that ends in
\* one of them stands for a command that never ran, so it may be sent again.
RefusedHadNoEffect ==
  \A c \in Callers :
    entry[c].completed /\ entry[c].result.status \in {"closed", "cancelled"} =>
      \A i \in DOMAIN effects :
        effects[i].command = <<call[c].id, call[c].body>> =>
          \E d \in Callers \ {c} :
            /\ call[d].id = call[c].id /\ entry[d].body = call[c].body
            /\ At(d, "answered") => call[d].result.status = effects[i].status

\* A closed room forgets its commands, those included that were in flight when
\* the records were removed.
ClosedRoomIsForgotten ==
  loop.pc = "done" /\ (\A c \in Callers : call[c].pc \in {"idle", "answered"})
    => \A id \in CommandIDs : entries[id] # None => entry[entries[id]].body \notin LobbyContents

\* Nobody waits for ever, through cancellations, panics and the closing of the
\* room: every call of Process is answered and every deadline comes to an end,
\* and a room that is being closed gets to the end of its cleanup.
NobodyWaits ==
  /\ \A c \in Callers : ~At(c, "idle") ~> At(c, "answered")
  /\ (stop # "open") ~> (loop.pc = "done")
-----------------------------------------------------------------------------
(* What the documents say and the code does not do *)

\* docs/06 and ADR-0002: sending a command again never applies it again. The
\* code forgets a command whose events the store refused, and keeps what it
\* did.
ResendChangesNothing ==
  \A i, j \in DOMAIN effects : effects[i].command = effects[j].command => i = j
=============================================================================
