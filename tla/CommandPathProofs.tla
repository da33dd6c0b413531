-------------------------- MODULE CommandPathProofs --------------------------
(***************************************************************************)
(* Proofs about CommandPath for any number of calls and deadlines and any  *)
(* set of commands.                                                        *)
(***************************************************************************)
EXTENDS CommandPath, TLAPS

Contents == {command[2] : command \in Commands} \union {"none"}

Results ==
  [status : {"none", "accepted", "rejected", "failed", "panicked", "conflict", "cancelled",
             "closed"},
   n : Nat]

Places ==
  {"idle", "waiting", "routing", "submitting", "admitted", "returned", "answered", "armed"}

Call ==
  [pc : Places,
   id : CommandIDs \union {DeadlineID, "none"}, body : Contents, cancelled : BOOLEAN,
   waitsFor : Callers \union {None}, result : Results]

\* An effect: its command and what its execution was answered.
Effects == [command : CommandIDs \X Contents, status : Outcomes]

Entry == [body : Contents, completed : BOOLEAN, evict : BOOLEAN, result : Results]

Typed ==
  /\ call \in [Callers -> Call]
  /\ entries \in [CommandIDs -> Callers \union {None}]
  /\ entry \in [Callers -> Entry]
  /\ stop \in {"open", "closed", "stopping"}
  /\ loop \in [pc : {"select", "received", "executing", "panicked", "cleanup", "done"},
               request : Callers \union {None}]
  /\ effects \in Seq(Effects)

\* The call created an entry and has not been answered.
Running(c) ==
  ~IsDeadline(c) /\ call[c].pc \in {"routing", "submitting", "admitted", "returned"}

\* A running call owns the entry under its id, and that entry is open.
RunningOwns ==
  \A c \in Callers : Running(c) =>
    /\ call[c].id \in CommandIDs /\ call[c].body # "none" /\ entries[call[c].id] = c
    /\ entry[c].body = call[c].body /\ ~entry[c].completed

\* An entry that can be found was created for its id by a call that runs or was
\* answered with a decision.
EntriesAreOwned ==
  \A id \in CommandIDs : entries[id] # None =>
    /\ call[entries[id]].id = id /\ entry[entries[id]].body = call[entries[id]].body
    /\ Running(entries[id]) \/ (entry[entries[id]].completed
                                /\ entry[entries[id]].result.status \in Decided)

\* A completed entry holds what its call was answered.
CompletedAnswered ==
  \A c \in Callers : entry[c].completed =>
    /\ At(c, "answered") /\ ~IsDeadline(c)
    /\ entry[c].body = call[c].body /\ entry[c].result = call[c].result

IdleIsFresh ==
  \A c \in Callers :
    /\ At(c, "idle") => ~IsDeadline(c) /\ ~entry[c].completed /\ ~entry[c].evict
    /\ At(c, "armed") => IsDeadline(c)

\* A duplicate waits for an entry of its own command.
WaitersMatch ==
  \A c \in Callers : At(c, "waiting") =>
    /\ ~IsDeadline(c) /\ call[c].waitsFor \in Callers
    /\ ~At(call[c].waitsFor, "idle")
    /\ entry[call[c].waitsFor].body = call[c].body
    /\ call[call[c].waitsFor].body = call[c].body /\ call[call[c].waitsFor].id = call[c].id

\* The actor holds the one call that is admitted.
ActorHolds ==
  /\ loop.pc \in {"received", "executing", "panicked"} =>
       loop.request \in Callers /\ At(loop.request, "admitted")
  /\ \A c \in Callers :
       /\ At(c, "admitted") => loop.request = c /\ loop.pc \in {"received", "executing", "panicked"}
       /\ call[c].pc \in {"submitting", "admitted"} => ForActor(c)

\* Only a closed lobby chat marks entries for removal.
EvictedIsClosed ==
  \A c \in Callers : entry[c].evict => entry[c].body \in LobbyContents /\ loop.pc = "done"

\* The call whose execution is this effect, and whose answer it tells: it is
\* still to be told that its command panicked, or it was answered.
IsAuthor(d, effect) ==
  /\ ~IsDeadline(d) /\ call[d].id = effect.command[1] /\ call[d].body = effect.command[2]
  /\ entry[d].body = effect.command[2] /\ effect.command[2] # "none"
  /\ \/ /\ call[d].pc \in {"returned", "answered"}
        /\ call[d].result.status = effect.status
     \/ At(d, "admitted") /\ loop.pc = "panicked" /\ effect.status = "panicked"

EffectsHaveAuthors ==
  \A i \in DOMAIN effects : \E d \in Callers : IsAuthor(d, effects[i])

\* The actor executes no more.
ActorIsOver == loop.pc \in {"panicked", "cleanup", "done"}

\* What took effect cannot take effect again: its entry is held by a call that
\* was told a decision, or it was for the lobby chat, whose actor is over. The
\* exception is a command of a game room that was answered as a failure.
IsHeld(effect) ==
  \/ effect.status = "failed" /\ effect.command[2] \notin LobbyContents
  \/ effect.command[2] \in LobbyContents /\ ActorIsOver
  \/ LET c == entries[effect.command[1]] IN
     /\ c # None /\ call[c].body = effect.command[2]
     /\ call[c].pc \in {"returned", "answered"} /\ call[c].result.status \in Decided

EffectsAreHeld ==
  \A i \in DOMAIN effects : IsHeld(effects[i])

\* The call was told a decision, or is about to be.
IsDecided(c) ==
  /\ ~IsDeadline(c) /\ call[c].pc \in {"returned", "answered"}
  /\ call[c].result.status \in Decided

SameCommand(c, d) == call[c].id = call[d].id /\ call[c].body = call[d].body

\* A decision is held by the entry of the command, or it was for the lobby
\* chat, which is closed.
DecisionsAreHeld ==
  \A c \in Callers : IsDecided(c) =>
    \/ call[c].body \in LobbyContents /\ ActorIsOver
    \/ LET e == entries[call[c].id] IN
       call[c].id \in CommandIDs /\ e # None /\ SameCommand(e, c) /\ IsDecided(e)

DecisionsAgree ==
  \A c, d \in Callers :
    IsDecided(c) /\ IsDecided(d) /\ SameCommand(c, d) => call[c].result = call[d].result

\* What a closed lobby chat has left to forget is still running, and will be
\* forgotten when it is answered.
ForgottenWhenAnswered ==
  loop.pc = "done" =>
    \A c \in Callers : Running(c) /\ call[c].body \in LobbyContents =>
      entry[c].evict \/ (call[c].pc = "returned" => call[c].result.status \notin Decided)

ForgottenWhenClosed ==
  loop.pc = "done" =>
    \A id \in CommandIDs :
      entries[id] # None /\ entry[entries[id]].body \in LobbyContents => Running(entries[id])

IInv ==
  /\ Typed /\ RunningOwns /\ EntriesAreOwned /\ CompletedAnswered /\ IdleIsFresh
  /\ WaitersMatch /\ ActorHolds /\ EvictedIsClosed
  /\ EffectsHaveAuthors /\ EffectsAreHeld /\ AcceptedOnce
  /\ DecisionsAreHeld /\ DecisionsAgree
  /\ ForgottenWhenAnswered /\ ForgottenWhenClosed
-----------------------------------------------------------------------------
(* Steps that decide nothing *)

\* A call goes on, or returns without a decision; an execution that panicked
\* is not mistaken for one that never ran.
QuietMove(d) ==
  /\ call'[d].id = call[d].id /\ call'[d].body = call[d].body
  /\ call[d].pc \in {"routing", "submitting", "admitted", "armed", "waiting"}
  /\ call'[d].pc \in {"routing", "submitting", "admitted", "armed", "waiting", "returned"}
  /\ call'[d].pc = "waiting" <=> call[d].pc = "waiting"
  /\ call'[d].pc = "waiting" => call'[d].waitsFor = call[d].waitsFor
  /\ call'[d].pc = "armed" => call[d].pc = "armed"
  /\ ~IsDeadline(d) /\ call'[d].pc = "returned" => call'[d].result.status \notin Decided
  /\ call[d].pc = "admitted" /\ loop.pc = "panicked" =>
       \/ call'[d].pc = "admitted" /\ loop'.pc = "panicked"
       \/ call'[d].pc = "returned" /\ call'[d].result.status = "panicked"

\* All of the invariant that is not about effects.
CallInv ==
  /\ RunningOwns /\ EntriesAreOwned /\ CompletedAnswered /\ IdleIsFresh
  /\ WaitersMatch /\ EvictedIsClosed
  /\ DecisionsAreHeld /\ DecisionsAgree
  /\ ForgottenWhenAnswered /\ ForgottenWhenClosed

LEMMA QuietCalls ==
  ASSUME IInv, UNCHANGED <<entries, entry>>,
         \A d \in Callers : call'[d] = call[d] \/ QuietMove(d),
         ActorIsOver => ActorIsOver', loop'.pc = "done" <=> loop.pc = "done"
  PROVE  /\ CallInv'
         /\ \A d \in Callers : /\ IsDeadline(d)' <=> IsDeadline(d)
                               /\ call'[d].id = call[d].id /\ call'[d].body = call[d].body
                               /\ call[d].pc \in {"returned", "answered"} => call'[d] = call[d]
<1>1. \A d \in Callers : /\ IsDeadline(d)' <=> IsDeadline(d)
                         /\ Running(d)' <=> Running(d)
                         /\ IsDecided(d)' <=> IsDecided(d)
                         /\ call'[d].id = call[d].id /\ call'[d].body = call[d].body
  BY DEF QuietMove, IsDeadline, Running, IsDecided, IInv, IdleIsFresh, At
<1>2. \A d \in Callers : /\ IsDecided(d) => call'[d] = call[d]
                         /\ call[d].pc \in {"returned", "answered"} => call'[d] = call[d]
  BY DEF QuietMove, IsDecided
<1>3. RunningOwns'
  BY <1>1 DEF IInv, RunningOwns
<1>4. EntriesAreOwned'
  BY <1>1 DEF IInv, EntriesAreOwned, Typed
<1>5. CompletedAnswered'
  BY <1>1 DEF IInv, CompletedAnswered, QuietMove, At
<1>6. IdleIsFresh'
  BY <1>1 DEF IInv, IdleIsFresh, QuietMove, At
<1>7. WaitersMatch'
  BY <1>1 DEF IInv, WaitersMatch, QuietMove, At
<1>8. EvictedIsClosed'
  BY DEF IInv, EvictedIsClosed
<1>9. DecisionsAreHeld'
  BY <1>1 DEF IInv, DecisionsAreHeld, SameCommand, Typed
<1>10. DecisionsAgree'
  BY <1>1, <1>2 DEF IInv, DecisionsAgree, SameCommand
<1>11. ForgottenWhenAnswered'
  BY <1>1 DEF IInv, ForgottenWhenAnswered, QuietMove, Running
<1>12. ForgottenWhenClosed'
  BY <1>1 DEF IInv, ForgottenWhenClosed, Typed
<1> QED
  BY <1>1, <1>2, <1>3, <1>4, <1>5, <1>6, <1>7, <1>8, <1>9, <1>10, <1>11, <1>12 DEF CallInv

LEMMA EffectFacts ==
  ASSUME IInv, NEW i \in DOMAIN effects
  PROVE  /\ effects[i].command[1] \in CommandIDs /\ effects[i].status \in Outcomes
         /\ IsHeld(effects[i]) /\ \E d \in Callers : IsAuthor(d, effects[i])
<1>1. effects[i] \in Effects
  <2>1. effects \in Seq(Effects)
    BY DEF IInv, Typed
  <2> HIDE DEF Effects
  <2> QED
    BY <2>1
<1>2. IsHeld(effects[i]) /\ \E d \in Callers : IsAuthor(d, effects[i])
  BY DEF IInv, EffectsAreHeld, EffectsHaveAuthors
<1> QED
  BY <1>1, <1>2 DEF Effects

\* The effects there were are still authored and held.
LEMMA QuietEffects ==
  ASSUME IInv, UNCHANGED <<entries, entry>>,
         \A d \in Callers : call'[d] = call[d] \/ QuietMove(d),
         ActorIsOver => ActorIsOver',
         \A d \in Callers : call'[d] = call[d] /\ call[d].pc = "admitted" /\ loop.pc = "panicked"
                              => loop'.pc = "panicked",
         NEW i \in DOMAIN effects, NEW e, e = effects[i]
  PROVE  (\E d \in Callers : IsAuthor(d, e)') /\ IsHeld(e)'
<1>1. \A d \in Callers : /\ IsDeadline(d)' <=> IsDeadline(d)
                         /\ call'[d].id = call[d].id /\ call'[d].body = call[d].body
                         /\ call[d].pc \in {"returned", "answered"} => call'[d] = call[d]
  BY DEF QuietMove, IsDeadline
<1>2. /\ e.command[1] \in CommandIDs /\ IsHeld(e)
      /\ \E d \in Callers : IsAuthor(d, e)
  BY EffectFacts
<1>3. \E d \in Callers : IsAuthor(d, e)'
  <2>1. PICK d \in Callers : IsAuthor(d, e)
    BY <1>2
  <2> QED
    BY <1>1, <2>1 DEF IsAuthor, QuietMove, At
<1>4. IsHeld(e)'
  <2>1. entries[e.command[1]] \in Callers \union {None}
    BY <1>2 DEF IInv, Typed
  <2> QED
    BY <1>1, <1>2, <2>1 DEF IsHeld
<1> QED
  BY <1>3, <1>4

LEMMA QuietStep ==
  ASSUME IInv, Typed', ActorHolds', UNCHANGED <<entries, entry, effects>>,
         \A d \in Callers : call'[d] = call[d] \/ QuietMove(d),
         ActorIsOver => ActorIsOver', loop'.pc = "done" <=> loop.pc = "done",
         \A d \in Callers : call'[d] = call[d] /\ call[d].pc = "admitted" /\ loop.pc = "panicked"
                              => loop'.pc = "panicked"
  PROVE  IInv'
<1>1. CallInv'
  BY QuietCalls
<1>2. EffectsHaveAuthors'
  BY QuietEffects DEF EffectsHaveAuthors
<1>3. EffectsAreHeld'
  BY QuietEffects DEF EffectsAreHeld
<1>4. AcceptedOnce'
  BY DEF IInv, AcceptedOnce
<1> QED
  BY <1>1, <1>2, <1>3, <1>4 DEF IInv, CallInv

\* What a step of a call leaves of the calls.
LEMMA GotoFacts ==
  ASSUME Typed, NEW c \in Callers, NEW pc \in Places, Goto(c, pc)
  PROVE  /\ call' \in [Callers -> Call]
         /\ \A d \in Callers : d # c => call'[d] = call[d]
         /\ call'[c].pc = pc /\ call'[c].id = call[c].id /\ call'[c].body = call[c].body
         /\ call'[c].waitsFor = call[c].waitsFor /\ call'[c].result = call[c].result
<1>1. call[c] \in Call /\ call \in [Callers -> Call]
  BY DEF Typed
<1> DEFINE r == [call[c] EXCEPT !.pc = pc]
<1>2. /\ r \in Call /\ r.pc = pc /\ r.id = call[c].id /\ r.body = call[c].body
      /\ r.waitsFor = call[c].waitsFor /\ r.result = call[c].result
  BY <1>1 DEF Call
<1>3. call' = [call EXCEPT ![c] = r]
  BY <1>1 DEF Goto
<1> HIDE DEF r
<1> QED
  BY <1>1, <1>2, <1>3

LEMMA ReturnFacts ==
  ASSUME Typed, NEW c \in Callers, NEW pc \in Places, NEW result \in Results,
         Return(c, pc, result)
  PROVE  /\ call' \in [Callers -> Call]
         /\ \A d \in Callers : d # c => call'[d] = call[d]
         /\ call'[c].pc = pc /\ call'[c].id = call[c].id /\ call'[c].body = call[c].body
         /\ call'[c].result = result
<1>1. call[c] \in Call /\ call \in [Callers -> Call] /\ None \in Callers \union {None}
  BY DEF Typed
<1> DEFINE r == [call[c] EXCEPT !.pc = pc, !.result = result, !.cancelled = FALSE,
                                !.waitsFor = None]
<1>2. /\ r \in Call /\ r.pc = pc /\ r.id = call[c].id /\ r.body = call[c].body
      /\ r.result = result
  BY <1>1 DEF Call
<1>3. call' = [call EXCEPT ![c] = r]
  BY <1>1 DEF Return
<1> HIDE DEF r
<1> QED
  BY <1>1, <1>2, <1>3

\* The errors of a call, which are not decisions.
LEMMA ErrorResults ==
  ASSUME NEW status \in {"none", "panicked", "conflict", "cancelled", "closed"}
  PROVE  /\ Result(status) \in Results /\ Result(status).status = status
         /\ Result(status).status \notin Decided
BY DEF Result, Results, Decided

\* The actor's goroutine stays where it is.
LEMMA CallStep ==
  ASSUME IInv, Typed', UNCHANGED <<entries, entry, loop, effects>>, NEW c \in Callers,
         \A d \in Callers : d # c => call'[d] = call[d], QuietMove(c),
         call'[c].pc = "admitted" <=> call[c].pc = "admitted",
         call'[c].pc = "submitting" => ForActor(c)
  PROVE  IInv'
<1>1. \A d \in Callers : /\ call'[d].pc = "admitted" <=> call[d].pc = "admitted"
                         /\ ForActor(d)' <=> ForActor(d)
  BY DEF QuietMove, ForActor, IsDeadline
<1>2. ActorHolds'
  BY <1>1 DEF IInv, ActorHolds, At
<1> QED
  BY <1>2, QuietStep DEF ActorIsOver

\* A call that never got to the actor returns an error.
LEMMA ErrorStep ==
  ASSUME IInv, UNCHANGED <<entries, entry, stop, loop, effects>>, NEW c \in Callers,
         call[c].pc \in {"routing", "submitting", "armed"},
         NEW status \in {"cancelled", "closed"}, Return(c, "returned", Result(status))
  PROVE  IInv'
<1>1. Result(status) \in Results /\ Result(status).status \notin Decided
  BY ErrorResults
<1>2. /\ call' \in [Callers -> Call]
      /\ \A d \in Callers : d # c => call'[d] = call[d]
      /\ call'[c].pc = "returned" /\ call'[c].id = call[c].id /\ call'[c].body = call[c].body
      /\ call'[c].result = Result(status)
  BY <1>1, ReturnFacts DEF Places, IInv
<1>3. QuietMove(c)
  BY <1>1, <1>2 DEF QuietMove
<1> QED
  BY <1>2, <1>3, CallStep DEF Typed, IInv

LEMMA SubmitInv ==
  ASSUME IInv, NEW c \in Callers, Submit(c)
  PROVE  IInv'
<1>1. /\ UNCHANGED <<entries, entry, stop, loop, effects>> /\ At(c, "routing") /\ ForActor(c)
      /\ Typed
  BY DEF Submit, IInv
<1>2. CASE Return(c, "returned", Result("cancelled")) \/ Return(c, "returned", Result("closed"))
  BY <1>1, <1>2, ErrorStep DEF At
<1>3. CASE Goto(c, "submitting")
  <2>1. /\ call' \in [Callers -> Call]
        /\ \A d \in Callers : d # c => call'[d] = call[d]
        /\ call'[c].pc = "submitting" /\ call'[c].id = call[c].id /\ call'[c].body = call[c].body
    BY <1>1, <1>3, GotoFacts DEF Places
  <2>2. QuietMove(c)
    BY <1>1, <2>1 DEF QuietMove, At
  <2> QED
    BY <1>1, <2>1, <2>2, CallStep DEF Typed, At
<1> QED
  BY <1>2, <1>3 DEF Submit

LEMMA GiveUpInv ==
  ASSUME IInv, NEW c \in Callers, GiveUp(c)
  PROVE  IInv'
BY ErrorStep DEF GiveUp, At

LEMMA DeadlineRunInv ==
  ASSUME IInv, NEW c \in Callers, DeadlineRun(c)
  PROVE  IInv'
<1>1. /\ UNCHANGED <<entries, entry, stop, loop, effects>> /\ At(c, "armed") /\ Typed
      /\ IsDeadline(c)
  BY DEF DeadlineRun, IInv, IdleIsFresh
<1>2. CASE Return(c, "returned", Result("cancelled")) \/ Return(c, "returned", Result("closed"))
  BY <1>1, <1>2, ErrorStep DEF At
<1>3. CASE Goto(c, "routing")
  <2>1. /\ call' \in [Callers -> Call]
        /\ \A d \in Callers : d # c => call'[d] = call[d]
        /\ call'[c].pc = "routing" /\ call'[c].id = call[c].id /\ call'[c].body = call[c].body
    BY <1>1, <1>3, GotoFacts DEF Places
  <2>2. QuietMove(c)
    BY <1>1, <2>1 DEF QuietMove, At
  <2> QED
    BY <1>1, <2>1, <2>2, CallStep DEF Typed, At
<1> QED
  BY <1>2, <1>3 DEF DeadlineRun

LEMMA CancelInv ==
  ASSUME IInv, NEW c \in Callers, Cancel(c)
  PROVE  IInv'
<1>1. /\ UNCHANGED <<entries, entry, stop, loop, effects>> /\ Typed
      /\ call[c].pc \in {"waiting", "submitting", "armed", "routing"}
      /\ call[c].pc = "submitting" => ForActor(c)
  BY DEF Cancel, IInv, At, ActorHolds
<1>2. /\ call' \in [Callers -> Call]
      /\ \A d \in Callers : d # c => call'[d] = call[d]
      /\ call'[c].pc = call[c].pc /\ call'[c].id = call[c].id /\ call'[c].body = call[c].body
      /\ call'[c].waitsFor = call[c].waitsFor
  <2> DEFINE r == [call[c] EXCEPT !.cancelled = TRUE]
  <2>1. call[c] \in Call /\ call \in [Callers -> Call]
    BY <1>1 DEF Typed
  <2>2. /\ r \in Call /\ r.pc = call[c].pc /\ r.id = call[c].id /\ r.body = call[c].body
        /\ r.waitsFor = call[c].waitsFor
    BY <2>1 DEF Call
  <2>3. call' = [call EXCEPT ![c] = r]
    BY <2>1 DEF Cancel
  <2> HIDE DEF r
  <2> QED
    BY <2>1, <2>2, <2>3
<1>3. QuietMove(c)
  BY <1>1, <1>2 DEF QuietMove
<1> QED
  BY <1>1, <1>2, <1>3, CallStep DEF Typed

LEMMA AdmitInv ==
  ASSUME IInv, NEW c \in Callers, Admit(c)
  PROVE  IInv'
<1>1. /\ UNCHANGED <<entries, entry, stop, effects>> /\ Typed
      /\ call[c].pc = "submitting" /\ loop.pc = "select" /\ Goto(c, "admitted")
      /\ loop' = [pc |-> "received", request |-> c]
  BY DEF Admit, IInv, At
<1>2. /\ call' \in [Callers -> Call]
      /\ \A d \in Callers : d # c => call'[d] = call[d]
      /\ call'[c].pc = "admitted" /\ call'[c].id = call[c].id /\ call'[c].body = call[c].body
  BY <1>1, GotoFacts DEF Places
<1>3. QuietMove(c)
  BY <1>1, <1>2 DEF QuietMove
<1>4. loop'.pc = "received" /\ loop'.request = c
  BY <1>1
<1>5. ActorHolds'
  BY <1>1, <1>2, <1>4 DEF IInv, ActorHolds, At, ForActor, IsDeadline
<1>6. Typed'
  BY <1>1, <1>2 DEF Typed
<1> QED
  BY <1>1, <1>2, <1>3, <1>4, <1>5, <1>6, QuietStep DEF ActorIsOver

\* Only the actor's goroutine or the flags of stop move.
LEMMA LoopStep ==
  ASSUME IInv, Typed', ActorHolds', UNCHANGED <<call, entries, entry, effects>>,
         loop.pc = "panicked" => loop'.pc = "panicked",
         ActorIsOver => ActorIsOver', loop'.pc = "done" <=> loop.pc = "done"
  PROVE  IInv'
BY QuietStep

LEMMA StopInv ==
  ASSUME IInv, Stop \/ CloseStopping
  PROVE  IInv'
<1>1. UNCHANGED <<call, entries, entry, loop, effects>> /\ stop' \in {"closed", "stopping"}
  BY DEF Stop, CloseStopping
<1>2. Typed' /\ ActorHolds'
  BY <1>1 DEF IInv, Typed, ActorHolds, At, ForActor, IsDeadline
<1> QED
  BY <1>1, <1>2, LoopStep DEF ActorIsOver

LEMMA LeaveLoopInv ==
  ASSUME IInv, LeaveLoop
  PROVE  IInv'
<1>1. /\ UNCHANGED <<call, entries, entry, stop, effects>> /\ loop.pc = "select"
      /\ loop' = [loop EXCEPT !.pc = "cleanup"] /\ Typed
  BY DEF LeaveLoop, IInv
<1>2. loop'.pc = "cleanup" /\ loop'.request = loop.request
  BY <1>1 DEF Typed
<1>3. Typed'
  BY <1>1 DEF Typed
<1>4. ActorHolds'
  BY <1>1, <1>2 DEF IInv, ActorHolds, At, ForActor, IsDeadline
<1> QED
  BY <1>1, <1>2, <1>3, <1>4, LoopStep DEF ActorIsOver

\* The actor answers the request it holds, without a decision.
LEMMA AnswerStep ==
  ASSUME IInv, loop.pc \in {"received", "executing", "panicked"},
         UNCHANGED <<entries, entry, stop, effects>>,
         NEW result \in Results, result.status \notin Decided \/ IsDeadline(loop.request),
         Respond(loop.request, result),
         NEW pc \in {"select", "cleanup"}, loop' = [pc |-> pc, request |-> None],
         loop.pc = "panicked" => result.status = "panicked" /\ pc = "cleanup"
  PROVE  IInv'
<1> DEFINE c == loop.request
<1>1. /\ c \in Callers /\ call[c].pc = "admitted" /\ Return(c, "returned", result) /\ Typed
      /\ \A d \in Callers : call[d].pc = "admitted" => d = c
  BY DEF IInv, ActorHolds, Respond, At
<1>2. loop'.pc = pc /\ loop'.request = None
  OBVIOUS
<1> HIDE DEF c
<1>3. /\ call' \in [Callers -> Call]
      /\ \A d \in Callers : d # c => call'[d] = call[d]
      /\ call'[c].pc = "returned" /\ call'[c].id = call[c].id /\ call'[c].body = call[c].body
      /\ call'[c].result = result
  BY <1>1, ReturnFacts DEF Places
<1>4. QuietMove(c)
  BY <1>1, <1>3 DEF QuietMove, c
<1>5. Typed'
  BY <1>1, <1>3 DEF Typed
<1>6. ActorHolds'
  BY <1>1, <1>2, <1>3 DEF IInv, ActorHolds, At, ForActor, IsDeadline
<1> QED
  BY <1>1, <1>2, <1>3, <1>4, <1>5, <1>6, QuietStep DEF ActorIsOver

LEMMA ReceiveInv ==
  ASSUME IInv, Receive
  PROVE  IInv'
<1>1. /\ UNCHANGED <<entries, entry, stop, effects>> /\ loop.pc = "received" /\ Typed
  BY DEF Receive, IInv
<1>2. CASE loop' = [loop EXCEPT !.pc = "executing"] /\ UNCHANGED call
  <2>1. loop'.pc = "executing" /\ loop'.request = loop.request
    BY <1>1, <1>2 DEF Typed
  <2>2. Typed'
    BY <1>1, <1>2 DEF Typed
  <2>3. ActorHolds'
    BY <1>1, <1>2, <2>1 DEF IInv, ActorHolds, At, ForActor, IsDeadline
  <2> QED
    BY <1>1, <1>2, <2>1, <2>2, <2>3, LoopStep DEF ActorIsOver
<1>3. CASE /\ Respond(loop.request, Result("closed"))
           /\ loop' = [pc |-> "cleanup", request |-> None]
  <2>1. Result("closed") \in Results /\ Result("closed").status \notin Decided
    BY ErrorResults
  <2> QED
    BY <1>1, <1>3, <2>1, AnswerStep
<1> QED
  BY <1>2, <1>3 DEF Receive

LEMMA AnswerPanicInv ==
  ASSUME IInv, AnswerPanic
  PROVE  IInv'
<1>1. /\ Result("panicked") \in Results /\ Result("panicked").status = "panicked"
      /\ Result("panicked").status \notin Decided
  BY ErrorResults
<1> QED
  BY <1>1, AnswerStep DEF AnswerPanic
-----------------------------------------------------------------------------
(* Executions *)

\* A call that runs stands for a command that nobody decided: what it did
\* before, if anything, was answered as a failure of a game room.
LEMMA Undecided ==
  ASSUME IInv, NEW c \in Callers, Running(c), call[c].pc # "returned",
         call[c].body \in LobbyContents => ~ActorIsOver
  PROVE  /\ \A d \in Callers : ~(IsDecided(d) /\ SameCommand(d, c))
         /\ \A i \in DOMAIN effects :
              effects[i].command = <<call[c].id, call[c].body>> =>
                effects[i].status = "failed" /\ effects[i].command[2] \notin LobbyContents
<1>1. /\ call[c].id \in CommandIDs /\ entries[call[c].id] = c
      /\ call[c].pc \notin {"returned", "answered"} /\ c # None
  BY DEF IInv, RunningOwns, Running, Callers, None
<1>2. ASSUME NEW d \in Callers, IsDecided(d), SameCommand(d, c)
      PROVE  FALSE
  BY <1>1, <1>2 DEF IInv, DecisionsAreHeld, SameCommand, IsDecided
<1>3. ASSUME NEW i \in DOMAIN effects, effects[i].command = <<call[c].id, call[c].body>>
      PROVE  effects[i].status = "failed" /\ effects[i].command[2] \notin LobbyContents
  <2>1. effects[i].command[1] = call[c].id /\ effects[i].command[2] = call[c].body
    BY <1>3
  <2>2. IsHeld(effects[i])
    BY DEF IInv, EffectsAreHeld
  <2> QED
    BY <1>1, <2>1, <2>2 DEF IsHeld
<1> QED
  BY <1>2, <1>3

\* The history after an effect of a call that runs.
LEMMA AppendEffect ==
  ASSUME IInv, NEW c \in Callers, Running(c), call[c].pc # "returned",
         call[c].body \in LobbyContents => ~ActorIsOver,
         NEW status \in Outcomes, NEW e,
         e = [command |-> <<call[c].id, call[c].body>>, status |-> status],
         effects' = Effect(c, status)
  PROVE  /\ e.command = <<call[c].id, call[c].body>> /\ e.status = status
         /\ e.command[1] = call[c].id /\ e.command[2] = call[c].body
         /\ effects' \in Seq(Effects)
         /\ DOMAIN effects \subseteq DOMAIN effects'
         /\ \A i \in DOMAIN effects : effects'[i] = effects[i]
         /\ \A i \in DOMAIN effects' : i \in DOMAIN effects \/ effects'[i] = e
         /\ AcceptedOnce'
<1>1. e \in Effects /\ e.command = <<call[c].id, call[c].body>> /\ e.status = status
  BY DEF IInv, RunningOwns, Typed, Call, Effects
<1>2. effects \in Seq(Effects) /\ effects' = Append(effects, e)
  BY DEF IInv, Typed, Effect
<1>3. \A i \in DOMAIN effects :
        effects[i].command = e.command =>
          effects[i].status = "failed" /\ effects[i].command[2] \notin LobbyContents
  BY <1>1, Undecided
<1> HIDE DEF Effects
<1>4. /\ effects' \in Seq(Effects) /\ Len(effects) \in Nat
      /\ DOMAIN effects = 1 .. Len(effects) /\ DOMAIN effects' = 1 .. Len(effects) + 1
      /\ effects'[Len(effects) + 1] = e
      /\ \A i \in DOMAIN effects : effects'[i] = effects[i]
  BY <1>1, <1>2
<1>5. /\ \A i \in DOMAIN effects' : i \in DOMAIN effects \/ effects'[i] = e
      /\ \A i, j \in DOMAIN effects' : i < j => i \in DOMAIN effects
  BY <1>4
<1>6. AcceptedOnce'
  <2> SUFFICES ASSUME NEW i \in DOMAIN effects', NEW j \in DOMAIN effects', i < j,
                      effects'[i].command = effects'[j].command
               PROVE  /\ effects'[i].status = "failed"
                      /\ effects'[i].command[2] \notin LobbyContents
    BY DEF AcceptedOnce
  <2>1. i \in DOMAIN effects /\ effects'[i] = effects[i]
    BY <1>4, <1>5
  <2>2. CASE j \in DOMAIN effects
    BY <1>4, <2>1, <2>2 DEF IInv, AcceptedOnce
  <2>3. CASE effects'[j] = e
    BY <1>3, <2>1, <2>3
  <2> QED
    BY <1>5, <2>2, <2>3
<1> QED
  BY <1>1, <1>4, <1>5, <1>6

\* A call is told a decision by an execution of its own, and has its effect,
\* if any, in the same step.
LEMMA DecideStep ==
  ASSUME IInv, Typed', ActorHolds', UNCHANGED <<entries, entry>>,
         NEW c \in Callers, Running(c), call[c].pc # "returned",
         \A d \in Callers : d # c => call'[d] = call[d],
         call'[c].pc = "returned", call'[c].id = call[c].id, call'[c].body = call[c].body,
         NEW status \in Decided, call'[c].result.status = status,
         effects' = effects \/ effects' = Effect(c, status),
         call[c].body \in LobbyContents => ~ActorIsOver /\ ~ActorIsOver',
         At(c, "admitted") => loop.pc # "panicked",
         loop.pc = "panicked" => loop'.pc = "panicked",
         ActorIsOver => ActorIsOver', loop'.pc = "done" <=> loop.pc = "done"
  PROVE  IInv'
<1> PICK e : e = [command |-> <<call[c].id, call[c].body>>, status |-> status]
  OBVIOUS
<1>1. \A d \in Callers : ~(IsDecided(d) /\ SameCommand(d, c))
  BY Undecided
<1>2. /\ call[c].id \in CommandIDs /\ call[c].body # "none" /\ entries[call[c].id] = c
      /\ entry[c].body = call[c].body /\ ~entry[c].completed /\ ~IsDeadline(c)
      /\ call[c].pc \in {"routing", "submitting", "admitted"} /\ c # None
  BY DEF IInv, RunningOwns, Running, Callers, None
<1>3. /\ e.command[1] = call[c].id /\ e.command[2] = call[c].body /\ e.status = status
      /\ \A i \in DOMAIN effects : i \in DOMAIN effects' /\ effects'[i] = effects[i]
      /\ \A i \in DOMAIN effects' : i \in DOMAIN effects \/ effects'[i] = e
      /\ AcceptedOnce'
  <2>1. CASE effects' = effects
    BY <2>1 DEF IInv, AcceptedOnce
  <2>2. CASE effects' = Effect(c, status)
    BY <2>2, AppendEffect DEF Decided, Outcomes
  <2> QED
    BY <2>1, <2>2
<1>4. \A d \in Callers : /\ IsDeadline(d)' <=> IsDeadline(d)
                         /\ Running(d)' <=> Running(d)
                         /\ IsDecided(d)' <=> IsDecided(d) \/ d = c
                         /\ call'[d].id = call[d].id /\ call'[d].body = call[d].body
                         /\ IsDecided(d) => d # c
                         /\ call[d].pc \in {"returned", "answered", "idle", "waiting"} =>
                              call'[d] = call[d]
                         /\ call'[d].pc = "waiting" => call'[d] = call[d]
                         /\ call'[d].pc = "idle" <=> call[d].pc = "idle"
                         /\ call'[d].pc = "armed" => call[d].pc = "armed"
  BY <1>2 DEF IsDeadline, Running, IsDecided
<1>6. RunningOwns'
  BY <1>4 DEF IInv, RunningOwns
<1>7. EntriesAreOwned'
  BY <1>4 DEF IInv, EntriesAreOwned, Typed
<1>8. CompletedAnswered'
  BY <1>4 DEF IInv, CompletedAnswered, At
<1>9. IdleIsFresh'
  BY <1>4 DEF IInv, IdleIsFresh, At
<1>10. WaitersMatch'
  BY <1>4 DEF IInv, WaitersMatch, At
<1>11. EvictedIsClosed'
  BY DEF IInv, EvictedIsClosed
<1>12. EffectsHaveAuthors'
  <2>1. ASSUME NEW i \in DOMAIN effects
        PROVE  \E d \in Callers : IsAuthor(d, effects[i])'
    <3>1. PICK d \in Callers : IsAuthor(d, effects[i])
      BY DEF IInv, EffectsHaveAuthors
    <3>2. d # c
      BY <1>2, <3>1 DEF IsAuthor, At
    <3> QED
      BY <1>3, <1>4, <3>1, <3>2 DEF IsAuthor, At
  <2>2. IsAuthor(c, e)'
    BY <1>2, <1>3, <1>4 DEF IsAuthor
  <2> QED
    BY <1>3, <2>1, <2>2 DEF EffectsHaveAuthors
<1>13. EffectsAreHeld'
  <2>1. ASSUME NEW i \in DOMAIN effects, NEW f, f = effects[i]
        PROVE  IsHeld(f)'
    <3>1. f.command[1] \in CommandIDs /\ IsHeld(f)
      BY <2>1, EffectFacts
    <3>2. entries[f.command[1]] \in Callers \union {None}
      BY <3>1 DEF IInv, Typed
    <3> QED
      BY <1>4, <3>1, <3>2 DEF IsHeld
  <2>2. IsHeld(e)'
    BY <1>2, <1>3 DEF IsHeld
  <2> QED
    BY <1>3, <2>1, <2>2 DEF EffectsAreHeld
<1>15. DecisionsAreHeld'
  BY <1>2, <1>4 DEF IInv, DecisionsAreHeld, SameCommand, Typed
<1>16. DecisionsAgree'
  BY <1>1, <1>4 DEF IInv, DecisionsAgree, SameCommand
<1>17. ForgottenWhenAnswered'
  BY <1>4 DEF IInv, ForgottenWhenAnswered, ActorIsOver
<1>18. ForgottenWhenClosed'
  BY <1>4 DEF IInv, ForgottenWhenClosed, Typed
<1> QED
  BY <1>3, <1>6, <1>7, <1>8, <1>9, <1>10, <1>11, <1>12, <1>13, <1>15, <1>16, <1>17, <1>18
  DEF IInv

\* A command of a game room took effect and is answered as a failure.
LEMMA FailStep ==
  ASSUME IInv, Typed', ActorHolds', UNCHANGED <<entries, entry, loop>>,
         NEW c \in Callers, Running(c), call[c].pc = "routing",
         call[c].body \notin LobbyContents,
         \A d \in Callers : d # c => call'[d] = call[d], QuietMove(c),
         call'[c].pc = "returned", call'[c].result.status = "failed",
         effects' = Effect(c, "failed")
  PROVE  IInv'
<1> PICK e : e = [command |-> <<call[c].id, call[c].body>>, status |-> "failed"]
  OBVIOUS
<1>1. CallInv'
  BY QuietCalls DEF ActorIsOver
<1>2. /\ e.command[1] = call[c].id /\ e.command[2] = call[c].body /\ e.status = "failed"
      /\ \A i \in DOMAIN effects' : i \in DOMAIN effects \/ effects'[i] = e
      /\ \A i \in DOMAIN effects : effects'[i] = effects[i]
      /\ AcceptedOnce'
  BY AppendEffect DEF Outcomes
<1>3. ASSUME NEW i \in DOMAIN effects, NEW f, f = effects[i]
      PROVE  (\E d \in Callers : IsAuthor(d, f)') /\ IsHeld(f)'
  BY <1>3, QuietEffects DEF ActorIsOver
<1>4. IsAuthor(c, e)' /\ IsHeld(e)'
  <2>1. /\ call[c].body # "none" /\ entry[c].body = call[c].body /\ ~IsDeadline(c)
        /\ call'[c].id = call[c].id /\ call'[c].body = call[c].body
    BY DEF IInv, RunningOwns, Running, QuietMove
  <2> QED
    BY <1>2, <2>1 DEF IsAuthor, IsHeld, IsDeadline
<1>5. EffectsHaveAuthors' /\ EffectsAreHeld'
  BY <1>2, <1>3, <1>4 DEF EffectsHaveAuthors, EffectsAreHeld
<1> QED
  BY <1>1, <1>2, <1>5 DEF IInv, CallInv

\* A command panicked in the actor after it had taken effect.
LEMMA PanicStep ==
  ASSUME IInv, Typed', ActorHolds', UNCHANGED <<call, entries, entry>>,
         loop.pc = "executing", loop'.pc = "panicked",
         NEW c \in Callers, c = loop.request, ~IsDeadline(c),
         effects' = Effect(c, "panicked")
  PROVE  IInv'
<1> PICK e : e = [command |-> <<call[c].id, call[c].body>>, status |-> "panicked"]
  OBVIOUS
<1>1. /\ call[c].pc = "admitted" /\ ForActor(c) /\ Running(c)
  BY DEF IInv, ActorHolds, Running, At
<1>2. /\ call[c].body # "none" /\ call[c].body \in LobbyContents
      /\ entry[c].body = call[c].body
  BY <1>1 DEF IInv, RunningOwns, ForActor
<1>3. /\ e.command[1] = call[c].id /\ e.command[2] = call[c].body /\ e.status = "panicked"
      /\ \A i \in DOMAIN effects' : i \in DOMAIN effects \/ effects'[i] = e
      /\ \A i \in DOMAIN effects : effects'[i] = effects[i]
      /\ AcceptedOnce'
  BY <1>1, AppendEffect DEF Outcomes, ActorIsOver
<1>4. CallInv'
  BY QuietCalls DEF ActorIsOver
<1>5. ASSUME NEW i \in DOMAIN effects, NEW f, f = effects[i]
      PROVE  (\E d \in Callers : IsAuthor(d, f)') /\ IsHeld(f)'
  BY <1>5, QuietEffects DEF ActorIsOver
<1>6. IsAuthor(c, e)' /\ IsHeld(e)'
  BY <1>1, <1>2, <1>3 DEF IsAuthor, IsHeld, At, IsDeadline, ActorIsOver
<1>7. EffectsHaveAuthors' /\ EffectsAreHeld'
  BY <1>3, <1>5, <1>6 DEF EffectsHaveAuthors, EffectsAreHeld
<1> QED
  BY <1>3, <1>4, <1>7 DEF IInv, CallInv

LEMMA ExecutedResults ==
  ASSUME NEW status \in Outcomes, effects' \in Seq(Effects)
  PROVE  /\ Executed(status, effects') \in Results
         /\ Executed(status, effects').status = status
<1>1. Len(effects') \in Nat
  BY DEF Effects
<1> QED
  BY <1>1 DEF Executed, Results, Outcomes

LEMMA ExecuteDirectInv ==
  ASSUME IInv, NEW c \in Callers, ExecuteDirect(c)
  PROVE  IInv'
<1>1. PICK status \in Outcomes \ {"panicked"} :
        /\ effects' = Effect(c, status) \/ effects' = effects
        /\ Return(c, "returned", Executed(status, effects'))
  BY DEF ExecuteDirect
<1>2. /\ UNCHANGED <<entries, entry, stop, loop>> /\ Typed /\ call[c].pc = "routing"
      /\ ~IsDeadline(c) /\ call[c].body \notin LobbyContents /\ Running(c)
  BY DEF ExecuteDirect, IInv, At, ForActor, Running
<1>3. effects' \in Seq(Effects)
  BY <1>1, <1>2, AppendEffect DEF Typed
<1>4. /\ Executed(status, effects') \in Results /\ Executed(status, effects').status = status
  BY <1>3, ExecutedResults
<1>5. /\ call' \in [Callers -> Call]
      /\ \A d \in Callers : d # c => call'[d] = call[d]
      /\ call'[c].pc = "returned" /\ call'[c].id = call[c].id /\ call'[c].body = call[c].body
      /\ call'[c].result.status = status
  BY <1>1, <1>2, <1>4, ReturnFacts DEF Places
<1>6. Typed'
  BY <1>2, <1>3, <1>5 DEF Typed
<1>7. ActorHolds'
  BY <1>2, <1>5 DEF IInv, ActorHolds, At, ForActor, IsDeadline
<1>8. CASE status = "failed"
  <2>1. QuietMove(c)
    BY <1>2, <1>5, <1>8 DEF QuietMove, Decided
  <2>2. CASE effects' = effects
    BY <1>2, <1>5, <1>6, <2>1, <2>2, CallStep
  <2>3. CASE effects' = Effect(c, status)
    BY <1>2, <1>5, <1>6, <1>7, <1>8, <2>1, <2>3, FailStep
  <2> QED
    BY <1>1, <2>2, <2>3
<1>9. CASE status \in Decided
  BY <1>1, <1>2, <1>5, <1>6, <1>7, <1>9, DecideStep DEF At, ActorIsOver
<1> QED
  BY <1>8, <1>9 DEF Outcomes, Decided

LEMMA ExecuteInv ==
  ASSUME IInv, Execute
  PROVE  IInv'
<1> DEFINE c == loop.request
<1>1. PICK status \in Outcomes :
        /\ \/ /\ ~IsDeadline(c) /\ status \in {"accepted", "panicked"}
              /\ effects' = Effect(c, status)
           \/ (status # "accepted" \/ IsDeadline(c)) /\ UNCHANGED effects
        /\ IF status = "panicked"
           THEN loop' = [loop EXCEPT !.pc = "panicked"] /\ UNCHANGED call
           ELSE /\ loop' = [pc |-> "select", request |-> None]
                /\ Respond(c, Executed(status, effects'))
  BY DEF Execute
<1>2. /\ UNCHANGED <<entries, entry, stop>> /\ Typed /\ loop.pc = "executing"
      /\ c \in Callers /\ call[c].pc = "admitted" /\ ForActor(c)
      /\ Running(c) \/ IsDeadline(c)
      /\ \A d \in Callers : call[d].pc = "admitted" => d = c
  BY DEF Execute, IInv, At, ActorHolds, Running
<1>3. effects' \in Seq(Effects)
  <2> HIDE DEF c
  <2>1. CASE effects' = effects
    BY <1>2, <2>1 DEF Typed
  <2>2. CASE ~IsDeadline(c) /\ effects' = Effect(c, status)
    BY <1>2, <2>2, AppendEffect DEF ActorIsOver
  <2> QED
    BY <1>1, <2>1, <2>2
<1>4. CASE status = "panicked"
  <2>1. loop'.pc = "panicked" /\ loop'.request = c /\ UNCHANGED call
    BY <1>1, <1>2, <1>4 DEF Typed
  <2>2. Typed'
    BY <1>1, <1>2, <1>3, <1>4 DEF Typed
  <2>3. ActorHolds'
    BY <1>2, <2>1 DEF IInv, ActorHolds, At, ForActor, IsDeadline
  <2>4. CASE effects' = effects
    BY <1>2, <2>1, <2>2, <2>3, <2>4, LoopStep DEF ActorIsOver
  <2>5. CASE ~IsDeadline(c) /\ effects' = Effect(c, status)
    BY <1>2, <1>4, <2>1, <2>2, <2>3, <2>5, PanicStep
  <2> QED
    BY <1>1, <2>4, <2>5
<1>5. CASE status # "panicked"
  <2>1. /\ loop' = [pc |-> "select", request |-> None] /\ loop'.pc = "select"
        /\ loop'.request = None /\ Respond(c, Executed(status, effects'))
    BY <1>1, <1>5
  <2>2. /\ Executed(status, effects') \in Results /\ Executed(status, effects').status = status
    BY <1>3, ExecutedResults
  <2>3. CASE status \notin Decided \/ IsDeadline(c)
    <3>1. UNCHANGED effects
      BY <1>1, <1>5, <2>3 DEF Decided
    <3> QED
      BY <1>2, <2>1, <2>2, <2>3, <3>1, AnswerStep
  <2>4. CASE status \in Decided /\ ~IsDeadline(c)
    <3>1. Return(c, "returned", Executed(status, effects'))
      BY <1>2, <2>1 DEF Respond, At
    <3> HIDE DEF c
    <3>2. /\ call' \in [Callers -> Call]
          /\ \A d \in Callers : d # c => call'[d] = call[d]
          /\ call'[c].pc = "returned" /\ call'[c].id = call[c].id
          /\ call'[c].body = call[c].body
          /\ call'[c].result.status = status
      BY <1>2, <2>2, <3>1, ReturnFacts DEF Places
    <3>3. Typed'
      BY <1>2, <1>3, <2>1, <3>2 DEF Typed
    <3>4. ActorHolds'
      BY <1>2, <2>1, <3>2 DEF IInv, ActorHolds, At, ForActor, IsDeadline
    <3>5. ~ActorIsOver /\ ~ActorIsOver' /\ Running(c)
      BY <1>2, <2>1, <2>4 DEF ActorIsOver
    <3> QED
      BY <1>1, <1>2, <2>1, <2>4, <3>2, <3>3, <3>4, <3>5, DecideStep DEF At
  <2> QED
    BY <2>3, <2>4
<1> QED
  BY <1>4, <1>5
-----------------------------------------------------------------------------
(* Calls that own no entry *)

\* A duplicate, a refused call or a deadline moves on; nothing depends on it.
LEMMA AsideStep ==
  ASSUME IInv, Typed', UNCHANGED <<entries, entry, loop, effects>>, NEW c \in Callers,
         \A d \in Callers : d # c => call'[d] = call[d],
         At(c, "idle") \/ At(c, "waiting") \/ (At(c, "returned") /\ IsDeadline(c)),
         ~At(c, "idle") => call'[c].id = call[c].id /\ call'[c].body = call[c].body,
         call'[c].pc \in {"waiting", "armed", "answered"},
         call'[c].pc = "armed" => IsDeadline(c)',
         call'[c].pc = "waiting" =>
           LET e == call'[c].waitsFor IN
           /\ ~IsDeadline(c)' /\ e \in Callers /\ e # c /\ ~At(e, "idle")
           /\ entry[e].body = call'[c].body
           /\ call[e].body = call'[c].body /\ call[e].id = call'[c].id,
         IsDecided(c)' =>
           \E d \in Callers : /\ d # c /\ IsDecided(d) /\ call[d].result = call'[c].result
                              /\ call[d].id = call'[c].id /\ call[d].body = call'[c].body
  PROVE  IInv'
<1>1. /\ ~Running(c) /\ ~Running(c)' /\ ~IsDecided(c) /\ ~entry[c].completed
      /\ call[c].pc \notin {"submitting", "admitted", "armed"}
  BY DEF Running, IsDecided, At, IInv, CompletedAnswered, IsDeadline
<1>2. \A d \in Callers : d # c =>
        /\ IsDeadline(d)' <=> IsDeadline(d)
        /\ Running(d)' <=> Running(d)
        /\ IsDecided(d)' <=> IsDecided(d)
        /\ ForActor(d)' <=> ForActor(d)
  BY DEF IsDeadline, Running, IsDecided, ForActor
<1>3. RunningOwns'
  BY <1>1, <1>2 DEF IInv, RunningOwns
<1>4. EntriesAreOwned'
  <2>1. \A id \in CommandIDs : entries[id] # c
    BY <1>1 DEF IInv, EntriesAreOwned, Callers, None
  <2> QED
    BY <1>2, <2>1 DEF IInv, EntriesAreOwned, Typed
<1>5. CompletedAnswered'
  BY <1>1, <1>2 DEF IInv, CompletedAnswered, At
<1>6. IdleIsFresh'
  BY <1>2 DEF IInv, IdleIsFresh, At
<1>7. WaitersMatch'
  <2>1. ASSUME NEW d \in Callers, d # c, call[d].pc = "waiting"
        PROVE  /\ call[d].waitsFor \in Callers
               /\ call[call[d].waitsFor].pc # "idle" /\ call'[call[d].waitsFor].pc # "idle"
               /\ call'[call[d].waitsFor].body = call[d].body
               /\ call'[call[d].waitsFor].id = call[d].id
    BY <2>1 DEF IInv, WaitersMatch, At
  <2>2. ASSUME call'[c].pc = "waiting"
        PROVE  LET e == call'[c].waitsFor IN
               /\ ~IsDeadline(c)' /\ e \in Callers /\ call'[e].pc # "idle"
               /\ entry'[e].body = call'[c].body
               /\ call'[e].body = call'[c].body /\ call'[e].id = call'[c].id
    BY <2>2 DEF At
  <2> QED
    BY <1>2, <2>1, <2>2 DEF IInv, WaitersMatch, At
<1>8. ActorHolds'
  BY <1>1, <1>2 DEF IInv, ActorHolds, At
<1>9. EvictedIsClosed' /\ AcceptedOnce'
  BY DEF IInv, EvictedIsClosed, AcceptedOnce
<1>10. EffectsHaveAuthors'
  <2>1. ASSUME NEW i \in DOMAIN effects
        PROVE  \E d \in Callers : IsAuthor(d, effects[i])'
    <3>1. PICK d \in Callers : IsAuthor(d, effects[i])
      BY DEF IInv, EffectsHaveAuthors
    <3>2. d # c
      BY <3>1 DEF IsAuthor, At, IsDeadline
    <3> QED
      BY <1>2, <3>1, <3>2 DEF IsAuthor, At
  <2> QED
    BY <2>1 DEF EffectsHaveAuthors
<1>11. EffectsAreHeld'
  <2> SUFFICES ASSUME NEW i \in DOMAIN effects, NEW e, e = effects[i]
               PROVE  IsHeld(e)'
    BY DEF EffectsAreHeld
  <2>1. e.command[1] \in CommandIDs /\ IsHeld(e)
    BY EffectFacts
  <2>2. entries[e.command[1]] \in Callers \union {None} /\ entries[e.command[1]] # c
    BY <1>1, <2>1 DEF IInv, EntriesAreOwned, Typed, Callers, None
  <2> QED
    BY <2>1, <2>2 DEF IsHeld, ActorIsOver
<1>12. DecisionsAreHeld'
  <2>1. ASSUME NEW d \in Callers, IsDecided(d)
        PROVE  \/ call[d].body \in LobbyContents /\ ActorIsOver'
               \/ LET e == entries[call[d].id] IN
                  /\ call[d].id \in CommandIDs /\ e # None /\ IsDecided(e)'
                  /\ call'[e].id = call[d].id /\ call'[e].body = call[d].body
    BY <1>1, <1>2, <2>1 DEF IInv, DecisionsAreHeld, SameCommand, Typed, ActorIsOver
  <2> QED
    BY <1>1, <1>2, <2>1 DEF DecisionsAreHeld, SameCommand
<1>13. DecisionsAgree'
  <2>1. \A d, e \in Callers : IsDecided(d) /\ IsDecided(e) /\ SameCommand(d, e)
                                => call[d].result = call[e].result
    BY DEF IInv, DecisionsAgree
  <2>2. ASSUME NEW d \in Callers, d # c, IsDecided(c)', IsDecided(d)', SameCommand(c, d)'
        PROVE  call'[c].result = call'[d].result
    BY <1>2, <2>1, <2>2 DEF SameCommand
  <2> QED
    BY <1>1, <1>2, <2>1, <2>2 DEF DecisionsAgree, SameCommand
<1>14. ForgottenWhenAnswered' /\ ForgottenWhenClosed'
  <2>1. \A id \in CommandIDs : entries[id] # c
    BY <1>1 DEF IInv, EntriesAreOwned, Callers, None
  <2> QED
    BY <1>1, <1>2, <2>1 DEF IInv, ForgottenWhenAnswered, ForgottenWhenClosed, Typed
<1> QED
  BY <1>3, <1>4, <1>5, <1>6, <1>7, <1>8, <1>9, <1>10, <1>11, <1>12, <1>13, <1>14 DEF IInv

LEMMA WaitInv ==
  ASSUME IInv, NEW c \in Callers, Wait(c)
  PROVE  IInv'
<1> DEFINE first == call[c].waitsFor
<1>1. /\ UNCHANGED <<entries, entry, stop, loop, effects>> /\ Typed /\ At(c, "waiting")
      /\ ~IsDeadline(c) /\ first \in Callers
      /\ call[first].body = call[c].body /\ call[first].id = call[c].id
  BY DEF Wait, IInv, WaitersMatch
<1>2. ASSUME NEW result \in Results, Return(c, "answered", result),
             result.status \in Decided => entry[first].completed /\ result = entry[first].result
      PROVE  IInv'
  <2>1. /\ call' \in [Callers -> Call]
        /\ \A d \in Callers : d # c => call'[d] = call[d]
        /\ call'[c].pc = "answered" /\ call'[c].id = call[c].id /\ call'[c].body = call[c].body
        /\ call'[c].result = result
    BY <1>1, <1>2, ReturnFacts DEF Places
  <2>2. Typed'
    BY <1>1, <2>1 DEF Typed
  <2>3. ASSUME IsDecided(c)'
        PROVE  /\ first # c /\ IsDecided(first) /\ call[first].result = call'[c].result
               /\ call[first].id = call'[c].id /\ call[first].body = call'[c].body
    <3>1. entry[first].completed /\ result = entry[first].result /\ result.status \in Decided
      BY <1>2, <2>1, <2>3 DEF IsDecided
    <3>2. /\ call[first].pc = "answered" /\ ~IsDeadline(first)
          /\ call[first].result = result
      BY <1>1, <3>1 DEF IInv, CompletedAnswered, At
    <3> QED
      BY <1>1, <2>1, <3>1, <3>2 DEF IsDecided, At
  <2> QED
    BY <1>1, <2>1, <2>2, <2>3, AsideStep DEF At
<1>3. CASE entry[first].completed /\ Return(c, "answered", entry[first].result)
  <2>1. entry[first].result \in Results
    BY <1>1 DEF Typed, Entry
  <2> QED
    BY <1>2, <1>3, <2>1
<1>4. CASE Return(c, "answered", Result("cancelled"))
  <2>1. Result("cancelled") \in Results /\ Result("cancelled").status \notin Decided
    BY ErrorResults
  <2> QED
    BY <1>2, <1>4, <2>1
<1> QED
  BY <1>3, <1>4 DEF Wait

LEMMA ScheduleInv ==
  ASSUME IInv, NEW c \in Callers, Schedule(c)
  PROVE  IInv'
<1>1. /\ UNCHANGED <<entries, entry, stop, loop, effects>> /\ Typed /\ At(c, "idle")
  BY DEF Schedule, IInv, NextCaller
<1> DEFINE r == [call[c] EXCEPT !.pc = "armed", !.id = DeadlineID]
<1>2. call[c] \in Call /\ call \in [Callers -> Call] /\ DeadlineID \notin CommandIDs
  BY <1>1, PathAssumption DEF Typed
<1>3. r \in Call /\ r.pc = "armed" /\ r.id = DeadlineID
  BY <1>2 DEF Call, Places
<1>4. call' = [call EXCEPT ![c] = r]
  BY <1>2 DEF Schedule
<1> HIDE DEF r
<1>5. /\ call' \in [Callers -> Call] /\ \A d \in Callers : d # c => call'[d] = call[d]
      /\ call'[c].pc = "armed" /\ call'[c].id = DeadlineID
  BY <1>2, <1>3, <1>4
<1>6. Typed'
  BY <1>1, <1>5 DEF Typed
<1>7. IsDeadline(c)' /\ ~IsDecided(c)'
  BY <1>5 DEF IsDeadline, IsDecided
<1> QED
  BY <1>1, <1>5, <1>6, <1>7, AsideStep

LEMMA DeadlineFinishInv ==
  ASSUME IInv, NEW c \in Callers, DeadlineFinish(c)
  PROVE  IInv'
<1>1. /\ UNCHANGED <<entries, entry, stop, loop, effects>> /\ Typed /\ At(c, "returned")
      /\ IsDeadline(c) /\ Return(c, "answered", NoResult)
  BY DEF DeadlineFinish, IInv
<1>2. NoResult \in Results
  BY DEF NoResult, Results
<1>3. /\ call' \in [Callers -> Call]
      /\ \A d \in Callers : d # c => call'[d] = call[d]
      /\ call'[c].pc = "answered" /\ call'[c].id = call[c].id /\ call'[c].body = call[c].body
      /\ call'[c].result = NoResult
  BY <1>1, <1>2, ReturnFacts DEF Places
<1>4. Typed'
  BY <1>1, <1>3 DEF Typed
<1>5. ~IsDecided(c)'
  BY <1>1, <1>3 DEF IsDecided, IsDeadline
<1> QED
  BY <1>1, <1>3, <1>4, <1>5, AsideStep DEF At

\* A call that begins: a known command is a conflict or is waited for.
LEMMA KnownInv ==
  ASSUME IInv, NEW c \in Callers, NEW id \in CommandIDs, NEW body \in Contents,
         At(c, "idle"), UNCHANGED <<entries, entry, stop, loop, effects>>, entries[id] # None,
         \/ call' = [call EXCEPT ![c] =
                      [call[c] EXCEPT !.id = id, !.body = body, !.pc = "answered",
                                      !.result = Result("conflict")]]
         \/ /\ entry[entries[id]].body = body
            /\ call' = [call EXCEPT ![c] =
                         [call[c] EXCEPT !.id = id, !.body = body, !.pc = "waiting",
                                         !.waitsFor = entries[id]]]
  PROVE  IInv'
<1> DEFINE known == entries[id]
<1>1. /\ Typed /\ call[c] \in Call /\ call \in [Callers -> Call] /\ known \in Callers
      /\ id # DeadlineID
  BY PathAssumption DEF IInv, Typed
<1>2. /\ call[known].id = id /\ call[known].body = entry[known].body
      /\ ~At(known, "idle") /\ known # c
  BY <1>1 DEF IInv, EntriesAreOwned, CompletedAnswered, Running, At
<1>3. CASE call' = [call EXCEPT ![c] =
                     [call[c] EXCEPT !.id = id, !.body = body, !.pc = "answered",
                                     !.result = Result("conflict")]]
  <2> DEFINE r == [call[c] EXCEPT !.id = id, !.body = body, !.pc = "answered",
                                  !.result = Result("conflict")]
  <2>1. Result("conflict") \in Results /\ Result("conflict").status \notin Decided
    BY ErrorResults
  <2>2. r \in Call /\ r.pc = "answered" /\ r.result.status \notin Decided
    BY <1>1, <2>1 DEF Call, Places
  <2>3. call' = [call EXCEPT ![c] = r]
    BY <1>3
  <2> HIDE DEF r
  <2>4. /\ call' \in [Callers -> Call] /\ \A d \in Callers : d # c => call'[d] = call[d]
        /\ call'[c].pc = "answered" /\ call'[c].result.status \notin Decided
    BY <1>1, <2>2, <2>3
  <2>5. Typed'
    BY <1>1, <2>4 DEF Typed
  <2>6. ~IsDecided(c)'
    BY <2>4 DEF IsDecided
  <2> QED
    BY <2>4, <2>5, <2>6, AsideStep
<1>4. CASE /\ entry[known].body = body
           /\ call' = [call EXCEPT ![c] =
                        [call[c] EXCEPT !.id = id, !.body = body, !.pc = "waiting",
                                        !.waitsFor = known]]
  <2> DEFINE r == [call[c] EXCEPT !.id = id, !.body = body, !.pc = "waiting",
                                  !.waitsFor = known]
  <2>1. r \in Call /\ r.pc = "waiting" /\ r.id = id /\ r.body = body /\ r.waitsFor = known
    BY <1>1 DEF Call, Places
  <2>2. call' = [call EXCEPT ![c] = r]
    BY <1>4
  <2> HIDE DEF r
  <2>3. /\ call' \in [Callers -> Call] /\ \A d \in Callers : d # c => call'[d] = call[d]
        /\ call'[c].pc = "waiting" /\ call'[c].id = id /\ call'[c].body = body
        /\ call'[c].waitsFor = known
    BY <1>1, <2>1, <2>2
  <2>4. Typed'
    BY <1>1, <2>3 DEF Typed
  <2>5. ~IsDecided(c)' /\ ~IsDeadline(c)'
    BY <1>1, <2>3 DEF IsDecided, IsDeadline
  <2> HIDE DEF known
  <2> QED
    BY <1>1, <1>2, <1>4, <2>3, <2>4, <2>5, AsideStep
<1> QED
  BY <1>3, <1>4
-----------------------------------------------------------------------------
(* The entries *)

\* A command that is not known gets its entry.
LEMMA NewEntryInv ==
  ASSUME IInv, NEW c \in Callers, NEW id \in CommandIDs, NEW body \in Contents,
         At(c, "idle"), body # "none", UNCHANGED <<stop, loop, effects>>, entries[id] = None,
         call' = [call EXCEPT ![c] =
                   [call[c] EXCEPT !.id = id, !.body = body, !.pc = "routing"]],
         entries' = [entries EXCEPT ![id] = c],
         entry' = [entry EXCEPT ![c] = [NoEntry EXCEPT !.body = body]]
  PROVE  IInv'
<1> DEFINE r == [call[c] EXCEPT !.id = id, !.body = body, !.pc = "routing"]
           n == [NoEntry EXCEPT !.body = body]
<1>1. /\ Typed /\ call[c] \in Call /\ call \in [Callers -> Call] /\ id # DeadlineID
      /\ entry \in [Callers -> Entry] /\ entries \in [CommandIDs -> Callers \union {None}]
      /\ c # None
  BY PathAssumption DEF IInv, Typed, Callers, None
<1>2. r \in Call /\ r.pc = "routing" /\ r.id = id /\ r.body = body
  BY <1>1 DEF Call, Places
<1>3. n \in Entry /\ n.body = body /\ ~n.completed /\ ~n.evict
  BY DEF NoEntry, Entry, NoResult, Results
<1>4. call' = [call EXCEPT ![c] = r] /\ entry' = [entry EXCEPT ![c] = n]
  OBVIOUS
<1> HIDE DEF r, n
<1>5. /\ call' \in [Callers -> Call] /\ entry' \in [Callers -> Entry]
      /\ entries' \in [CommandIDs -> Callers \union {None}]
      /\ \A d \in Callers : d # c => call'[d] = call[d] /\ entry'[d] = entry[d]
      /\ \A i \in CommandIDs : i # id => entries'[i] = entries[i]
      /\ call'[c].pc = "routing" /\ call'[c].id = id /\ call'[c].body = body
      /\ entries'[id] = c /\ entry'[c].body = body
      /\ ~entry'[c].completed /\ ~entry'[c].evict
  <2>1. /\ call' \in [Callers -> Call]
        /\ \A d \in Callers : d # c => call'[d] = call[d]
        /\ call'[c].pc = "routing" /\ call'[c].id = id /\ call'[c].body = body
    BY <1>1, <1>2, <1>4
  <2>2. /\ entry' \in [Callers -> Entry]
        /\ \A d \in Callers : d # c => entry'[d] = entry[d]
        /\ entry'[c].body = body /\ ~entry'[c].completed /\ ~entry'[c].evict
    <3>1. entry'[c] = n /\ \A d \in Callers : d # c => entry'[d] = entry[d]
      BY <1>1, <1>4
    <3>2. entry' \in [Callers -> Entry]
      BY <1>1, <1>3, <1>4
    <3> QED
      BY <1>3, <3>1, <3>2
  <2>3. /\ entries' \in [CommandIDs -> Callers \union {None}]
        /\ \A i \in CommandIDs : i # id => entries'[i] = entries[i]
        /\ entries'[id] = c
    BY <1>1
  <2> QED
    BY <2>1, <2>2, <2>3
<1>6. Typed'
  BY <1>1, <1>5 DEF Typed
<1>7. /\ ~Running(c) /\ Running(c)' /\ ~IsDecided(c) /\ ~IsDecided(c)' /\ ~entry[c].completed
      /\ \A i \in CommandIDs : entries[i] # c
  BY <1>1, <1>5 DEF Running, IsDecided, IsDeadline, At, IInv, CompletedAnswered, EntriesAreOwned
<1>8. \A d \in Callers : d # c =>
        /\ IsDeadline(d)' <=> IsDeadline(d)
        /\ Running(d)' <=> Running(d)
        /\ IsDecided(d)' <=> IsDecided(d)
        /\ ForActor(d)' <=> ForActor(d)
  BY <1>5 DEF IsDeadline, Running, IsDecided, ForActor
<1>9. RunningOwns'
  <2>1. ASSUME NEW d \in Callers, d # c, Running(d)
        PROVE  call[d].id \in CommandIDs /\ call[d].id # id /\ entries[call[d].id] = d
    BY <2>1 DEF IInv, RunningOwns, Callers, None
  <2> QED
    BY <1>5, <1>8, <2>1 DEF IInv, RunningOwns
<1>10. EntriesAreOwned'
  <2>1. ASSUME NEW i \in CommandIDs, i # id, entries[i] # None
        PROVE  entries[i] \in Callers /\ entries[i] # c /\ entries'[i] = entries[i]
    BY <1>1, <1>5, <1>7, <2>1
  <2> QED
    BY <1>5, <1>7, <1>8, <2>1 DEF IInv, EntriesAreOwned
<1>11. CompletedAnswered'
  BY <1>5, <1>8 DEF IInv, CompletedAnswered, At
<1>12. IdleIsFresh'
  BY <1>5, <1>8 DEF IInv, IdleIsFresh, At
<1>13. WaitersMatch'
  <2>1. ASSUME NEW d \in Callers, d # c, call[d].pc = "waiting"
        PROVE  call[d].waitsFor \in Callers /\ call[d].waitsFor # c
    BY <2>1 DEF IInv, WaitersMatch, At
  <2> QED
    BY <1>5, <1>8, <2>1 DEF IInv, WaitersMatch, At
<1>14. ActorHolds'
  BY <1>5, <1>8 DEF IInv, ActorHolds, At
<1>15. EvictedIsClosed' /\ AcceptedOnce'
  BY <1>5 DEF IInv, EvictedIsClosed, AcceptedOnce
<1>16. EffectsHaveAuthors'
  <2>1. ASSUME NEW i \in DOMAIN effects
        PROVE  \E d \in Callers : IsAuthor(d, effects[i])'
    <3>1. PICK d \in Callers : IsAuthor(d, effects[i])
      BY DEF IInv, EffectsHaveAuthors
    <3>2. d # c
      BY <3>1 DEF IsAuthor, At
    <3> QED
      BY <1>5, <1>8, <3>1, <3>2 DEF IsAuthor, At
  <2> QED
    BY <2>1 DEF EffectsHaveAuthors
<1>17. EffectsAreHeld'
  <2> SUFFICES ASSUME NEW i \in DOMAIN effects, NEW e, e = effects[i]
               PROVE  IsHeld(e)'
    BY DEF EffectsAreHeld
  <2>1. e.command[1] \in CommandIDs /\ IsHeld(e)
    BY EffectFacts
  <2>2. entries[e.command[1]] # None =>
          /\ entries[e.command[1]] \in Callers /\ entries[e.command[1]] # c
          /\ entries'[e.command[1]] = entries[e.command[1]]
    BY <1>1, <1>5, <1>7, <2>1
  <2> QED
    BY <1>5, <2>1, <2>2 DEF IsHeld, ActorIsOver
<1>18. DecisionsAreHeld'
  <2>1. ASSUME NEW d \in Callers, d # c, IsDecided(d), call[d].id \in CommandIDs,
               entries[call[d].id] # None
        PROVE  /\ entries[call[d].id] \in Callers /\ entries[call[d].id] # c
               /\ entries'[call[d].id] = entries[call[d].id]
    BY <1>1, <1>5, <1>7, <2>1
  <2> QED
    BY <1>5, <1>7, <1>8, <2>1 DEF IInv, DecisionsAreHeld, SameCommand, ActorIsOver
<1>19. DecisionsAgree'
  BY <1>5, <1>7, <1>8 DEF IInv, DecisionsAgree, SameCommand
<1>20. ForgottenWhenAnswered'
  BY <1>5, <1>8 DEF IInv, ForgottenWhenAnswered
<1>21. ForgottenWhenClosed'
  <2>1. ASSUME NEW i \in CommandIDs, i # id, entries[i] # None
        PROVE  entries[i] \in Callers /\ entries[i] # c /\ entries'[i] = entries[i]
    BY <1>1, <1>5, <1>7, <2>1
  <2> QED
    BY <1>5, <1>7, <1>8, <2>1 DEF IInv, ForgottenWhenClosed
<1> QED
  BY <1>6, <1>9, <1>10, <1>11, <1>12, <1>13, <1>14, <1>15, <1>16, <1>17, <1>18, <1>19, <1>20,
     <1>21 DEF IInv

LEMMA ProcessInv ==
  ASSUME IInv, NEW c \in Callers, NEW command \in Commands,
         Process(c, command[1], command[2])
  PROVE  IInv'
<1> DEFINE id == command[1]
           body == command[2]
<1>1. id \in CommandIDs /\ body \in Contents /\ body # "none"
  BY PathAssumption DEF CommandIDs, Contents
<1>2. At(c, "idle") /\ UNCHANGED <<stop, loop, effects>>
  BY DEF Process, NextCaller
<1>3. \/ /\ entries[id] # None /\ UNCHANGED <<entries, entry>>
         /\ call' = [call EXCEPT ![c] =
                      [call[c] EXCEPT !.id = id, !.body = body, !.pc = "answered",
                                      !.result = Result("conflict")]]
      \/ /\ entries[id] # None /\ UNCHANGED <<entries, entry>> /\ entry[entries[id]].body = body
         /\ call' = [call EXCEPT ![c] =
                      [call[c] EXCEPT !.id = id, !.body = body, !.pc = "waiting",
                                      !.waitsFor = entries[id]]]
      \/ /\ entries[id] = None
         /\ call' = [call EXCEPT ![c] =
                      [call[c] EXCEPT !.id = id, !.body = body, !.pc = "routing"]]
         /\ entries' = [entries EXCEPT ![id] = c]
         /\ entry' = [entry EXCEPT ![c] = [NoEntry EXCEPT !.body = body]]
  BY DEF Process
<1> HIDE DEF id, body
<1>4. CASE entries[id] # None
  BY <1>1, <1>2, <1>3, <1>4, KnownInv
<1>5. CASE entries[id] = None
  BY <1>1, <1>2, <1>3, <1>5, NewEntryInv
<1> QED
  BY <1>4, <1>5

\* The call is answered; its entry stays when it holds a decision and the room
\* was not closed in the meantime.
LEMMA CompleteInv ==
  ASSUME IInv, NEW c \in Callers, Complete(c)
  PROVE  IInv'
<1> DEFINE result == call[c].result
           id == call[c].id
           gone == result.status \notin Decided \/ entry[c].evict
           n == [entry[c] EXCEPT !.completed = TRUE, !.result = result]
<1>1. /\ UNCHANGED <<stop, loop, effects>> /\ Typed /\ call[c].pc = "returned"
      /\ ~IsDeadline(c) /\ Running(c) /\ Goto(c, "answered") /\ c # None
  BY DEF Complete, IInv, At, Running, Callers, None
<1>2. /\ id \in CommandIDs /\ call[c].body # "none" /\ entries[id] = c
      /\ entry[c].body = call[c].body /\ ~entry[c].completed
      /\ result \in Results /\ entry[c] \in Entry /\ entry \in [Callers -> Entry]
      /\ entries \in [CommandIDs -> Callers \union {None}]
  BY <1>1 DEF IInv, RunningOwns, Typed, Call
<1>3. /\ entry' = [entry EXCEPT ![c] = n]
      /\ entries' = [entries EXCEPT ![id] = IF gone THEN None ELSE c]
  BY <1>2 DEF Complete, ShouldRetain
<1>4. /\ n \in Entry /\ n.body = entry[c].body /\ n.completed /\ n.evict = entry[c].evict
      /\ n.result = result
  BY <1>2 DEF Entry
<1>5. /\ call' \in [Callers -> Call]
      /\ \A d \in Callers : d # c => call'[d] = call[d]
      /\ call'[c].pc = "answered" /\ call'[c].id = id /\ call'[c].body = call[c].body
      /\ call'[c].waitsFor = call[c].waitsFor /\ call'[c].result = result
  BY <1>1, GotoFacts DEF Places
<1> HIDE DEF n, id, result, gone
<1>6. /\ entry' \in [Callers -> Entry] /\ entries' \in [CommandIDs -> Callers \union {None}]
      /\ \A d \in Callers : d # c => entry'[d] = entry[d]
      /\ \A i \in CommandIDs : i # id => entries'[i] = entries[i]
      /\ entries'[id] = IF gone THEN None ELSE c
      /\ entry'[c].body = call[c].body /\ entry'[c].completed
      /\ entry'[c].evict = entry[c].evict /\ entry'[c].result = result
  BY <1>2, <1>3, <1>4
<1>7. Typed'
  BY <1>1, <1>5, <1>6 DEF Typed
<1>8. /\ ~Running(c)' /\ ~IsDeadline(c)' /\ (IsDecided(c)' <=> IsDecided(c))
      /\ \A d \in Callers : d # c =>
           /\ IsDeadline(d)' <=> IsDeadline(d)
           /\ Running(d)' <=> Running(d)
           /\ IsDecided(d)' <=> IsDecided(d)
           /\ ForActor(d)' <=> ForActor(d)
      /\ \A i \in CommandIDs : i # id => entries[i] # c
      /\ \A d \in Callers : /\ call'[d].id = call[d].id /\ call'[d].body = call[d].body
                            /\ call'[d].result = call[d].result
                            /\ entry'[d].body = entry[d].body /\ entry'[d].evict = entry[d].evict
  BY <1>1, <1>2, <1>5, <1>6
  DEF Running, IsDeadline, IsDecided, ForActor, IInv, EntriesAreOwned, id, result
<1>9. RunningOwns'
  <2>1. ASSUME NEW d \in Callers, d # c, Running(d)
        PROVE  call[d].id \in CommandIDs /\ call[d].id # id /\ entries[call[d].id] = d
    BY <1>2, <2>1 DEF IInv, RunningOwns
  <2> QED
    BY <1>5, <1>6, <1>8, <2>1 DEF IInv, RunningOwns
<1>10. ASSUME NEW i \in CommandIDs, entries'[i] # None
       PROVE  \/ /\ i # id /\ entries'[i] = entries[i] /\ entries[i] \in Callers
                 /\ entries[i] # c
              \/ i = id /\ entries'[i] = c /\ result.status \in Decided /\ ~entry[c].evict
  BY <1>2, <1>6, <1>8, <1>10 DEF gone
<1>11. EntriesAreOwned'
  BY <1>5, <1>6, <1>8, <1>10 DEF IInv, EntriesAreOwned
<1>12. CompletedAnswered'
  BY <1>5, <1>6, <1>8 DEF IInv, CompletedAnswered, At
<1>13. IdleIsFresh'
  BY <1>5, <1>6, <1>8 DEF IInv, IdleIsFresh, At
<1>14. WaitersMatch'
  <2>1. ASSUME NEW d \in Callers, d # c, call[d].pc = "waiting"
        PROVE  /\ ~IsDeadline(d)' /\ call'[d].waitsFor \in Callers
               /\ call'[call'[d].waitsFor].pc # "idle"
               /\ entry'[call'[d].waitsFor].body = call'[d].body
               /\ call'[call'[d].waitsFor].body = call'[d].body
               /\ call'[call'[d].waitsFor].id = call'[d].id
    BY <1>5, <1>8, <2>1 DEF IInv, WaitersMatch, At
  <2> QED
    BY <1>5, <2>1 DEF WaitersMatch, At
<1>15. ActorHolds'
  BY <1>1, <1>5, <1>8 DEF IInv, ActorHolds, At
<1>16. EvictedIsClosed' /\ AcceptedOnce'
  BY <1>1, <1>8 DEF IInv, EvictedIsClosed, AcceptedOnce
<1>17. EffectsHaveAuthors'
  <2>1. ASSUME NEW i \in DOMAIN effects
        PROVE  \E d \in Callers : IsAuthor(d, effects[i])'
    <3>1. PICK d \in Callers : IsAuthor(d, effects[i])
      BY DEF IInv, EffectsHaveAuthors
    <3> QED
      BY <1>1, <1>5, <1>6, <1>8, <3>1 DEF IsAuthor, At
  <2> QED
    BY <1>1, <2>1 DEF EffectsHaveAuthors
<1>18. entry[c].evict => call[c].body \in LobbyContents /\ ActorIsOver'
  BY <1>1, <1>2 DEF IInv, EvictedIsClosed, ActorIsOver
<1>19. EffectsAreHeld'
  <2> SUFFICES ASSUME NEW i \in DOMAIN effects, NEW e, e = effects[i]
               PROVE  IsHeld(e)'
    BY <1>1 DEF EffectsAreHeld
  <2>1. e.command[1] \in CommandIDs /\ IsHeld(e)
    BY EffectFacts
  <2>2. entries[e.command[1]] # None => entries[e.command[1]] \in Callers
    BY <1>2, <2>1 DEF IInv, Typed
  <2>3. CASE e.command[1] = id
    BY <1>1, <1>2, <1>5, <1>6, <1>18, <2>1, <2>2, <2>3
    DEF IsHeld, gone, Decided, ActorIsOver, result
  <2>4. CASE e.command[1] # id
    <3>1. PICK d : d = entries[e.command[1]]
      OBVIOUS
    <3>2. entries'[e.command[1]] = d /\ (d # None => call'[d] = call[d])
      BY <1>5, <1>6, <1>8, <2>1, <2>2, <2>4, <3>1
    <3>3. ActorIsOver' <=> ActorIsOver
      BY <1>1 DEF ActorIsOver
    <3> HIDE DEF ActorIsOver
    <3> QED BY <2>1, <3>1, <3>2, <3>3 DEF IsHeld
  <2> QED
    BY <2>3, <2>4
<1>20. DecisionsAreHeld'
  <2>1. ASSUME NEW d \in Callers, IsDecided(d)
        PROVE  \/ call[d].body \in LobbyContents /\ ActorIsOver'
               \/ \E e \in Callers :
                  /\ e = entries'[call[d].id]
                  /\ call[d].id \in CommandIDs /\ e # None /\ IsDecided(e)'
                  /\ call'[e].id = call[d].id /\ call'[e].body = call[d].body
    <3>1. \/ call[d].body \in LobbyContents /\ ActorIsOver
          \/ LET e == entries[call[d].id] IN
             /\ call[d].id \in CommandIDs /\ e \in Callers /\ e # None /\ IsDecided(e)
             /\ call[e].id = call[d].id /\ call[e].body = call[d].body
      BY <1>2, <2>1 DEF IInv, DecisionsAreHeld, SameCommand
    <3>2. CASE call[d].id = id
      BY <1>1, <1>2, <1>6, <1>8, <1>18, <3>1, <3>2 DEF gone, IsDecided, ActorIsOver, result
    <3>3. CASE call[d].id # id
      BY <1>1, <1>5, <1>6, <1>8, <3>1, <3>3 DEF ActorIsOver
    <3> QED
      BY <3>2, <3>3
  <2> QED
    BY <1>8, <2>1 DEF DecisionsAreHeld, SameCommand
<1>21. DecisionsAgree'
  BY <1>8 DEF IInv, DecisionsAgree, SameCommand
<1>22. ForgottenWhenAnswered'
  BY <1>1, <1>5, <1>8 DEF IInv, ForgottenWhenAnswered
<1>23. ForgottenWhenClosed'
  <2>1. loop.pc = "done" /\ call[c].body \in LobbyContents
          => entry[c].evict \/ result.status \notin Decided
    BY <1>1 DEF IInv, ForgottenWhenAnswered, result
  <2> QED
    BY <1>1, <1>2, <1>8, <1>10, <2>1 DEF IInv, ForgottenWhenClosed
<1> QED
  BY <1>7, <1>9, <1>11, <1>12, <1>13, <1>14, <1>15, <1>16, <1>17, <1>19, <1>20, <1>21, <1>22,
     <1>23 DEF IInv

\* The lobby chat forgets its commands: those that are decided at once, those
\* that run when they are answered.
LEMMA CleanupInv ==
  ASSUME IInv, Cleanup
  PROVE  IInv'
<1> DEFINE known == {id \in CommandIDs : entries[id] # None
                                         /\ entry[entries[id]].body \in LobbyContents}
           done == {id \in known : entry[entries[id]].completed}
           Marked(c) == \E id \in known \ done : entries[id] = c
<1>1. /\ UNCHANGED <<call, stop, effects>> /\ Typed /\ loop.pc = "cleanup"
      /\ loop' = [loop EXCEPT !.pc = "done"]
      /\ entries' = [id \in CommandIDs |-> IF id \in done THEN None ELSE entries[id]]
      /\ entry' = [c \in Callers |-> IF Marked(c) THEN [entry[c] EXCEPT !.evict = TRUE]
                                                  ELSE entry[c]]
  BY DEF Cleanup, ForgetClosedRoom, IInv
<1>2. loop'.pc = "done" /\ loop'.request = loop.request
      /\ loop' \in [pc : {"select", "received", "executing", "panicked", "cleanup", "done"},
                    request : Callers \union {None}]
  BY <1>1 DEF Typed
<1>3. \A c \in Callers : LET n == [entry[c] EXCEPT !.evict = TRUE] IN
        /\ n \in Entry /\ entry[c] \in Entry /\ n.body = entry[c].body
        /\ n.completed = entry[c].completed /\ n.result = entry[c].result /\ n.evict
  BY <1>1 DEF Typed, Entry
<1>4. /\ entries \in [CommandIDs -> Callers \union {None}]
      /\ \A id \in CommandIDs : entries[id] # None => entries[id] \in Callers
      /\ None \in Callers \union {None}
  BY <1>1 DEF Typed
<1>5. \A c \in Callers : Marked(c) => /\ Running(c) /\ entry[c].body \in LobbyContents
                                      /\ ~entry[c].completed
  BY DEF IInv, EntriesAreOwned
<1>6. \A c \in Callers : Running(c) /\ call[c].body \in LobbyContents => Marked(c)
  <2>1. ASSUME NEW c \in Callers, Running(c), call[c].body \in LobbyContents
        PROVE  /\ call[c].id \in CommandIDs /\ entries[call[c].id] = c /\ c # None
               /\ entry[c].body \in LobbyContents /\ ~entry[c].completed
    BY <2>1 DEF IInv, RunningOwns, Callers, None
  <2> QED
    BY <2>1
<1>7. \A id \in CommandIDs :
        /\ entries'[id] = IF id \in done THEN None ELSE entries[id]
        /\ id \in done <=> /\ entries[id] # None /\ entry[entries[id]].body \in LobbyContents
                           /\ entry[entries[id]].completed
  BY <1>1
<1> HIDE DEF known, done, Marked
<1>8. /\ entry' \in [Callers -> Entry]
      /\ \A c \in Callers :
           /\ entry'[c].body = entry[c].body /\ entry'[c].completed = entry[c].completed
           /\ entry'[c].result = entry[c].result
           /\ entry'[c].evict => Marked(c) \/ entry[c].evict
           /\ Marked(c) => entry'[c].evict
  BY <1>1, <1>3
<1>9. entries' \in [CommandIDs -> Callers \union {None}]
  BY <1>1, <1>4
<1>10. Typed'
  BY <1>1, <1>2, <1>8, <1>9 DEF Typed
<1>11. \A c, d \in Callers :
         /\ Running(c)' <=> Running(c)
         /\ IsDeadline(c)' <=> IsDeadline(c)
         /\ IsDecided(c)' <=> IsDecided(c)
         /\ ForActor(c)' <=> ForActor(c)
         /\ SameCommand(c, d)' <=> SameCommand(c, d)
  BY <1>1 DEF Running, IsDeadline, IsDecided, ForActor, SameCommand
<1>12. \A c \in Callers : ~entry[c].evict
  BY <1>1 DEF IInv, EvictedIsClosed
<1>13. RunningOwns'
  BY <1>1, <1>7, <1>8, <1>11 DEF IInv, RunningOwns
<1>14. EntriesAreOwned'
  BY <1>1, <1>4, <1>7, <1>8, <1>11 DEF IInv, EntriesAreOwned
<1>15. CompletedAnswered'
  BY <1>1, <1>8, <1>11 DEF IInv, CompletedAnswered, At
<1>16. IdleIsFresh'
  BY <1>1, <1>5, <1>8, <1>11 DEF IInv, IdleIsFresh, At, Running
<1>17. WaitersMatch'
  BY <1>1, <1>8, <1>11 DEF IInv, WaitersMatch, At
<1>18. ActorHolds'
  BY <1>1, <1>2, <1>11 DEF IInv, ActorHolds, At
<1>19. EvictedIsClosed'
  BY <1>2, <1>5, <1>8, <1>12 DEF EvictedIsClosed
<1>20. EffectsHaveAuthors'
  BY <1>1, <1>8, <1>11 DEF IInv, EffectsHaveAuthors, IsAuthor, At
<1>21. AcceptedOnce' /\ DecisionsAgree'
  BY <1>1, <1>11 DEF IInv, AcceptedOnce, DecisionsAgree
<1>22. EffectsAreHeld'
  <2>1. ActorIsOver' /\ effects' = effects /\ call' = call
    BY <1>1, <1>2 DEF ActorIsOver
  <2> SUFFICES ASSUME NEW i \in DOMAIN effects, NEW e, e = effects[i]
               PROVE  IsHeld(e)'
    BY <2>1 DEF EffectsAreHeld
  <2> DEFINE id == e.command[1]
  <2>2. id \in CommandIDs /\ IsHeld(e)
    BY EffectFacts
  <2>3. CASE id \in done
    <3>1. entries[id] # None /\ entry[entries[id]].body \in LobbyContents
      BY <1>7, <2>2, <2>3
    <3>2. entry[entries[id]].body = call[entries[id]].body
      BY <2>2, <3>1 DEF IInv, EntriesAreOwned
    <3> QED
      BY <2>1, <2>2, <3>1, <3>2 DEF IsHeld
  <2>4. CASE id \notin done
    <3>1. entries'[id] = entries[id]
      BY <1>7, <2>2, <2>4
    <3> QED
      BY <2>1, <2>2, <3>1 DEF IsHeld
  <2> QED
    BY <2>3, <2>4
<1>23. DecisionsAreHeld'
  <2>1. \A c \in Callers : IsDecided(c) =>
          \/ call[c].body \in LobbyContents
          \/ LET e == entries[call[c].id] IN
             /\ call[c].id \in CommandIDs /\ e \in Callers /\ e # None
             /\ SameCommand(e, c) /\ IsDecided(e) /\ entry[e].body = call[e].body
    BY <1>4 DEF IInv, DecisionsAreHeld, EntriesAreOwned
  <2>2. ActorIsOver' /\ call' = call
    BY <1>1, <1>2 DEF ActorIsOver
  <2> SUFFICES ASSUME NEW c \in Callers, IsDecided(c), call[c].body \notin LobbyContents
               PROVE  LET e == entries'[call[c].id] IN
                      call[c].id \in CommandIDs /\ e # None /\ SameCommand(e, c) /\ IsDecided(e)
    BY <2>2 DEF DecisionsAreHeld, SameCommand, IsDecided, IsDeadline
  <2> DEFINE e == entries[call[c].id]
  <2>3. /\ call[c].id \in CommandIDs /\ e \in Callers /\ e # None
        /\ SameCommand(e, c) /\ IsDecided(e) /\ entry[e].body = call[e].body
    BY <2>1
  <2>4. entry[e].body \notin LobbyContents
    BY <2>3 DEF SameCommand
  <2>5. entries'[call[c].id] = e
    BY <1>7, <2>3, <2>4
  <2> HIDE DEF e
  <2> QED
    BY <2>3, <2>5
<1>24. ForgottenWhenAnswered'
  BY <1>1, <1>6, <1>8, <1>11 DEF ForgottenWhenAnswered
<1>25. ForgottenWhenClosed'
  BY <1>4, <1>7, <1>8, <1>11 DEF IInv, ForgottenWhenClosed, EntriesAreOwned
<1> QED
  BY <1>10, <1>13, <1>14, <1>15, <1>16, <1>17, <1>18, <1>19, <1>20, <1>21, <1>22, <1>23, <1>24,
     <1>25 DEF IInv
-----------------------------------------------------------------------------
(* The theorems *)

LEMMA InitIInv == Init => IInv
<1> SUFFICES ASSUME Init PROVE IInv
  OBVIOUS
<1> DEFINE r == [pc |-> "idle", id |-> "none", body |-> "none",
                 cancelled |-> FALSE, waitsFor |-> None, result |-> NoResult]
<1>1. /\ NoResult \in Results /\ "none" \in Contents /\ None \in Callers \union {None}
      /\ "none" # DeadlineID
  BY DEF NoResult, Results, Contents, DeadlineID
<1>2. r \in Call /\ r.pc = "idle" /\ r.id # DeadlineID
  BY <1>1 DEF Call, Places
<1>3. NoEntry \in Entry /\ ~NoEntry.completed /\ ~NoEntry.evict
  BY <1>1 DEF NoEntry, Entry
<1>4. /\ call = [c \in Callers |-> r] /\ entries = [id \in CommandIDs |-> None]
      /\ entry = [c \in Callers |-> NoEntry] /\ stop = "open"
      /\ loop = [pc |-> "select", request |-> None] /\ effects = <<>>
  BY DEF Init
<1> HIDE DEF r
<1>5. /\ \A c \in Callers : call[c].pc = "idle" /\ call[c].id # DeadlineID
      /\ \A c \in Callers : ~entry[c].completed /\ ~entry[c].evict
      /\ \A id \in CommandIDs : entries[id] = None
      /\ loop.pc = "select" /\ DOMAIN effects = {}
  BY <1>2, <1>3, <1>4
<1>6. Typed
  BY <1>1, <1>2, <1>3, <1>4 DEF Typed
<1>7. \A c \in Callers : ~Running(c) /\ ~IsDecided(c)
  BY <1>5 DEF Running, IsDecided
<1>8. /\ RunningOwns /\ EntriesAreOwned /\ CompletedAnswered /\ IdleIsFresh /\ WaitersMatch
      /\ ActorHolds /\ EvictedIsClosed
  BY <1>5, <1>7 DEF RunningOwns, EntriesAreOwned, CompletedAnswered, IdleIsFresh, WaitersMatch,
                    ActorHolds, EvictedIsClosed, At, IsDeadline
<1>9. EffectsHaveAuthors /\ EffectsAreHeld /\ AcceptedOnce
  BY <1>5 DEF EffectsHaveAuthors, EffectsAreHeld, AcceptedOnce
<1>10. DecisionsAreHeld /\ DecisionsAgree /\ ForgottenWhenAnswered /\ ForgottenWhenClosed
  BY <1>5, <1>7 DEF DecisionsAreHeld, DecisionsAgree, ForgottenWhenAnswered, ForgottenWhenClosed
<1> QED
  BY <1>6, <1>8, <1>9, <1>10 DEF IInv

LEMMA NextIInv ==
  ASSUME IInv, [Next]_vars
  PROVE  IInv'
<1>1. ASSUME NEW c \in Callers, NEW command \in Commands, Process(c, command[1], command[2])
      PROVE  IInv'
  BY <1>1, ProcessInv
<1>2. ASSUME NEW c \in Callers, CallerStep(c)
      PROVE  IInv'
  BY <1>2, WaitInv, ExecuteDirectInv, SubmitInv, AdmitInv, GiveUpInv, CompleteInv,
     DeadlineRunInv, DeadlineFinishInv DEF CallerStep
<1>3. ASSUME NEW c \in Callers, Schedule(c) \/ Cancel(c)
      PROVE  IInv'
  BY <1>3, ScheduleInv, CancelInv
<1>4. CASE ActorStep \/ Stop
  BY <1>4, ReceiveInv, ExecuteInv, AnswerPanicInv, LeaveLoopInv, CleanupInv, StopInv
  DEF ActorStep, StopPanicked
<1>5. CASE UNCHANGED vars
  <2>1. UNCHANGED <<call, entries, entry, stop, loop, effects>>
    BY <1>5 DEF vars
  <2>2. Typed' /\ ActorHolds'
    BY <2>1 DEF IInv, Typed, ActorHolds, At, ForActor, IsDeadline
  <2> QED
    BY <2>1, <2>2, LoopStep DEF ActorIsOver
<1> QED
  BY <1>1, <1>2, <1>3, <1>4, <1>5 DEF Next

\* The facts the properties below rest on, in every state of the processor and
\* the actor: who owns which entry, which call the actor holds, whose execution
\* each effect is, and where each decision is still held.
THEOREM PathInvariant == Spec => []IInv
<1>1. Init => IInv
  BY InitIInv
<1>2. IInv /\ [Next]_vars => IInv'
  BY NextIInv
<1> QED
  BY <1>1, <1>2, PTL DEF Spec

\* An entry of Processor.entries was created under its own command id, and one
\* that is completed holds a decision.
THEOREM TypeCorrect == Spec => []TypeOK
<1>1. IInv => TypeOK
  <2> SUFFICES ASSUME IInv PROVE TypeOK
    OBVIOUS
  <2>1. /\ stop \in {"open", "closed", "stopping"} /\ loop.request \in Callers \union {None}
        /\ loop.pc \in {"select", "received", "executing", "panicked", "cleanup", "done"}
    BY DEF IInv, Typed
  <2>2. ASSUME NEW id \in CommandIDs, entries[id] # None
        PROVE  /\ call[entries[id]].id = id
               /\ entry[entries[id]].completed => entry[entries[id]].result.status \in Decided
    <3>1. entries[id] \in Callers
      BY <2>2 DEF IInv, Typed
    <3> QED
      BY <2>2, <3>1 DEF IInv, EntriesAreOwned, RunningOwns
  <2> QED
    BY <2>1, <2>2 DEF TypeOK
<1> QED
  BY <1>1, PathInvariant, PTL

\* Processor and RoomActor let a command take effect again only after its client
\* was told of a failure it may repeat, and a chat message never, whatever the
\* number of duplicates, cancellations, panics and deadlines, and when the room
\* closes.
THEOREM ExecutedOnce == Spec => []AcceptedOnce
<1>1. IInv => AcceptedOnce
  BY DEF IInv
<1> QED
  BY <1>1, PathInvariant, PTL

\* Process gives every call of one command the same decision.
THEOREM DecisionIsFinal == Spec => []DuplicatesAgree
<1>1. IInv => DuplicatesAgree
  <2> SUFFICES ASSUME IInv, NEW c \in Callers, NEW d \in Callers,
                      At(c, "answered"), At(d, "answered"), ~IsDeadline(c),
                      call[c].id = call[d].id, call[c].body = call[d].body,
                      {call[c].result.status, call[d].result.status} \subseteq Decided
               PROVE  call[c].result = call[d].result
    BY DEF DuplicatesAgree
  <2>1. IsDecided(c) /\ IsDecided(d) /\ SameCommand(c, d)
    BY DEF IsDecided, SameCommand, At, IsDeadline
  <2> QED
    BY <2>1 DEF IInv, DecisionsAgree
<1> QED
  BY <1>1, PathInvariant, PTL

\* A command that submit refused, because the room was closed or its context had
\* ended, was not executed: an effect of the same command is another call's.
THEOREM RefusalIsSafe == Spec => []RefusedHadNoEffect
<1>1. IInv => RefusedHadNoEffect
  <2> SUFFICES ASSUME IInv, NEW c \in Callers, entry[c].completed,
                      entry[c].result.status \in {"closed", "cancelled"},
                      NEW i \in DOMAIN effects,
                      effects[i].command = <<call[c].id, call[c].body>>
               PROVE  \E d \in Callers \ {c} :
                        /\ call[d].id = call[c].id /\ entry[d].body = call[c].body
                        /\ At(d, "answered") => call[d].result.status = effects[i].status
    BY DEF RefusedHadNoEffect
  <2>1. At(c, "answered") /\ call[c].result.status \in {"closed", "cancelled"}
    BY DEF IInv, CompletedAnswered
  <2>2. PICK d \in Callers : IsAuthor(d, effects[i])
    BY DEF IInv, EffectsHaveAuthors
  <2>3. effects[i].status \in Outcomes
    BY EffectFacts
  <2>4. d # c
    BY <2>1, <2>2, <2>3 DEF IsAuthor, At, Outcomes
  <2>5. call[d].id = call[c].id /\ entry[d].body = call[c].body
    BY <2>2 DEF IsAuthor
  <2>6. At(d, "answered") => call[d].result.status = effects[i].status
    BY <2>2 DEF IsAuthor, At
  <2> QED
    BY <2>4, <2>5, <2>6
<1> QED
  BY <1>1, PathInvariant, PTL

\* Once the lobby chat is closed and nobody is in a call, ForgetClosedRoom and
\* the second critical section of Process have left none of its records.
THEOREM RecordsAreRemoved == Spec => []ClosedRoomIsForgotten
<1>1. IInv => ClosedRoomIsForgotten
  <2> SUFFICES ASSUME IInv, loop.pc = "done",
                      \A c \in Callers : call[c].pc \in {"idle", "answered"},
                      NEW id \in CommandIDs, entries[id] # None
               PROVE  entry[entries[id]].body \notin LobbyContents
    BY DEF ClosedRoomIsForgotten
  <2>1. entries[id] \in Callers
    BY DEF IInv, Typed
  <2> QED
    BY <2>1 DEF IInv, ForgottenWhenClosed, Running
<1> QED
  BY <1>1, PathInvariant, PTL
=============================================================================
