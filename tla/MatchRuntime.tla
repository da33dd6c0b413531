---------------------------- MODULE MatchRuntime ----------------------------
(***************************************************************************)
(* The live match of one room: who drives the current turn, and what       *)
(* suspends it. The model follows matchRuntime and the RoomRegistry        *)
(* methods of internal/application/match_runtime.go, match_flow.go,        *)
(* match_presence.go and the flush of event_tx.go.                         *)
(*                                                                         *)
(* Every handler runs under the registry mutex, so a handler is one        *)
(* action. Concurrency comes from the order in which player commands,      *)
(* connections opening and closing, timer callbacks and storage failures   *)
(* get that mutex. A ...Locked helper is an operator from a runtime record *)
(* to the set of runtime records it can leave behind; what the dice, the   *)
(* board and the CPU policy decide is that choice.                         *)
(*                                                                         *)
(* Time is abstract. A timer is an outstanding callback that may run at    *)
(* any time; a remaining duration is 0 or positive (1).                    *)
(*                                                                         *)
(* A callback can be left behind: Timer.Stop came too late for it, or its  *)
(* handle was replaced without a Stop. It may still run, but never has to. *)
(* The code tells it from the callback that is due by the generation it    *)
(* captured. Generations only grow, so all that matters of one is whether  *)
(* it is the current one: the callback is in fresh while it is, and moves  *)
(* to stale when the code increments the generation.                       *)
(***************************************************************************)
EXTENDS Integers, Sequences, FiniteSets

CONSTANTS
  Humans,        \* the human players of the room
  Lobby_CPUs,    \* the CPU players of the room
  Host,          \* the human who may pause, resume and start a match
  Orders,        \* the turn orders newMatchRuntime may draw
  MaxSockets,    \* bound: sockets one user has open at a time
  MaxMatches,    \* bound: matches played in the room
  Pauses,        \* whether the host uses PAUSE_GAME
  StoreFails,    \* whether the event store can fail
  LateCommands,  \* whether a command may outlive the socket it came from
  MaxLate,       \* bound: callbacks at a time that Timer.Stop came too late for
  OutageJoins    \* whether a spectator may join while the store fails

ASSUME ConfigAssumption ==
  /\ Host \in Humans
  /\ Humans \intersect Lobby_CPUs = {}
  /\ Orders # {} /\ Orders \subseteq Seq(Humans \union Lobby_CPUs)
  /\ <<>> \notin Orders
  /\ MaxSockets \in Nat \ {0} /\ MaxMatches \in Nat \ {0} /\ MaxLate \in Nat
  /\ Pauses \in BOOLEAN /\ StoreFails \in BOOLEAN /\ LateCommands \in BOOLEAN
  /\ OutageJoins \in BOOLEAN

StorageRetries == 3   \* len(storageRetryDelays)

VARIABLES
  rt,     \* the room and its attached match runtime
  conn,   \* open sockets of every human (registry.connections)
  late    \* humans whose last socket closed with a command still in flight

vars == <<rt, conn, late>>

Phases == {"wait_throw", "resolve_queue", "wait_move", "wait_route", "match_end"}
TimerKinds == {"none", "throw", "move"}
Callbacks == {"turn", "cpu", "pause", "presence", "retry"}

\* How a turn can lose its driver; recorded for the properties only, until a
\* driver is armed again.
Lapses ==
  {"window_expired", "window_lost", "handed_back", "cpu_cancelled", "step_failed", "finish_lost"}

Runtime ==
  [room : {"lobby", "in_match", "post_match", "closed"},
   live : BOOLEAN,                 \* entry.started and entry.runtime # nil
   matchNo : 0 .. MaxMatches,      \* names the match, and so its pause deadline
   order : Orders, cur : Nat \ {0}, phase : Phases,
   cpuControlled : BOOLEAN,
   timerKind : TimerKinds,
   turnTimer : BOOLEAN,            \* a callback of the current timerGeneration is due
   cpuTimer : {"nil", "pending", "fired"},   \* cpuActionTimer
   paused : BOOLEAN, pauseUsed : BOOLEAN,
   pauseTimer : BOOLEAN,           \* pauseExpiryTimer # nil
   pauseDue : SUBSET (1 .. MaxMatches),      \* expiry callbacks due, by deadline
   pauseOver : BOOLEAN,            \* pauseEndsAt has passed
   preservedKind : TimerKinds, preservedRemaining : 0 .. 1,
   allDisconnected : BOOLEAN, presenceTimer : BOOLEAN,
   presenceKind : TimerKinds, presenceRemaining : 0 .. 1,
   storagePaused : BOOLEAN, retryAttempt : 0 .. StorageRetries,
   retryDue : SUBSET (0 .. StorageRetries - 1),   \* attempts captured by due callbacks
   finishMatch : BOOLEAN,          \* eventTx.finishMatch of the handler that runs
   finishAfterSave : BOOLEAN,
   taken : BOOLEAN,                \* numbers of the pending batch are in the store
   fresh : SUBSET Callbacks,       \* left behind, and their generation is the current one
   stale : SUBSET Callbacks,       \* left behind with an older generation, or without one
   lapse : SUBSET Lapses,          \* history: how the turn lost the driver it last had
   lateActed : BOOLEAN,            \* history: a late command took effect
   ended : SUBSET {"finished", "invalid"},   \* history: GAME_ENDED published
   resultSaved : BOOLEAN]          \* history: match result persisted

\* A fresh runtime: newMatchRuntime before its first turn begins. It also
\* stands for the nil runtime of a room between matches.
NewRuntime(room, matchNo, order, pauseDue, ended, resultSaved) ==
  [room |-> room, live |-> FALSE, matchNo |-> matchNo, order |-> order, cur |-> 1,
   phase |-> "wait_throw", cpuControlled |-> FALSE,
   timerKind |-> "none", turnTimer |-> FALSE, cpuTimer |-> "nil",
   paused |-> FALSE, pauseUsed |-> FALSE, pauseTimer |-> FALSE,
   pauseDue |-> pauseDue, pauseOver |-> FALSE,
   preservedKind |-> "none", preservedRemaining |-> 0,
   allDisconnected |-> FALSE, presenceTimer |-> FALSE,
   presenceKind |-> "none", presenceRemaining |-> 0,
   storagePaused |-> FALSE, retryAttempt |-> 0, retryDue |-> {},
   finishMatch |-> FALSE, finishAfterSave |-> FALSE, taken |-> FALSE,
   fresh |-> {}, stale |-> {}, lapse |-> {}, lateActed |-> FALSE,
   ended |-> ended, resultSaved |-> resultSaved]

\* entry.runtime = nil: only the room and the callbacks keyed by the room
\* survive. The pause expiry is the one no path stops.
Detached(m, room, ended, resultSaved) ==
  NewRuntime(room, m.matchNo, m.order, m.pauseDue, ended, resultSaved)

Up == {h \in Humans : conn[h] > 0}
Player(m) == m.order[m.cur]
Suspended(m) == m.paused \/ m.storagePaused \/ m.allDisconnected
-----------------------------------------------------------------------------
(* Timers *)

\* The callbacks that outlive the timers being stopped.
Outliving(m, callbacks) ==
  {c \in callbacks : /\ MaxLate > 0
                     /\ Cardinality((m.fresh \union m.stale) \ callbacks) < MaxLate
                     /\ CASE c = "turn" -> m.turnTimer
                          [] c = "cpu" -> m.cpuTimer = "pending"
                          [] c = "pause" -> m.matchNo \in m.pauseDue
                          [] c = "presence" -> m.presenceTimer
                          [] c = "retry" -> m.retryDue # {}}

\* The generations of these callbacks are incremented.
Bump(m, callbacks) ==
  [m EXCEPT !.stale = @ \union (m.fresh \intersect callbacks), !.fresh = @ \ callbacks]

\* Mutant: timerGeneration is not incremented.
CancelTimer_KeepsGeneration(m) ==
  Bump([m EXCEPT !.turnTimer = FALSE, !.cpuTimer = "nil", !.timerKind = "none",
                 !.fresh = @ \union Outliving(m, {"turn", "cpu"})], {"cpu"})

CancelTimer(m) ==
  Bump([m EXCEPT !.turnTimer = FALSE, !.cpuTimer = "nil", !.timerKind = "none",
                 !.fresh = @ \union Outliving(m, {"turn", "cpu"})], {"turn", "cpu"})

\* scheduleTimerLocked: a CPU-controlled turn cancels and arms nothing.
ScheduleTimer(m, kind) ==
  LET c == CancelTimer(m) IN
  IF m.cpuControlled
  THEN [c EXCEPT !.lapse = @ \union {l \in {"cpu_cancelled"} : m.cpuTimer = "pending"}]
  ELSE [c EXCEPT !.timerKind = kind, !.turnTimer = TRUE, !.lapse = {}]

\* armTimerLocked: an armed timer is replaced and not stopped.
ArmTimer(m, kind) ==
  [Bump([m EXCEPT !.fresh = @ \union {c \in {"turn"} : m.turnTimer}], {"turn"})
    EXCEPT !.timerKind = kind, !.turnTimer = TRUE, !.lapse = {}]

\* What remainingMS may report: a due callback that lost the race for the
\* mutex, or a last fraction of a millisecond, leaves 0.
Remaining(m) == IF m.timerKind # "none" /\ m.turnTimer THEN {0, 1} ELSE {0}

\* scheduleCPUActionLocked arms one action at a time.
ScheduleCPUAction(m) ==
  IF m.cpuTimer # "nil" \/ ~m.cpuControlled THEN m
  ELSE [Bump(m, {"cpu"}) EXCEPT !.cpuTimer = "pending", !.lapse = {}]

\* The pause expiry has no generation; it captures its deadline.
StopPauseTimer(m) ==
  IF m.pauseTimer
  THEN [m EXCEPT !.pauseTimer = FALSE, !.pauseDue = @ \ {m.matchNo},
                 !.stale = @ \union Outliving(m, {"pause"})]
  ELSE m
-----------------------------------------------------------------------------
(* Turn flow. The turn machine's outcomes are choices here; TurnMachine   *)
(* models them.                                                           *)

\* performThrowLocked: a yut or mo reopens the throw window.
PerformThrow(m) ==
  {ScheduleTimer([m EXCEPT !.phase = "wait_throw"], "throw"),
   [m EXCEPT !.phase = "resolve_queue"]}

\* beginTurnLocked. With the production delay a CPU turn takes its first
\* step, the throw, and schedules the next one.
BeginTurn(m, up) ==
  LET player == Player(m)
      cpu == player \in Lobby_CPUs \/ player \notin up
      begun == [m EXCEPT !.phase = "wait_throw", !.cpuControlled = cpu]
  IN IF cpu THEN {ScheduleCPUAction(t) : t \in PerformThrow(begun)}
     ELSE {ScheduleTimer(begun, "throw")}

EndTurn(m, up) ==
  BeginTurn([CancelTimer(m) EXCEPT !.cur = (m.cur % Len(m.order)) + 1], up)

\* finishMatchLocked: the runtime stays attached until the batch is saved.
FinishMatch(m) ==
  [CancelTimer(m) EXCEPT !.phase = "match_end", !.room = "post_match", !.finishMatch = TRUE]

\* Mutant: a window that is already armed is kept when the throws are over.
AwaitMove_KeepsWindow(m) ==
  LET chosen == [m EXCEPT !.phase = "wait_move"]
  IN IF m.timerKind # "none" \/ m.cpuControlled THEN chosen ELSE ScheduleTimer(chosen, "move")

\* afterQueueResolvedLocked: the move window is armed once per throw chain.
AwaitMove(m) ==
  LET chosen == [m EXCEPT !.phase = "wait_move"]
  IN IF m.timerKind = "move" \/ m.cpuControlled THEN chosen ELSE ScheduleTimer(chosen, "move")

\* advanceTurnLocked: automatic steps until a decision is needed, a Buk
\* captures, the turn ends or the match ends.
AdvanceTurn(m, up) ==
  IF m.phase # "resolve_queue" THEN {m}
  ELSE {AwaitMove(m), ScheduleTimer([m EXCEPT !.phase = "wait_throw"], "throw"), FinishMatch(m)}
       \union EndTurn(m, up)

\* The error of advanceTurnLocked: the choice has no candidate and more than
\* one unusable token (enterMoveSelectionLocked).
AdvanceFails(m) == IF m.phase # "resolve_queue" THEN {} ELSE {AwaitMove(m)}

\* applySelectedMoveLocked and completeMoveLocked.
ApplySelectedMove(m, up) ==
  {FinishMatch(m), ScheduleTimer([m EXCEPT !.phase = "wait_throw"], "throw")}
  \union AdvanceTurn([m EXCEPT !.phase = "resolve_queue"], up)

ApplySelectedMoveFails(m) == AdvanceFails([m EXCEPT !.phase = "resolve_queue"])

SelectMoveInternal(m, up) ==
  {[m EXCEPT !.phase = "wait_route"]} \union ApplySelectedMove(m, up)

\* runCpuStepLocked with applyCPUDecisionLocked: one step of the CPU.
RunCpuStep(m, up) ==
  CASE m.phase = "wait_throw" -> PerformThrow(m)
    [] m.phase = "resolve_queue" -> AdvanceTurn(m, up)
    [] m.phase = "wait_move" ->
         SelectMoveInternal(m, up) \union {[m EXCEPT !.phase = "resolve_queue"]}
    [] m.phase = "wait_route" -> ApplySelectedMove(m, up)
    [] OTHER -> {m}

\* Its errors. A decision taken anew for an open route may be for another
\* token, or have no route, and is refused before anything changes.
RunCpuStepFails(m) ==
  CASE m.phase = "resolve_queue" -> AdvanceFails(m)
    [] m.phase = "wait_move" -> ApplySelectedMoveFails(m)
    [] m.phase = "wait_route" -> {m} \union ApplySelectedMoveFails(m)
    [] OTHER -> {}

StepFailed(m) == [m EXCEPT !.lapse = @ \union {"step_failed"}]

\* runCpuTurnLocked: after a failed step nothing is scheduled, and a turn of
\* the CPU has no window.
RunCpuTurn(m, up) ==
  IF ~m.cpuControlled \/ m.phase = "match_end" THEN {m}
  ELSE {IF t.phase = "match_end" THEN t ELSE ScheduleCPUAction(t) : t \in RunCpuStep(m, up)}
       \union {StepFailed(t) : t \in RunCpuStepFails(m)}
-----------------------------------------------------------------------------
(* Persisting what a handler staged *)

\* detachFinishedMatchLocked, after the final batch was saved and published.
DetachFinishedMatch(m) ==
  Detached(m, m.room, m.ended \union {"finished"}, TRUE)

\* What every storage pause starts with; an outage that is already on loses
\* the batch it had pending, the one that ends the match included, and its
\* retry timer is stopped.
StoragePause(m) ==
  [m EXCEPT !.storagePaused = TRUE, !.retryAttempt = 0, !.retryDue = {0}, !.taken = FALSE,
            !.stale = @ \union Outliving(m, {"retry"}),
            !.finishAfterSave = m.finishMatch, !.finishMatch = FALSE,
            !.lapse = @ \union {l \in {"finish_lost"} : m.finishAfterSave}]

\* Mutant: the window is preserved again, over what a host pause preserved.
EnterStoragePause_Overwrites(m) ==
  IF m.finishMatch THEN {StoragePause(m)}
  ELSE {CancelTimer([StoragePause(m) EXCEPT !.preservedKind = m.timerKind,
                                           !.preservedRemaining = left]) : left \in Remaining(m)}

EnterStoragePause(m) ==
  IF m.finishMatch THEN {StoragePause(m)}
  ELSE IF m.preservedKind = "none" /\ m.timerKind # "none"
  THEN {CancelTimer([StoragePause(m) EXCEPT !.preservedKind = m.timerKind,
                                           !.preservedRemaining = left]) : left \in Remaining(m)}
  ELSE {CancelTimer(StoragePause(m))}

\* eventTx.flush: the batch is saved and published, or the match pauses.
\* A batch that ends the match also detaches it. A batch saved during an
\* outage takes numbers of the pending one.
Flush(m) ==
  {IF m.finishMatch THEN DetachFinishedMatch(m)
   ELSE [m EXCEPT !.taken = @ \/ m.storagePaused]}
  \union (IF StoreFails THEN EnterStoragePause(m) ELSE {})

FlushAll(ms) == UNION {Flush(m) : m \in ms}
-----------------------------------------------------------------------------
(* Host pause *)

\* resumeMatchLocked restores the preserved window, or lets the CPU go on.
ResumeMatch(m, up) ==
  IF m.storagePaused THEN {[m EXCEPT !.paused = FALSE]}
  ELSE LET a == [m EXCEPT !.paused = FALSE, !.turnTimer = FALSE,
                          !.fresh = @ \union Outliving(m, {"turn"})]
           armed == a.preservedKind # "none" /\ a.preservedRemaining > 0 /\ ~a.cpuControlled
           b == IF armed THEN ArmTimer(a, a.preservedKind)
                ELSE [a EXCEPT !.lapse = @ \union {l \in {"window_expired"} :
                                 a.preservedKind # "none" /\ ~a.cpuControlled}]
       IN RunCpuTurn([b EXCEPT !.preservedKind = "none", !.preservedRemaining = 0], up)

\* firePauseExpiry for the pause that ends at a deadline.
FirePauseExpiry(m, deadline, up) ==
  IF ~m.live THEN {m}
  ELSE LET stopped == StopPauseTimer(m) IN
       IF m.storagePaused \/ ~m.paused \/ deadline # m.matchNo THEN {stopped}
       ELSE FlushAll(ResumeMatch(stopped, up))
-----------------------------------------------------------------------------
(* Storage pause *)

\* Mutant: recovery leaves an expired pause to its timer, which is gone.
SettleUserPause_Rearms(m, up) ==
  {IF m.pauseOver THEN m
   ELSE [m EXCEPT !.pauseTimer = TRUE, !.pauseDue = @ \union {m.matchNo}]}

\* settleUserPauseAfterRecoveryLocked: resume now or wait for the rest. An
\* expiry callback that is due but did not get the mutex yet comes late.
SettleUserPause(m, up) ==
  FlushAll(ResumeMatch([m EXCEPT !.pauseOver = TRUE, !.pauseDue = @ \ {m.matchNo},
                                 !.stale = @ \union Outliving(m, {"pause"})], up))
  \union (IF m.pauseOver THEN {}
          ELSE {[m EXCEPT !.pauseTimer = TRUE, !.pauseDue = @ \union {m.matchNo}]})

\* The tail of fireStorageRetry, once both appends succeeded.
Recover(m, up) ==
  LET r == [m EXCEPT !.storagePaused = FALSE, !.retryAttempt = 0]
      cleared == [r EXCEPT !.preservedKind = "none", !.preservedRemaining = 0]
      absent == Player(m) \notin up
  IN IF m.paused THEN SettleUserPause(r, up)
     ELSE IF m.allDisconnected THEN {r}
     ELSE IF m.cpuControlled \/ absent
     THEN FlushAll(RunCpuTurn([cleared EXCEPT !.cpuControlled = TRUE], up))
     ELSE IF m.preservedKind = "none" THEN {cleared}
     ELSE {ArmTimer(cleared, m.preservedKind)}

\* invalidateMatchLocked: the match ends without a winner. The pause expiry
\* timer is not stopped. The pending batch is published with the marker, a
\* pending GAME_ENDED(finished) included.
InvalidateMatch(m) ==
  Detached(m, "post_match",
           m.ended \union {"invalid"} \union {e \in {"finished"} : m.finishAfterSave},
           m.resultSaved)

\* The retry timer of the outage is not stopped when a retry left behind runs
\* in its place.
Retrying(m) ==
  [m EXCEPT !.retryDue = {}, !.stale = @ \union {c \in {"retry"} : m.retryDue # {}}]

\* Mutant: the last failed retry does not invalidate the match.
FireStorageRetry_GivesUp(m, attempt, up) ==
  IF ~m.live \/ ~m.storagePaused \/ m.retryAttempt # attempt THEN {m}
  ELSE LET run == Retrying(m)
           failed == [run EXCEPT !.retryAttempt = @ + 1]
       IN {IF failed.retryAttempt < StorageRetries
           THEN [failed EXCEPT !.retryDue = {failed.retryAttempt}] ELSE failed}
          \union (IF m.finishAfterSave
                  THEN {DetachFinishedMatch([run EXCEPT !.finishAfterSave = FALSE])}
                  ELSE Recover(run, up))

\* fireStorageRetry for the attempt its callback captured. The append also
\* fails, on a store that works, when numbers of the batch are taken.
FireStorageRetry(m, attempt, up) ==
  IF ~m.live \/ ~m.storagePaused \/ m.retryAttempt # attempt THEN {m}
  ELSE LET run == Retrying(m)
           failed == [run EXCEPT !.retryAttempt = @ + 1]
           flapped == [run EXCEPT !.retryAttempt = 0, !.retryDue = {0}]
       IN {IF failed.retryAttempt < StorageRetries
           THEN [failed EXCEPT !.retryDue = {failed.retryAttempt}]
           ELSE IF m.allDisconnected THEN failed ELSE InvalidateMatch(failed)}
          \union (IF m.taken THEN {}
                  ELSE IF m.finishAfterSave
                  THEN {DetachFinishedMatch([run EXCEPT !.finishAfterSave = FALSE])}
                  ELSE {flapped} \union Recover(run, up))
-----------------------------------------------------------------------------
(* Presence *)

\* Mutant: during an outage the watchdog is left to the retry timer.
SuspendAllDisconnected_OutageUnwatched(m) ==
  IF m.allDisconnected THEN {m}
  ELSE LET away == [m EXCEPT !.allDisconnected = TRUE]
       IN IF m.storagePaused
          THEN {[away EXCEPT !.presenceKind = "none", !.presenceRemaining = 0]}
          ELSE {CancelTimer([away EXCEPT !.presenceTimer = TRUE, !.presenceKind = m.timerKind,
                  !.presenceRemaining = left]) : left \in Remaining(m)}

SuspendAllDisconnected(m) ==
  IF m.allDisconnected THEN {m}
  ELSE LET away == [Bump(m, {"presence"}) EXCEPT !.allDisconnected = TRUE, !.presenceTimer = TRUE]
       IN IF m.storagePaused
          THEN {[away EXCEPT !.presenceKind = "none", !.presenceRemaining = 0]}
          ELSE {CancelTimer([away EXCEPT !.presenceKind = m.timerKind,
                  !.presenceRemaining = IF m.timerKind = "none" THEN @ ELSE left]) :
                left \in Remaining(m)}

ResumeAllDisconnected(m, up) ==
  LET back == Bump([m EXCEPT !.allDisconnected = FALSE, !.presenceTimer = FALSE,
                             !.fresh = @ \union Outliving(m, {"presence"})], {"presence"})
      cleared == [back EXCEPT !.presenceKind = "none", !.presenceRemaining = 0,
                              !.preservedKind = "none", !.preservedRemaining = 0]
      kind == IF m.presenceKind = "none" THEN m.preservedKind ELSE m.presenceKind
      human == [cleared EXCEPT !.cpuControlled = FALSE]
  IN IF m.paused \/ m.storagePaused
     THEN {[back EXCEPT !.lapse = @ \union {l \in {"window_lost"} : m.presenceKind # "none"}]}
     ELSE IF Player(m) \notin up
     THEN RunCpuTurn([cleared EXCEPT !.cpuControlled = TRUE], up)
     ELSE IF kind = "none" THEN {[human EXCEPT !.lapse = @ \union {"handed_back"}]}
     ELSE {ArmTimer(human, kind)}

\* startDisconnectedCPUControlLocked.
StartDisconnectedCPUControl(m, up) ==
  RunCpuTurn(CancelTimer([m EXCEPT !.cpuControlled = TRUE]), up)

\* applyPresenceTransitionLocked when a human's first socket opened: during a
\* storage pause the events are deferred and an exhausted retry restarts.
PlayerReconnected(m, up) ==
  LET resumed == IF m.allDisconnected THEN ResumeAllDisconnected(m, up) ELSE {m}
  IN UNION {IF ~s.storagePaused THEN Flush(s)
            ELSE IF s.retryDue = {} THEN {[s EXCEPT !.retryAttempt = 0, !.retryDue = {0}]}
            ELSE {s} : s \in resumed}

\* Mutant: any player's disconnect stops the pause expiry.
PlayerDisconnected_StopsExpiry(m, player, up) ==
  LET stopped == StopPauseTimer(m)
      ended == IF player = Host /\ m.paused THEN ResumeMatch(stopped, up) ELSE {stopped}
      left(s) == IF up = {} THEN SuspendAllDisconnected(s) ELSE {s}
  IN UNION {IF s.storagePaused THEN {s} ELSE Flush(s) : s \in UNION {left(s) : s \in ended}}

\* applyPresenceTransitionLocked when a human's last socket closed.
PlayerDisconnected(m, player, up) ==
  LET ended == IF player = Host /\ m.paused THEN ResumeMatch(StopPauseTimer(m), up) ELSE {m}
      left(s) == IF up = {} THEN SuspendAllDisconnected(s)
                 ELSE IF /\ Player(s) = player
                         /\ ~s.cpuControlled /\ ~s.paused /\ ~s.storagePaused
                 THEN StartDisconnectedCPUControl(s, up)
                 ELSE {s}
  IN UNION {IF s.storagePaused THEN {s} ELSE Flush(s) : s \in UNION {left(s) : s \in ended}}

\* terminateDisconnectedMatchLocked closes the room.
TerminateDisconnectedMatch(m) ==
  Detached(StopPauseTimer(m), "closed",
           m.ended \union {"invalid"} \union {e \in {"finished"} : m.finishAfterSave},
           m.resultSaved)

\* fireAllDisconnectedExpiry of the current presence generation.
FireAllDisconnectedExpiry(m, current, up) ==
  IF m.live /\ current /\ m.allDisconnected /\ up = {}
  THEN {TerminateDisconnectedMatch(m)} ELSE {m}
-----------------------------------------------------------------------------
(* Turn and CPU callbacks *)

\* fireTurnTimeout; current says whether the captured generation still holds.
FireTurnTimeout(m, current, up) ==
  IF ~m.live \/ ~current \/ m.timerKind = "none" \/ m.cpuControlled \/ m.paused THEN {m}
  ELSE FlushAll(RunCpuTurn(
         CancelTimer([m EXCEPT !.cpuControlled = TRUE]), up))

\* The callback of scheduleCPUActionLocked. A refused route decision staged
\* nothing, so there is nothing to save.
FireCPUAction(m, current, up) ==
  IF ~m.live \/ ~current \/ ~m.cpuControlled THEN {m}
  ELSE LET due == [m EXCEPT !.cpuTimer = "nil"]
           refused == {f \in {StepFailed(due)} : due.phase = "wait_route"}
       IN refused \union FlushAll(RunCpuTurn(due, up) \ refused)
-----------------------------------------------------------------------------
(* Actions *)

Init ==
  /\ rt \in {NewRuntime("lobby", 0, order, {}, {}, FALSE) : order \in Orders}
  /\ conn = [h \in Humans |-> 0]
  /\ late = {}

\* A command reaches the registry from an open socket, or late, from a
\* session whose reader was already past its context check when the socket
\* closed. Late commands are used up.
Sends(h) ==
  /\ h \in Up \/ h \in late
  /\ late' = late \ {h}
  /\ UNCHANGED conn

\* liveMatchLocked: a live match whose store works.
LiveMatch == rt.live /\ ~rt.storagePaused

Commanded(h) == [rt EXCEPT !.lateActed = @ \/ h \notin Up]

\* StartImmediately: readiness is the lobby's business.
StartMatch ==
  /\ Sends(Host)
  /\ rt.room \in {"lobby", "post_match"} /\ ~rt.live /\ rt.matchNo < MaxMatches
  /\ \E order \in Orders :
       rt' \in FlushAll(BeginTurn(
         [NewRuntime("in_match", rt.matchNo + 1, order, rt.pauseDue, {}, FALSE)
           EXCEPT !.live = TRUE, !.lateActed = Host \notin Up], Up))

\* The commands of the player whose turn it is. A command that fails on the
\* way returns before it saves what it staged, and undoes nothing.
ThrowYut(h) ==
  /\ Sends(h) /\ LiveMatch
  /\ ~rt.paused /\ Player(rt) = h /\ rt.phase = "wait_throw"
  /\ LET thrown == PerformThrow(Commanded(h)) IN
     rt' \in FlushAll(UNION {AdvanceTurn(t, Up) : t \in thrown})
             \union UNION {AdvanceFails(t) : t \in thrown}

SelectMove(h) ==
  /\ Sends(h) /\ LiveMatch
  /\ ~rt.paused /\ Player(rt) = h /\ rt.phase = "wait_move"
  /\ rt' \in FlushAll(SelectMoveInternal(Commanded(h), Up))
             \union ApplySelectedMoveFails(Commanded(h))

SelectRoute(h) ==
  /\ Sends(h) /\ LiveMatch
  /\ ~rt.paused /\ Player(rt) = h /\ rt.phase = "wait_route"
  /\ rt' \in FlushAll(ApplySelectedMove(Commanded(h), Up))
             \union ApplySelectedMoveFails(Commanded(h))

PauseGame ==
  /\ Pauses
  /\ Sends(Host) /\ LiveMatch
  /\ ~rt.paused /\ ~rt.pauseUsed
  /\ \E left \in Remaining(rt) :
       rt' \in Flush(CancelTimer(
         [Commanded(Host) EXCEPT !.pauseUsed = TRUE, !.paused = TRUE, !.pauseTimer = TRUE,
                           !.pauseDue = @ \union {rt.matchNo}, !.pauseOver = FALSE,
                           !.preservedKind = rt.timerKind, !.preservedRemaining = left]))

ResumeGame ==
  /\ Sends(Host) /\ LiveMatch
  /\ rt.paused
  /\ rt' \in FlushAll(ResumeMatch(StopPauseTimer(Commanded(Host)), Up))

ConnectionOpened(h) ==
  /\ conn[h] < MaxSockets
  /\ conn' = [conn EXCEPT ![h] = @ + 1]
  /\ late' = late \ {h}
  /\ rt' \in IF conn[h] = 0 /\ rt.live THEN PlayerReconnected(rt, Up \union {h}) ELSE {rt}

\* Mutant: every closed socket counts as the last one.
ConnectionClosed_EverySocket(h) ==
  /\ conn[h] > 0
  /\ conn' = [conn EXCEPT ![h] = @ - 1]
  /\ UNCHANGED late
  /\ rt' \in IF rt.live THEN PlayerDisconnected(rt, h, Up \ {h}) ELSE {rt}

ConnectionClosed(h) ==
  /\ conn[h] > 0
  /\ conn' = [conn EXCEPT ![h] = @ - 1]
  /\ late' \in IF LateCommands /\ conn[h] = 1 THEN {late, late \union {h}} ELSE {late}
  /\ rt' \in IF conn[h] = 1 /\ rt.live THEN PlayerDisconnected(rt, h, Up \ {h}) ELSE {rt}

\* Join of a spectator into a live match. Unlike every other handler it does
\* not ask whether the store fails.
SpectatorJoins ==
  /\ rt.live /\ (rt.storagePaused => OutageJoins)
  /\ rt' \in Flush(rt)
  /\ UNCHANGED <<conn, late>>

\* Timer callbacks getting the mutex.
TurnTimerFires ==
  /\ rt.turnTimer
  /\ rt' \in FireTurnTimeout([rt EXCEPT !.turnTimer = FALSE], TRUE, Up)
  /\ UNCHANGED <<conn, late>>

CPUTimerFires ==
  /\ rt.cpuTimer = "pending"
  /\ rt' \in FireCPUAction([rt EXCEPT !.cpuTimer = "fired"], TRUE, Up)
  /\ UNCHANGED <<conn, late>>

PauseTimerFires(deadline) ==
  /\ deadline \in rt.pauseDue
  /\ rt' \in FirePauseExpiry([rt EXCEPT !.pauseDue = @ \ {deadline},
                                        !.pauseOver = @ \/ deadline = rt.matchNo],
                             deadline, Up)
  /\ UNCHANGED <<conn, late>>

RetryTimerFires ==
  /\ \E attempt \in rt.retryDue :
       rt' \in FireStorageRetry([rt EXCEPT !.retryDue = {}], attempt, Up)
  /\ UNCHANGED <<conn, late>>

PresenceTimerFires ==
  /\ rt.presenceTimer
  /\ rt' \in FireAllDisconnectedExpiry([rt EXCEPT !.presenceTimer = FALSE], TRUE, Up)
  /\ UNCHANGED <<conn, late>>

\* A callback that was left behind runs: with its generation as it is, with
\* the deadline of this match, or with any attempt, the expected one included.
StaleTimerFires(callback) ==
  /\ \E current \in BOOLEAN :
       /\ callback \in (IF current THEN rt.fresh ELSE rt.stale)
       /\ LET m == IF current THEN [rt EXCEPT !.fresh = @ \ {callback}]
                  ELSE [rt EXCEPT !.stale = @ \ {callback}] IN
          rt' \in CASE callback = "turn" -> FireTurnTimeout(m, current, Up)
                   [] callback = "cpu" -> FireCPUAction(m, current, Up)
                   [] callback = "pause" -> FirePauseExpiry(m, m.matchNo, Up)
                   [] callback = "presence" -> FireAllDisconnectedExpiry(m, current, Up)
                   [] callback = "retry" ->
                        UNION {FireStorageRetry(m, attempt, Up) :
                               attempt \in 0 .. StorageRetries - 1}
  /\ UNCHANGED <<conn, late>>

Next ==
  \/ StartMatch
  \/ \E h \in Humans : ThrowYut(h)
  \/ \E h \in Humans : SelectMove(h)
  \/ \E h \in Humans : SelectRoute(h)
  \/ PauseGame
  \/ ResumeGame
  \/ \E h \in Humans : ConnectionOpened(h)
  \/ \E h \in Humans : ConnectionClosed(h)
  \/ SpectatorJoins
  \/ TurnTimerFires
  \/ CPUTimerFires
  \/ \E deadline \in 1 .. MaxMatches : PauseTimerFires(deadline)
  \/ RetryTimerFires
  \/ PresenceTimerFires
  \/ \E callback \in Callbacks : StaleTimerFires(callback)

Spec == Init /\ [][Next]_vars

\* Timers run: a due callback gets the mutex; the properties below need it of
\* the pause, retry and presence timers only. The first two are WF_vars with
\* its ENABLED written out: a callback can run exactly while it is due.
PauseTimerIsFair ==
  []<>(rt.pauseDue = {})
    \/ []<><<\E deadline \in 1 .. MaxMatches : PauseTimerFires(deadline)>>_vars

RetryTimerIsFair == []<>(rt.retryDue = {}) \/ []<><<RetryTimerFires>>_vars

\* The store is not flapping for ever: if retries keep being made of a batch
\* whose numbers are free, some retry finds it working twice (SF_vars).
RetrySucceeds ==
  RetryTimerFires /\ rt.storagePaused /\ ~rt'.storagePaused /\ "invalid" \notin rt'.ended

StoreIsFair == <>[](rt.retryDue = {} \/ rt.taken) \/ []<><<RetrySucceeds>>_vars

FairSpec ==
  Spec /\ PauseTimerIsFair /\ RetryTimerIsFair /\ StoreIsFair /\ WF_vars(PresenceTimerFires)
-----------------------------------------------------------------------------
(* Properties *)

\* Type correctness of the runtime record and the connection counts.
TypeOK ==
  /\ rt \in Runtime
  /\ rt.cur \in 1 .. Len(rt.order)
  /\ conn \in [Humans -> 0 .. MaxSockets]
  /\ late \subseteq Humans

WindowKind(m) == IF m.phase = "wait_throw" THEN "throw" ELSE "move"

\* A turn's driver: the CPU's next action, or a player's window of the kind
\* its phase asks for. A human turn never rests in resolve_queue, where no
\* command is accepted.
Driven(m) ==
  IF m.cpuControlled THEN m.cpuTimer = "pending"
  ELSE m.turnTimer /\ m.timerKind = WindowKind(m) /\ m.phase # "resolve_queue"

\* Why a turn may be without a driver, by who should drive it.
Excuses(m) ==
  IF m.phase = "match_end" THEN {"finish_lost"}
  ELSE IF m.cpuControlled THEN {"cpu_cancelled", "step_failed"}
  ELSE {"window_expired", "window_lost", "handed_back"}

\* A running turn has a driver, through every pause, outage and disconnection:
\* the CPU's action is lost only when a command cancelled it or one of its own
\* steps failed, a player's window only when it was preserved with nothing
\* left, dropped by a return during a pause, or never there to be handed back.
\* No loss outlives the turn.
TurnIsDriven ==
  rt.live /\ ~Suspended(rt) /\ rt.lapse \intersect Excuses(rt) = {} /\ ~rt.lateActed
    => Driven(rt)

\* While the match is suspended neither a turn window nor a CPU action is
\* due: pausing stops both, and no handler that runs during the suspension
\* arms one. A late command of an absent player is the exception recorded.
SuspendedTurnIsFrozen ==
  rt.live /\ Suspended(rt) /\ (rt.lateActed => rt.paused \/ rt.storagePaused)
    => ~rt.turnTimer /\ rt.cpuTimer # "pending"

\* An outage is never forgotten: its next retry is due with the attempt the
\* runtime expects, or the retries ran out while everybody was away and the
\* watchdog that will close the room is due.
OutageIsWatched ==
  rt.live /\ rt.storagePaused =>
    \/ rt.retryDue = {rt.retryAttempt}
    \/ rt.retryDue = {} /\ rt.allDisconnected /\ rt.presenceTimer

\* A host pause ends by itself: its expiry is due, or an outage is on and the
\* recovery settles the pause.
PauseHasExpiry ==
  rt.live /\ rt.paused => rt.matchNo \in rt.pauseDue \/ rt.storagePaused

\* The match knows who is there: it is suspended for absence exactly when no
\* human has a socket left, whatever order sockets open and close in and
\* whatever outage or pause is on.
PresenceMatchesSockets ==
  rt.live /\ ~rt.lateActed => (rt.allDisconnected <=> Up = {})

\* When a player's turn is suspended its window is remembered.
WindowIsPreserved ==
  rt.live /\ Suspended(rt) /\ ~rt.cpuControlled /\ ~rt.lateActed
          /\ rt.lapse = {} /\ rt.phase # "match_end"
    => WindowKind(rt) \in {rt.preservedKind, rt.presenceKind}

\* A callback that was left behind changes nothing, whatever window, CPU
\* action, pause or watchdog has been armed since: its generation is never the
\* current one, and the pause it would end is over. At most it drops the
\* handle of a pause timer that has already run. Only a storage retry is
\* taken for the one that is due, if an outage is on.
StaleCallbackIsInert ==
  [][ \A c \in Callbacks :
        StaleTimerFires(c) /\ ~(c = "retry" /\ rt.storagePaused) =>
          rt' = [rt EXCEPT !.fresh = rt'.fresh, !.stale = rt'.stale,
                           !.pauseTimer = rt'.pauseTimer] ]_vars

\* An outage ends: the match goes on, is invalidated, or the room closes.
OutageEnds == rt.storagePaused ~> ~rt.storagePaused

\* A host pause ends, outages during it included.
PauseEnds == rt.paused ~> ~rt.paused

\* A match nobody watches any more is resumed or its room is closed.
AbandonedMatchSettles == rt.allDisconnected ~> ~rt.allDisconnected
-----------------------------------------------------------------------------
(* What the documents say and the code does not do *)

\* docs/03: the window of the active turn is preserved through an outage.
RecoveredTurnHasWindow ==
  [][ rt.storagePaused /\ ~rt'.storagePaused /\ rt'.live /\ ~Suspended(rt')
        /\ ~rt'.cpuControlled
      => rt'.turnTimer ]_vars

\* docs/03: the CPU completes the whole of the turn it took over.
CpuTurnHasDriver ==
  rt.live /\ ~Suspended(rt) /\ rt.cpuControlled => rt.cpuTimer = "pending"

\* event_tx.go: the result is saved with the GAME_ENDED of a finished match.
ResultSavedWithGameEnded == "finished" \in rt.ended => rt.resultSaved
=============================================================================
