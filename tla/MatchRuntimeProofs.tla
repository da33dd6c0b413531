------------------------- MODULE MatchRuntimeProofs -------------------------
(***************************************************************************)
(* Proofs about MatchRuntime for any players and turn orders, any number   *)
(* of sockets and matches, with and without a failing store, host pauses,  *)
(* late callbacks and late commands.                                       *)
(*                                                                         *)
(* Every handler is a composition of record updates. Each update has a     *)
(* lemma that says which fields it keeps, as a named predicate (Moved,     *)
(* Paused, Away, ...); the lemmas about handlers compose these. Rest is    *)
(* what every action finds and leaves behind, Sound what holds inside one, *)
(* before its events are saved.                                            *)
(***************************************************************************)
EXTENDS MatchRuntime, TLAPS

\* The fields of the runtime record.
Fields ==
  {"room", "live", "matchNo", "order", "cur", "phase", "cpuControlled", "timerKind",
   "turnTimer", "cpuTimer", "paused", "pauseUsed", "pauseTimer", "pauseDue", "pauseOver",
   "preservedKind", "preservedRemaining", "allDisconnected", "presenceTimer",
   "presenceKind", "presenceRemaining", "storagePaused", "retryAttempt", "retryDue",
   "finishMatch", "finishAfterSave", "taken", "fresh", "stale", "lapse", "lateActed",
   "ended", "resultSaved"}

\* A record with exactly these fields, and nothing but what they hold.
Shape(m) == DOMAIN m = Fields /\ m = [f \in DOMAIN m |-> m[f]]

\* Every field has its type, and no callback that was left behind has the
\* generation that is current.
Typed(m) ==
  /\ m.room \in {"lobby", "in_match", "post_match", "closed"}
  /\ m.live \in BOOLEAN /\ m.matchNo \in 0 .. MaxMatches
  /\ m.order \in Orders /\ m.cur \in Nat \ {0} /\ m.phase \in Phases
  /\ m.cpuControlled \in BOOLEAN /\ m.timerKind \in TimerKinds
  /\ m.turnTimer \in BOOLEAN /\ m.cpuTimer \in {"nil", "pending", "fired"}
  /\ m.paused \in BOOLEAN /\ m.pauseUsed \in BOOLEAN /\ m.pauseTimer \in BOOLEAN
  /\ m.pauseDue \in SUBSET (1 .. MaxMatches) /\ m.pauseOver \in BOOLEAN
  /\ m.preservedKind \in TimerKinds /\ m.preservedRemaining \in 0 .. 1
  /\ m.allDisconnected \in BOOLEAN /\ m.presenceTimer \in BOOLEAN
  /\ m.presenceKind \in TimerKinds /\ m.presenceRemaining \in 0 .. 1
  /\ m.storagePaused \in BOOLEAN /\ m.retryAttempt \in 0 .. StorageRetries
  /\ m.retryDue \in SUBSET (0 .. StorageRetries - 1)
  /\ m.finishMatch \in BOOLEAN /\ m.finishAfterSave \in BOOLEAN /\ m.taken \in BOOLEAN
  /\ m.fresh = {} /\ m.stale \in SUBSET Callbacks
  /\ m.lapse \in SUBSET Lapses /\ m.lateActed \in BOOLEAN
  /\ m.ended \in SUBSET {"finished", "invalid"} /\ m.resultSaved \in BOOLEAN

\* A well-formed runtime: typed, and its current player is one of the order.
RuntimeOK(m) == Shape(m) /\ Typed(m) /\ m.cur \in 1 .. Len(m.order)

\* Nothing that suspends a match, or that a suspension remembers, has changed.
SameSuspension(m, t) ==
  /\ t.live = m.live /\ t.matchNo = m.matchNo
  /\ t.paused = m.paused /\ t.pauseUsed = m.pauseUsed /\ t.pauseTimer = m.pauseTimer
  /\ t.pauseDue = m.pauseDue /\ t.pauseOver = m.pauseOver
  /\ t.preservedKind = m.preservedKind /\ t.preservedRemaining = m.preservedRemaining
  /\ t.allDisconnected = m.allDisconnected /\ t.presenceTimer = m.presenceTimer
  /\ t.presenceKind = m.presenceKind
  /\ t.storagePaused = m.storagePaused /\ t.retryAttempt = m.retryAttempt
  /\ t.retryDue = m.retryDue /\ t.finishAfterSave = m.finishAfterSave
  /\ t.lateActed = m.lateActed
  /\ "pause" \in t.stale <=> "pause" \in m.stale

\* As SameSuspension, without the pause's own timer and the retry counters.
SameButRetry(m, t) ==
  /\ t.live = m.live /\ t.matchNo = m.matchNo /\ t.paused = m.paused /\ t.lateActed = m.lateActed
  /\ t.preservedKind = m.preservedKind /\ t.preservedRemaining = m.preservedRemaining
  /\ t.allDisconnected = m.allDisconnected /\ t.presenceTimer = m.presenceTimer
  /\ t.presenceKind = m.presenceKind
  /\ t.storagePaused = m.storagePaused /\ t.finishAfterSave = m.finishAfterSave

\* The same, the retry counters included.
SameWatch(m, t) ==
  SameButRetry(m, t) /\ t.retryAttempt = m.retryAttempt /\ t.retryDue = m.retryDue

\* The turn is where it was.
SameTurn(m, t) ==
  /\ t.phase = m.phase /\ t.cpuControlled = m.cpuControlled /\ t.lapse = m.lapse
  /\ t.cur = m.cur /\ t.order = m.order /\ t.finishMatch = m.finishMatch

\* The same, but for the losses recorded.
SameSeat(m, t) ==
  /\ t.phase = m.phase /\ t.cpuControlled = m.cpuControlled
  /\ t.cur = m.cur /\ t.order = m.order /\ t.finishMatch = m.finishMatch

\* The turn's timers are as they were.
SameTimers(m, t) ==
  t.turnTimer = m.turnTimer /\ t.timerKind = m.timerKind /\ t.cpuTimer = m.cpuTimer

\* No timer of the turn is armed.
Frozen(m) == ~m.turnTimer /\ m.timerKind = "none" /\ m.cpuTimer = "nil"
-----------------------------------------------------------------------------
\* A well-formed runtime is one of the type the model declares.
LEMMA RuntimeIntro ==
  ASSUME NEW m, Shape(m), Typed(m)
  PROVE  m \in Runtime
BY SMT DEF Runtime, Shape, Typed, Fields

\* Only the callbacks of the timers being stopped can outlive them.
LEMMA OutlivingIsSubset ==
  ASSUME NEW m, NEW C
  PROVE  Outliving(m, C) \subseteq C
BY DEF Outliving

\* cancelTimerLocked stops both timers of the turn and nothing else.
LEMMA CancelTimerFacts ==
  ASSUME NEW m, RuntimeOK(m), NEW t, t = CancelTimer(m)
  PROVE  RuntimeOK(t) /\ SameSuspension(m, t) /\ SameTurn(m, t) /\ Frozen(t)
<1> PICK S : S = Outliving(m, {"turn", "cpu"})
  OBVIOUS
<1> PICK a : a = [m EXCEPT !.turnTimer = FALSE, !.cpuTimer = "nil", !.timerKind = "none",
                           !.fresh = @ \union S]
  OBVIOUS
<1>1. S \subseteq {"turn", "cpu"}
  BY OutlivingIsSubset
<1>2. /\ Shape(a)
      /\ t = [a EXCEPT !.stale = @ \union (a.fresh \intersect {"turn", "cpu"}),
                       !.fresh = @ \ {"turn", "cpu"}]
  BY Zenon DEF CancelTimer, Bump, Shape, RuntimeOK
<1>3. Shape(t)
  BY <1>2, Zenon DEF Shape
<1>4. Typed(t)
  BY <1>1, <1>2, SMT DEF RuntimeOK, Shape, Fields, Typed, Callbacks, TimerKinds
<1>5. SameTurn(m, t) /\ Frozen(t)
  BY <1>2, SMT DEF RuntimeOK, Shape, Fields, SameTurn, Frozen
<1>6. SameSuspension(m, t)
  BY <1>1, <1>2, SMT DEF RuntimeOK, Shape, Fields, SameSuspension
<1> QED BY <1>3, <1>4, <1>5, <1>6 DEF RuntimeOK, SameTurn

\* A window of the kind is armed for a player; for the CPU nothing is, and a
\* CPU action that was due is lost and recorded.
Scheduled(m, t, kind) ==
  /\ RuntimeOK(t) /\ SameSuspension(m, t) /\ t.cpuTimer = "nil"
  /\ t.phase = m.phase /\ t.cpuControlled = m.cpuControlled
  /\ t.finishMatch = m.finishMatch /\ t.order = m.order /\ t.cur = m.cur
  /\ m.cpuControlled => ~t.turnTimer /\ t.timerKind = "none"
  /\ ~m.cpuControlled => t.turnTimer /\ t.timerKind = kind
  /\ m.cpuControlled => m.lapse \subseteq t.lapse
  /\ m.cpuControlled /\ m.cpuTimer = "pending" => "cpu_cancelled" \in t.lapse
  /\ m.cpuControlled /\ m.cpuTimer # "pending" => t.lapse = m.lapse

\* scheduleTimerLocked does that.
LEMMA ScheduleTimerFacts ==
  ASSUME NEW m, RuntimeOK(m), NEW kind \in {"throw", "move"}, NEW t, t = ScheduleTimer(m, kind)
  PROVE  Scheduled(m, t, kind)
<1> PICK c : c = CancelTimer(m)
  OBVIOUS
<1>0. RuntimeOK(c) /\ SameSuspension(m, c) /\ SameTurn(m, c) /\ Frozen(c)
  BY CancelTimerFacts
<1>1. CASE m.cpuControlled
  <2> PICK L : L = {l \in {"cpu_cancelled"} : m.cpuTimer = "pending"}
    OBVIOUS
  <2>1. /\ L \subseteq Lapses /\ (m.cpuTimer # "pending" => L = {})
        /\ (m.cpuTimer = "pending" => "cpu_cancelled" \in L)
    BY DEF Lapses
  <2>2. t = [c EXCEPT !.lapse = @ \union L]
    BY <1>1 DEF ScheduleTimer
  <2>3. Shape(t)
    BY <1>0, <2>2, Zenon DEF Shape, RuntimeOK
  <2>4. Typed(t)
    BY <1>0, <2>1, <2>2, SMT DEF RuntimeOK, Shape, Fields, Typed
  <2>5. SameSuspension(m, t) /\ t.cpuTimer = "nil" /\ ~t.turnTimer /\ t.timerKind = "none"
    BY <1>0, <2>2, SMT DEF RuntimeOK, Shape, Fields, SameSuspension, Frozen
  <2>6. /\ t.phase = m.phase /\ t.cpuControlled = m.cpuControlled /\ t.finishMatch = m.finishMatch
        /\ t.order = m.order /\ t.cur = m.cur /\ t.lapse = m.lapse \union L
    BY <1>0, <2>2, SMT DEF RuntimeOK, Shape, Fields, SameTurn
  <2> QED BY <1>1, <2>1, <2>3, <2>4, <2>5, <2>6 DEF RuntimeOK, Scheduled
<1>2. CASE ~m.cpuControlled
  <2>2. t = [c EXCEPT !.timerKind = kind, !.turnTimer = TRUE, !.lapse = {}]
    BY <1>2 DEF ScheduleTimer
  <2>3. Shape(t)
    BY <1>0, <2>2, Zenon DEF Shape, RuntimeOK
  <2>4. Typed(t)
    BY <1>0, <2>2, SMT DEF RuntimeOK, Shape, Fields, Typed, TimerKinds
  <2>5. SameSuspension(m, t) /\ t.cpuTimer = "nil" /\ t.turnTimer /\ t.timerKind = kind
    BY <1>0, <2>2, SMT DEF RuntimeOK, Shape, Fields, SameSuspension, Frozen
  <2>6. SameSeat(m, t)
    BY <1>0, <2>2, SMT DEF RuntimeOK, Shape, Fields, SameTurn, SameSeat
  <2> QED BY <1>0, <1>2, <2>3, <2>4, <2>5, <2>6 DEF RuntimeOK, SameTurn, SameSeat, Scheduled
<1> QED BY <1>1, <1>2

\* armTimerLocked arms a window of the kind it is given.
LEMMA ArmTimerFacts ==
  ASSUME NEW m, RuntimeOK(m), NEW kind \in {"throw", "move"}, NEW t, t = ArmTimer(m, kind)
  PROVE  /\ RuntimeOK(t) /\ SameSuspension(m, t) /\ SameSeat(m, t)
         /\ t.turnTimer /\ t.timerKind = kind /\ t.cpuTimer = m.cpuTimer
<1> PICK S : S = {c \in {"turn"} : m.turnTimer}
  OBVIOUS
<1> PICK a : a = [m EXCEPT !.fresh = @ \union S]
  OBVIOUS
<1> PICK b : b = [a EXCEPT !.stale = @ \union (a.fresh \intersect {"turn"}), !.fresh = @ \ {"turn"}]
  OBVIOUS
<1>1. S \subseteq {"turn"}
  OBVIOUS
<1>2. Shape(a) /\ t = [b EXCEPT !.timerKind = kind, !.turnTimer = TRUE, !.lapse = {}]
  BY Zenon DEF ArmTimer, Bump, Shape, RuntimeOK
<1>3. Shape(b)
  BY <1>2, Zenon DEF Shape
<1>4. Shape(t)
  BY <1>2, <1>3, Zenon DEF Shape
<1>5. Typed(t)
  BY <1>1, <1>2, <1>3, SMT DEF RuntimeOK, Shape, Fields, Typed, Callbacks, TimerKinds
<1>6. SameSeat(m, t) /\ t.turnTimer /\ t.timerKind = kind /\ t.cpuTimer = m.cpuTimer
  BY <1>2, <1>3, SMT DEF RuntimeOK, Shape, Fields, SameSeat
<1>7. SameSuspension(m, t)
  BY <1>1, <1>2, <1>3, SMT DEF RuntimeOK, Shape, Fields, SameSuspension
<1> QED BY <1>4, <1>5, <1>6, <1>7 DEF RuntimeOK, SameSeat

\* scheduleCPUActionLocked arms one action when the CPU plays and none is due.
LEMMA ScheduleCPUActionFacts ==
  ASSUME NEW m, RuntimeOK(m), NEW t, t = ScheduleCPUAction(m)
  PROVE  /\ RuntimeOK(t) /\ SameSuspension(m, t) /\ SameSeat(m, t)
         /\ t.turnTimer = m.turnTimer /\ t.timerKind = m.timerKind
         /\ ~m.cpuControlled => t.lapse = m.lapse
         /\ t.cpuTimer = IF m.cpuControlled /\ m.cpuTimer = "nil" THEN "pending" ELSE m.cpuTimer
<1>1. CASE m.cpuTimer # "nil" \/ ~m.cpuControlled
  BY <1>1 DEF ScheduleCPUAction, SameSuspension, SameSeat
<1>2. CASE m.cpuTimer = "nil" /\ m.cpuControlled
  <2> PICK b : b = [m EXCEPT !.stale = @ \union (m.fresh \intersect {"cpu"}), !.fresh = @ \ {"cpu"}]
    OBVIOUS
  <2>2. Shape(b) /\ t = [b EXCEPT !.cpuTimer = "pending", !.lapse = {}]
    BY <1>2, Zenon DEF ScheduleCPUAction, Bump, Shape, RuntimeOK
  <2>3. Shape(t)
    BY <2>2, Zenon DEF Shape
  <2>4. Typed(t)
    BY <2>2, SMT DEF RuntimeOK, Shape, Fields, Typed
  <2>5. SameSuspension(m, t) /\ t.cpuTimer = "pending"
    BY <2>2, SMT DEF RuntimeOK, Shape, Fields, Typed, SameSuspension
  <2>6. SameSeat(m, t) /\ t.turnTimer = m.turnTimer /\ t.timerKind = m.timerKind
    BY <2>2, SMT DEF RuntimeOK, Shape, Fields, SameSeat
  <2> QED BY <1>2, <2>3, <2>4, <2>5, <2>6 DEF RuntimeOK, SameSeat
<1> QED BY <1>1, <1>2 DEF RuntimeOK, Typed

\* Only the phase of the turn is new.
Rephased(m, t, p) ==
  /\ RuntimeOK(t) /\ SameSuspension(m, t) /\ SameTimers(m, t) /\ t.phase = p
  /\ t.cpuControlled = m.cpuControlled /\ t.lapse = m.lapse
  /\ t.cur = m.cur /\ t.order = m.order /\ t.finishMatch = m.finishMatch

\* Setting the phase changes nothing else.
LEMMA PhaseFacts ==
  ASSUME NEW m, RuntimeOK(m), NEW p \in Phases, NEW t, t = [m EXCEPT !.phase = p]
  PROVE  Rephased(m, t, p)
<1>3. Shape(t)
  BY Zenon DEF Shape, RuntimeOK
<1>4. Typed(t)
  BY SMT DEF RuntimeOK, Shape, Fields, Typed
<1>5. SameSuspension(m, t) /\ SameTimers(m, t)
  BY SMT DEF RuntimeOK, Shape, Fields, SameSuspension, SameTimers
<1>6. /\ t.phase = p /\ t.cpuControlled = m.cpuControlled /\ t.lapse = m.lapse
      /\ t.cur = m.cur /\ t.order = m.order /\ t.finishMatch = m.finishMatch
  BY SMT DEF RuntimeOK, Shape, Fields
<1> QED BY <1>3, <1>4, <1>5, <1>6 DEF RuntimeOK, Rephased

\* finishMatchLocked stops the turn's timers and leaves the match to be saved.
LEMMA FinishMatchFacts ==
  ASSUME NEW m, RuntimeOK(m), NEW t, t = FinishMatch(m)
  PROVE  /\ RuntimeOK(t) /\ SameSuspension(m, t) /\ Frozen(t)
         /\ t.phase = "match_end" /\ t.finishMatch /\ t.cpuControlled = m.cpuControlled
<1> PICK c : c = CancelTimer(m)
  OBVIOUS
<1>0. RuntimeOK(c) /\ SameSuspension(m, c) /\ SameTurn(m, c) /\ Frozen(c)
  BY CancelTimerFacts
<1>2. t = [c EXCEPT !.phase = "match_end", !.room = "post_match", !.finishMatch = TRUE]
  BY DEF FinishMatch
<1>3. Shape(t)
  BY <1>0, <1>2, Zenon DEF Shape, RuntimeOK
<1>4. Typed(t) /\ t.cur = c.cur /\ t.order = c.order
  BY <1>0, <1>2, SMT DEF RuntimeOK, Shape, Fields, Typed, Phases
<1>5. SameSuspension(m, t) /\ Frozen(t)
  BY <1>0, <1>2, SMT DEF RuntimeOK, Shape, Fields, SameSuspension, Frozen
<1>6. t.phase = "match_end" /\ t.finishMatch /\ t.cpuControlled = m.cpuControlled
  BY <1>0, <1>2, SMT DEF RuntimeOK, Shape, Fields, SameTurn
<1> QED BY <1>0, <1>3, <1>4, <1>5, <1>6 DEF RuntimeOK
-----------------------------------------------------------------------------
\* A match about to end is frozen in its last phase.
Ending(m) == m.finishMatch => Frozen(m) /\ m.phase = "match_end"

\* A CPU turn has no window, a player's turn no CPU action, a CPU action that
\* is known is due, and a match that is over has neither.
OneDriver(m) ==
  /\ m.cpuControlled => ~m.turnTimer /\ m.timerKind = "none"
  /\ m.cpuTimer # "nil" => m.cpuControlled /\ m.cpuTimer = "pending"
  /\ m.phase = "match_end" => Frozen(m)

\* The losses recorded of a player's window and of the CPU's next action.
WindowGone(m) == \E l \in {"window_expired", "window_lost", "handed_back"} : l \in m.lapse
ActionGone(m) == "cpu_cancelled" \in m.lapse \/ "step_failed" \in m.lapse

\* A turn that should have a driver: the CPU's next action was not lost, or a
\* player's window is armed or was not lost.
Owed(m) ==
  IF m.cpuControlled THEN ~ActionGone(m) ELSE m.timerKind # "none" \/ ~WindowGone(m)

\* A player's turn that should have a window has one.
Armed(m) == ~m.cpuControlled /\ Owed(m) => m.turnTimer /\ m.timerKind # "none"

\* A turn that can go on: one driver at most, for a player the right one, and
\* a last phase only for a match whose end is to be saved or was lost.
Fit(m) ==
  /\ OneDriver(m)
  /\ ~m.cpuControlled /\ Owed(m) /\ m.phase # "match_end" => Driven(m)
  /\ m.phase = "match_end" => "finish_lost" \in m.lapse \/ m.finishMatch

\* A CPU turn that should have its next action due has.
CpuDue(m) == m.cpuControlled /\ Owed(m) => m.cpuTimer = "pending"

\* A player's turn that can go on has a window.
LEMMA FitIsArmed ==
  ASSUME NEW m, Fit(m), m.phase # "match_end"
  PROVE  Armed(m)
BY DEF Fit, Armed, Driven, WindowKind

\* What a bonus throw leaves: the throw phase with its own window.
Reopened(m, t) ==
  /\ RuntimeOK(t) /\ SameSuspension(m, t) /\ ~t.finishMatch
  /\ t.phase = "wait_throw" /\ t.cpuControlled = m.cpuControlled
  /\ Frozen(m) /\ m.cpuControlled => Frozen(t) /\ t.lapse = m.lapse
  /\ Fit(t)
  /\ CpuDue(m) => CpuDue(t)

\* Going back to the throw phase does that.
LEMMA ReopenFacts ==
  ASSUME NEW m, RuntimeOK(m), ~m.finishMatch,
         NEW t, t = ScheduleTimer([m EXCEPT !.phase = "wait_throw"], "throw")
  PROVE  Reopened(m, t)
<1> PICK s : s = [m EXCEPT !.phase = "wait_throw"]
  OBVIOUS
<1>1. Rephased(m, s, "wait_throw")
  BY PhaseFacts DEF Phases
<1>2. Scheduled(s, t, "throw")
  <2>1. t = ScheduleTimer(s, "throw") /\ "throw" \in {"throw", "move"}
    OBVIOUS
  <2> QED BY <1>1, <2>1, ScheduleTimerFacts, Zenon DEF Rephased
<1>3. SameSuspension(m, t)
  BY <1>1, <1>2 DEF SameSuspension, Scheduled, Rephased
<1>4. Frozen(m) /\ m.cpuControlled => Frozen(t) /\ t.lapse = m.lapse
  BY <1>1, <1>2 DEF Frozen, SameTimers, Scheduled, Rephased
<1>5. Fit(t)
  BY <1>1, <1>2 DEF Fit, OneDriver, Driven, WindowKind, Scheduled, Rephased
<1>6. CpuDue(m) => CpuDue(t)
  BY <1>1, <1>2 DEF CpuDue, Owed, ActionGone, SameTimers, Scheduled, Rephased
<1> QED BY <1>1, <1>2, <1>3, <1>4, <1>5, <1>6 DEF Scheduled, Reopened, Rephased

\* What a throw leaves: another throw, or results to play.
Thrown(m, t) ==
  /\ RuntimeOK(t) /\ SameSuspension(m, t) /\ ~t.finishMatch
  /\ t.phase \in {"wait_throw", "resolve_queue"} /\ t.cpuControlled = m.cpuControlled
  /\ Frozen(m) /\ m.cpuControlled => Frozen(t) /\ t.lapse = m.lapse
  /\ t.phase = "wait_throw" => Fit(t)
  /\ OneDriver(m) => OneDriver(t)
  /\ Armed(m) /\ t.phase = "resolve_queue" => Armed(t)
  /\ CpuDue(m) => CpuDue(t)

\* performThrowLocked does that.
LEMMA PerformThrowFacts ==
  ASSUME NEW m, RuntimeOK(m), ~m.finishMatch, NEW t \in PerformThrow(m)
  PROVE  Thrown(m, t)
<1>1. CASE t = ScheduleTimer([m EXCEPT !.phase = "wait_throw"], "throw")
  <2>1. Reopened(m, t)
    BY <1>1, ReopenFacts
  <2> QED BY <2>1 DEF Reopened, Thrown, Fit
<1>2. CASE t = [m EXCEPT !.phase = "resolve_queue"]
  <2>1. Rephased(m, t, "resolve_queue")
    BY <1>2, PhaseFacts DEF Phases
  <2> QED BY <2>1 DEF Frozen, OneDriver, Armed, Owed, WindowGone, CpuDue, ActionGone, SameTimers,
                     Thrown, Rephased
<1> QED BY <1>1, <1>2 DEF PerformThrow

\* What a turn handler leaves behind when it is done: the turn goes on with a
\* driver, or the match is about to end.
Ran(m, t) ==
  RuntimeOK(t) /\ SameSuspension(m, t) /\ Ending(t) /\ Fit(t) /\ (t.phase # "match_end" => CpuDue(t))

\* beginTurnLocked leaves a turn with a driver, whoever plays it.
LEMMA BeginTurnFacts ==
  ASSUME NEW m, NEW up, RuntimeOK(m), ~m.finishMatch, Frozen(m), NEW t \in BeginTurn(m, up)
  PROVE  Ran(m, t)
<1> PICK cpu \in BOOLEAN : cpu = (Player(m) \in Lobby_CPUs \/ Player(m) \notin up)
  OBVIOUS
<1> PICK b : b = [m EXCEPT !.phase = "wait_throw", !.cpuControlled = cpu]
  OBVIOUS
<1>1. Shape(b)
  BY Zenon DEF Shape, RuntimeOK
<1>2. Typed(b) /\ b.cur = m.cur /\ b.order = m.order
  BY SMT DEF RuntimeOK, Shape, Fields, Typed, Phases
<1>3. SameSuspension(m, b) /\ Frozen(b)
  BY SMT DEF RuntimeOK, Shape, Fields, SameSuspension, Frozen
<1>4. b.phase = "wait_throw" /\ b.cpuControlled = cpu /\ ~b.finishMatch
  BY SMT DEF RuntimeOK, Shape, Fields
<1>5. RuntimeOK(b)
  BY <1>1, <1>2 DEF RuntimeOK
<1>6. CASE cpu
  <2>1. PICK s \in PerformThrow(b) : t = ScheduleCPUAction(s)
    BY <1>6 DEF BeginTurn
  <2>2. Thrown(b, s)
    BY <1>4, <1>5, PerformThrowFacts, Zenon
  <2>3. RuntimeOK(s) /\ Frozen(s) /\ s.cpuControlled /\ s.phase # "match_end" /\ ~s.finishMatch
    BY <1>3, <1>4, <1>6, <2>2 DEF Thrown
  <2>4. /\ RuntimeOK(t) /\ SameSuspension(s, t) /\ SameSeat(s, t)
        /\ t.turnTimer = s.turnTimer /\ t.timerKind = s.timerKind
        /\ t.cpuTimer = IF s.cpuControlled /\ s.cpuTimer = "nil" THEN "pending" ELSE s.cpuTimer
    BY <2>1, <2>3, ScheduleCPUActionFacts
  <2>5. Fit(t) /\ CpuDue(t) /\ Ending(t)
    BY <2>3, <2>4 DEF Fit, OneDriver, CpuDue, Frozen, SameSeat, Ending
  <2>6. SameSuspension(m, t)
    BY <1>3, <2>2, <2>4 DEF SameSuspension, Thrown
  <2> QED BY <2>4, <2>5, <2>6 DEF Ran
<1>7. CASE ~cpu
  <2>1. t = ScheduleTimer(b, "throw") /\ "throw" \in {"throw", "move"}
    BY <1>7 DEF BeginTurn
  <2>2. Scheduled(b, t, "throw")
    BY <1>5, <2>1, ScheduleTimerFacts, Zenon
  <2>3. Fit(t) /\ CpuDue(t) /\ Ending(t)
    BY <1>4, <1>7, <2>2 DEF Fit, OneDriver, CpuDue, Driven, WindowKind, Scheduled, Ending
  <2>4. SameSuspension(m, t)
    BY <1>3, <2>2 DEF SameSuspension, Scheduled
  <2> QED BY <2>2, <2>3, <2>4 DEF Scheduled, Ran
<1> QED BY <1>6, <1>7

\* The next player is one of the order.
LEMMA NextPlayerInRange ==
  ASSUME NEW n \in Nat, NEW c \in 1 .. n
  PROVE  (c % n) + 1 \in 1 .. n
OBVIOUS

\* endTurnLocked leaves the next player's turn with a driver.
LEMMA EndTurnFacts ==
  ASSUME NEW m, NEW up, RuntimeOK(m), ~m.finishMatch, NEW t \in EndTurn(m, up)
  PROVE  Ran(m, t)
<1> PICK c : c = CancelTimer(m)
  OBVIOUS
<1>1. RuntimeOK(c) /\ SameSuspension(m, c) /\ SameTurn(m, c) /\ Frozen(c)
  BY CancelTimerFacts
<1> PICK k : k = (m.cur % Len(m.order)) + 1
  OBVIOUS
<1>2. k \in 1 .. Len(m.order) /\ Len(m.order) \in Nat
  <2>1. Len(m.order) \in Nat
    BY ConfigAssumption DEF RuntimeOK, Typed
  <2> QED BY <2>1, NextPlayerInRange DEF RuntimeOK
<1> PICK s : s = [c EXCEPT !.cur = k]
  OBVIOUS
<1>3. Shape(s)
  BY <1>1, Zenon DEF Shape, RuntimeOK
<1>4. Typed(s) /\ s.cur = k /\ s.order = m.order
  BY <1>1, <1>2, SMT DEF RuntimeOK, Shape, Fields, Typed, SameTurn
<1>5. SameSuspension(m, s) /\ Frozen(s) /\ ~s.finishMatch
  BY <1>1, SMT DEF RuntimeOK, Shape, Fields, SameSuspension, Frozen, SameTurn
<1>6. RuntimeOK(s)
  BY <1>2, <1>3, <1>4 DEF RuntimeOK
<1>7. t \in BeginTurn(s, up)
  BY DEF EndTurn
<1>8. Ran(s, t)
  BY <1>5, <1>6, <1>7, BeginTurnFacts
<1> QED BY <1>5, <1>8 DEF SameSuspension, Ran

\* A turn handler leaves every suspension alone and freezes an ending match.
Moved(m, t) == RuntimeOK(t) /\ SameSuspension(m, t) /\ Ending(t)

\* ... and hands a driven turn on as a driven turn.
Advanced(m, t) ==
  /\ Moved(m, t)
  /\ OneDriver(m) /\ Armed(m) => Fit(t)
  /\ OneDriver(m) /\ Armed(m) /\ CpuDue(m) /\ t.phase # "match_end" => CpuDue(t)

\* A handler that always leaves a driver does so from a driven turn.
LEMMA RanIsAdvanced ==
  ASSUME NEW m, NEW t, Ran(m, t)
  PROVE  Advanced(m, t)
BY DEF Ran, Advanced, Moved

\* So does going back to the throw phase.
LEMMA ReopenIsAdvanced ==
  ASSUME NEW m, RuntimeOK(m), ~m.finishMatch,
         NEW t, t = ScheduleTimer([m EXCEPT !.phase = "wait_throw"], "throw")
  PROVE  Advanced(m, t)
<1>1. Reopened(m, t)
  BY ReopenFacts
<1> QED BY <1>1 DEF Reopened, Advanced, Moved, Ending

\* So does the end of the match.
LEMMA FinishIsAdvanced ==
  ASSUME NEW m, RuntimeOK(m), NEW t, t = FinishMatch(m)
  PROVE  Advanced(m, t)
<1>1. /\ RuntimeOK(t) /\ SameSuspension(m, t) /\ Frozen(t)
      /\ t.phase = "match_end" /\ t.finishMatch /\ t.cpuControlled = m.cpuControlled
  BY FinishMatchFacts
<1>2. Moved(m, t)
  BY <1>1 DEF Moved, Ending
<1> QED BY <1>1, <1>2 DEF Advanced, Frozen, Fit, OneDriver

\* advanceTurnLocked: whatever the queue holds, a driven turn stays driven.
LEMMA AdvanceTurnFacts ==
  ASSUME NEW m, NEW up, RuntimeOK(m), ~m.finishMatch, m.phase = "resolve_queue",
         NEW t \in AdvanceTurn(m, up)
  PROVE  Advanced(m, t)
<1> PICK c : c = [m EXCEPT !.phase = "wait_move"]
  OBVIOUS
<1>1. Rephased(m, c, "wait_move")
  BY PhaseFacts DEF Phases
<1>2. \/ t = c /\ (m.timerKind = "move" \/ m.cpuControlled)
      \/ t = ScheduleTimer(c, "move") /\ ~m.cpuControlled
      \/ t = ScheduleTimer([m EXCEPT !.phase = "wait_throw"], "throw")
      \/ t = FinishMatch(m)
      \/ t \in EndTurn(m, up)
  BY DEF AdvanceTurn, AwaitMove
<1>3. CASE t = c /\ (m.timerKind = "move" \/ m.cpuControlled)
  <2>1. Moved(m, t)
    BY <1>1, <1>3 DEF Moved, Ending, Rephased
  <2>2. OneDriver(m) /\ Armed(m) => Fit(t)
    BY <1>1, <1>3 DEF OneDriver, Armed, Owed, WindowGone, Fit, Driven, WindowKind, SameTimers, Rephased
  <2>3. CpuDue(m) => CpuDue(t)
    BY <1>1, <1>3 DEF CpuDue, Owed, ActionGone, SameTimers, Rephased
  <2> QED BY <2>1, <2>2, <2>3 DEF Advanced, Rephased
<1>4. CASE t = ScheduleTimer(c, "move") /\ ~m.cpuControlled
  <2>1. Scheduled(c, t, "move")
    <3>1. "move" \in {"throw", "move"}
      OBVIOUS
    <3> QED BY <1>1, <1>4, <3>1, ScheduleTimerFacts, Zenon DEF Rephased
  <2>2. Moved(m, t)
    BY <1>1, <2>1 DEF Moved, Ending, Scheduled, SameSuspension, Rephased
  <2>3. Fit(t) /\ CpuDue(t)
    BY <1>1, <1>4, <2>1 DEF Scheduled, Fit, OneDriver, Driven, WindowKind, CpuDue, Rephased
  <2> QED BY <2>2, <2>3 DEF Advanced
<1>5. CASE t = ScheduleTimer([m EXCEPT !.phase = "wait_throw"], "throw")
  BY <1>5, ReopenIsAdvanced
<1>6. CASE t = FinishMatch(m)
  BY <1>6, FinishIsAdvanced
<1>7. CASE t \in EndTurn(m, up)
  BY <1>7, EndTurnFacts, RanIsAdvanced
<1> QED BY <1>2, <1>3, <1>4, <1>5, <1>6, <1>7

\* applySelectedMoveLocked: the same, for every outcome of the move.
LEMMA ApplySelectedMoveFacts ==
  ASSUME NEW m, NEW up, RuntimeOK(m), ~m.finishMatch, NEW t \in ApplySelectedMove(m, up)
  PROVE  Advanced(m, t)
<1>1. CASE t = FinishMatch(m)
  BY <1>1, FinishIsAdvanced
<1>2. CASE t = ScheduleTimer([m EXCEPT !.phase = "wait_throw"], "throw")
  BY <1>2, ReopenIsAdvanced
<1>3. CASE t \in AdvanceTurn([m EXCEPT !.phase = "resolve_queue"], up)
  <2> PICK s : s = [m EXCEPT !.phase = "resolve_queue"]
    OBVIOUS
  <2>1. Rephased(m, s, "resolve_queue")
    BY PhaseFacts DEF Phases
  <2>2. t \in AdvanceTurn(s, up)
    BY <1>3
  <2>3. Advanced(s, t)
    BY <2>1, <2>2, AdvanceTurnFacts, Zenon DEF Rephased
  <2>4. Moved(m, t)
    BY <2>1, <2>3 DEF Advanced, Moved, SameSuspension, Rephased
  <2>5. (OneDriver(m) => OneDriver(s)) /\ (Armed(m) => Armed(s)) /\ (CpuDue(m) => CpuDue(s))
    BY <2>1 DEF OneDriver, Armed, Owed, WindowGone, CpuDue, ActionGone, SameTimers, Rephased
  <2> QED BY <2>3, <2>4, <2>5 DEF Advanced
<1> QED BY <1>1, <1>2, <1>3 DEF ApplySelectedMove, Rephased

\* selectMoveInternalLocked: the same, also when the move asks for a route.
LEMMA SelectMoveFacts ==
  ASSUME NEW m, NEW up, RuntimeOK(m), ~m.finishMatch, m.phase = "wait_move",
         NEW t \in SelectMoveInternal(m, up)
  PROVE  /\ Moved(m, t)
         /\ Fit(m) => Fit(t)
         /\ Fit(m) /\ CpuDue(m) /\ t.phase # "match_end" => CpuDue(t)
<1>1. CASE t = [m EXCEPT !.phase = "wait_route"]
  <2>1. Rephased(m, t, "wait_route")
    BY <1>1, PhaseFacts DEF Phases
  <2>2. Moved(m, t)
    BY <2>1 DEF Moved, Ending, Rephased
  <2>3. Fit(m) => Fit(t)
    BY <2>1 DEF Fit, Owed, WindowGone, OneDriver, Driven, WindowKind, SameTimers, Rephased
  <2>4. CpuDue(m) => CpuDue(t)
    BY <2>1 DEF CpuDue, Owed, ActionGone, SameTimers, Rephased
  <2> QED BY <2>2, <2>3, <2>4
<1>2. CASE t \in ApplySelectedMove(m, up)
  <2>1. Advanced(m, t)
    BY <1>2, ApplySelectedMoveFacts
  <2>2. Fit(m) => OneDriver(m) /\ Armed(m)
    BY FitIsArmed DEF Fit
  <2> QED BY <2>1, <2>2 DEF Advanced, Rephased
<1> QED BY <1>1, <1>2 DEF SelectMoveInternal, Rephased

\* One decision of the CPU, taken with no timer armed, leaves a fit turn.
LEMMA RunCpuStepFacts ==
  ASSUME NEW m, NEW up, RuntimeOK(m), ~m.finishMatch, m.cpuControlled, m.phase # "match_end",
         NEW t \in RunCpuStep(m, up)
  PROVE  Moved(m, t) /\ (Frozen(m) => Fit(t))
<1>1. m.phase \in {"wait_throw", "resolve_queue", "wait_move", "wait_route"}
  BY DEF RuntimeOK, Typed, Phases
<1>2. Frozen(m) => OneDriver(m) /\ Armed(m) /\ Fit(m)
  BY DEF Frozen, OneDriver, Armed, Fit
<1>3. CASE m.phase = "wait_throw"
  <2>1. t \in PerformThrow(m)
    BY <1>3 DEF RunCpuStep
  <2>2. Thrown(m, t)
    BY <2>1, PerformThrowFacts
  <2>3. Frozen(m) => Fit(t)
    BY <2>2 DEF Thrown, Frozen, Fit, OneDriver
  <2> QED BY <2>2, <2>3 DEF Thrown, Moved, Ending
<1>4. CASE m.phase = "resolve_queue"
  <2>1. t \in AdvanceTurn(m, up)
    BY <1>4 DEF RunCpuStep
  <2> QED BY <1>2, <1>4, <2>1, AdvanceTurnFacts DEF Advanced, Rephased
<1>5. CASE m.phase = "wait_move"
  <2>1. t \in SelectMoveInternal(m, up) \/ t = [m EXCEPT !.phase = "resolve_queue"]
    BY <1>5 DEF RunCpuStep
  <2>2. CASE t \in SelectMoveInternal(m, up)
    BY <1>2, <1>5, <2>2, SelectMoveFacts
  <2>3. CASE t = [m EXCEPT !.phase = "resolve_queue"]
    <3>1. Rephased(m, t, "resolve_queue")
      BY <2>3, PhaseFacts DEF Phases
    <3> QED BY <3>1 DEF Moved, Ending, Frozen, Fit, OneDriver, SameTimers, Rephased
  <2> QED BY <2>1, <2>2, <2>3
<1>6. CASE m.phase = "wait_route"
  <2>1. t \in ApplySelectedMove(m, up)
    BY <1>6 DEF RunCpuStep
  <2> QED BY <1>2, <2>1, ApplySelectedMoveFacts DEF Advanced, Rephased
<1> QED BY <1>1, <1>3, <1>4, <1>5, <1>6

\* A failed move is one of the outcomes of the move, without the error.
LEMMA FailuresAreOutcomes ==
  ASSUME NEW m, NEW up
  PROVE  /\ AdvanceFails(m) \subseteq AdvanceTurn(m, up)
         /\ ApplySelectedMoveFails(m) \subseteq ApplySelectedMove(m, up)
<1>1. \A s : AdvanceFails(s) \subseteq AdvanceTurn(s, up)
  BY DEF AdvanceFails, AdvanceTurn
<1> QED BY <1>1 DEF ApplySelectedMoveFails, ApplySelectedMove

\* It leaves the match unfinished.
LEMMA FailureIsNoEnd ==
  ASSUME NEW m, RuntimeOK(m), ~m.finishMatch,
         NEW t \in AdvanceFails(m) \union ApplySelectedMoveFails(m)
  PROVE  ~t.finishMatch
<1>1. ASSUME NEW s, RuntimeOK(s), ~s.finishMatch, t \in AdvanceFails(s)
      PROVE  ~t.finishMatch
  <2>1. PICK c : c = [s EXCEPT !.phase = "wait_move"]
    OBVIOUS
  <2>2. Rephased(s, c, "wait_move")
    BY <1>1, <2>1, PhaseFacts DEF Phases
  <2>3. t = c \/ t = ScheduleTimer(c, "move")
    BY <1>1, <2>1 DEF AdvanceFails, AwaitMove
  <2>4. ASSUME t = ScheduleTimer(c, "move") PROVE Scheduled(c, t, "move")
    BY <2>2, <2>4, ScheduleTimerFacts DEF Rephased
  <2> QED BY <1>1, <2>2, <2>3, <2>4 DEF Rephased, Scheduled
<1>2. CASE t \in AdvanceFails(m)
  BY <1>1, <1>2
<1>3. CASE t \in ApplySelectedMoveFails(m)
  <2>1. PICK r : r = [m EXCEPT !.phase = "resolve_queue"]
    OBVIOUS
  <2>2. Rephased(m, r, "resolve_queue")
    BY <2>1, PhaseFacts DEF Phases
  <2>3. t \in AdvanceFails(r)
    BY <1>3, <2>1 DEF ApplySelectedMoveFails
  <2> QED BY <1>1, <2>2, <2>3 DEF Rephased
<1> QED BY <1>2, <1>3

\* A step of the CPU that fails, with no timer armed, leaves a fit turn too.
LEMMA RunCpuStepFailsFacts ==
  ASSUME NEW m, NEW up, RuntimeOK(m), ~m.finishMatch, m.cpuControlled, m.phase # "match_end",
         NEW t \in RunCpuStepFails(m)
  PROVE  Moved(m, t) /\ (Frozen(m) => Fit(t))
<1>1. Frozen(m) => OneDriver(m) /\ Armed(m) /\ Fit(m)
  BY DEF Frozen, OneDriver, Armed, Fit
<1>2. CASE m.phase = "resolve_queue"
  <2>1. t \in AdvanceTurn(m, up)
    BY <1>2, FailuresAreOutcomes DEF RunCpuStepFails
  <2> QED BY <1>1, <1>2, <2>1, AdvanceTurnFacts DEF Advanced
<1>3. CASE m.phase \in {"wait_move", "wait_route"} /\ t \in ApplySelectedMoveFails(m)
  <2>1. t \in ApplySelectedMove(m, up)
    BY <1>3, FailuresAreOutcomes
  <2> QED BY <1>1, <2>1, ApplySelectedMoveFacts DEF Advanced
<1>4. CASE t = m
  BY <1>1, <1>4 DEF Moved, SameSuspension, Ending
<1> QED BY <1>2, <1>3, <1>4 DEF RunCpuStepFails

\* A failed step is recorded, and nothing else.
LEMMA StepFailedFacts ==
  ASSUME NEW m, RuntimeOK(m), NEW t, t = StepFailed(m)
  PROVE  /\ RuntimeOK(t) /\ SameSuspension(m, t) /\ SameSeat(m, t) /\ SameTimers(m, t)
         /\ t.lapse = m.lapse \union {"step_failed"}
<1>1. t = [m EXCEPT !.lapse = @ \union {"step_failed"}]
  BY DEF StepFailed
<1>2. Shape(t)
  BY <1>1, Zenon DEF Shape, RuntimeOK
<1>3. Typed(t)
  BY <1>1, SMT DEF RuntimeOK, Shape, Fields, Typed, Lapses
<1>4. SameSuspension(m, t) /\ SameTimers(m, t)
  BY <1>1, SMT DEF RuntimeOK, Shape, Fields, SameSuspension, SameTimers
<1>5. SameSeat(m, t) /\ t.lapse = m.lapse \union {"step_failed"}
  BY <1>1, SMT DEF RuntimeOK, Shape, Fields, SameSeat
<1> QED BY <1>2, <1>3, <1>4, <1>5 DEF RuntimeOK, SameSeat

\* runCpuTurnLocked, called with no timer armed, leaves the turn driven.
LEMMA RunCpuTurnFacts ==
  ASSUME NEW m, NEW up, RuntimeOK(m), Ending(m), NEW t \in RunCpuTurn(m, up)
  PROVE  /\ Moved(m, t)
         /\ Fit(m) /\ (m.cpuControlled => Frozen(m)) => Ran(m, t)
<1>1. CASE ~m.cpuControlled \/ m.phase = "match_end"
  <2>1. t = m
    BY <1>1 DEF RunCpuTurn
  <2>2. Moved(m, t)
    BY <2>1 DEF Moved, SameSuspension
  <2> QED BY <1>1, <2>1, <2>2 DEF Ran, Moved, CpuDue
<1>2. CASE m.cpuControlled /\ m.phase # "match_end"
  <2>1. \/ \E s \in RunCpuStep(m, up) :
             t = IF s.phase = "match_end" THEN s ELSE ScheduleCPUAction(s)
        \/ \E s \in RunCpuStepFails(m) : t = StepFailed(s)
    BY <1>2 DEF RunCpuTurn
  <2>2. ~m.finishMatch
    BY <1>2 DEF Ending
  <2>3. ASSUME NEW s \in RunCpuStep(m, up),
               t = IF s.phase = "match_end" THEN s ELSE ScheduleCPUAction(s)
        PROVE  Moved(m, t) /\ (Frozen(m) => Ran(m, t))
    <3>1. Moved(m, s) /\ (Frozen(m) => Fit(s))
      BY <1>2, <2>2, RunCpuStepFacts
    <3>2. CASE s.phase = "match_end"
      BY <2>3, <3>1, <3>2 DEF Ran, Moved
    <3>3. CASE s.phase # "match_end"
      <4>1. t = ScheduleCPUAction(s) /\ RuntimeOK(s)
        BY <2>3, <3>1, <3>3 DEF Moved
      <4>2. /\ RuntimeOK(t) /\ SameSuspension(s, t) /\ SameSeat(s, t)
            /\ t.turnTimer = s.turnTimer /\ t.timerKind = s.timerKind
            /\ ~s.cpuControlled => t.lapse = s.lapse
            /\ t.cpuTimer = IF s.cpuControlled /\ s.cpuTimer = "nil" THEN "pending" ELSE s.cpuTimer
        BY <4>1, ScheduleCPUActionFacts
      <4>3. Moved(m, t)
        <5>1. SameSuspension(m, t)
          BY <3>1, <4>2 DEF Moved, SameSuspension
        <5>2. Ending(t)
          BY <3>1, <3>3, <4>2 DEF Moved, Ending, SameSeat
        <5> QED BY <4>2, <5>1, <5>2 DEF Moved
      <4>4. Fit(s) => Fit(t) /\ CpuDue(t)
        BY <3>3, <4>2 DEF Fit, Owed, WindowGone, OneDriver, CpuDue, Driven, WindowKind, SameSeat
      <4> QED BY <3>1, <4>3, <4>4 DEF Ran, Moved
    <3> QED BY <3>2, <3>3
  <2>4. ASSUME NEW s \in RunCpuStepFails(m), t = StepFailed(s)
        PROVE  Moved(m, t) /\ (Frozen(m) => Ran(m, t))
    <3>1. Moved(m, s) /\ (Frozen(m) => Fit(s))
      BY <1>2, <2>2, RunCpuStepFailsFacts
    <3>2. RuntimeOK(t) /\ SameSuspension(s, t) /\ SameSeat(s, t) /\ SameTimers(s, t)
          /\ t.lapse = s.lapse \union {"step_failed"}
      BY <2>4, <3>1, StepFailedFacts DEF Moved
    <3>3. Moved(m, t)
      BY <3>1, <3>2 DEF Moved, SameSuspension, Ending, Frozen, SameSeat, SameTimers
    <3>4. CpuDue(t) /\ (Fit(s) => Fit(t))
      BY <3>2 DEF CpuDue, Owed, ActionGone, Fit, WindowGone, OneDriver, Frozen, Driven, WindowKind,
                  SameSeat, SameTimers
    <3> QED BY <3>1, <3>3, <3>4 DEF Ran, Moved
  <2> QED BY <1>2, <2>1, <2>3, <2>4
<1> QED BY <1>1, <1>2 DEF RuntimeOK, Typed
-----------------------------------------------------------------------------
\* During an outage a retry is due under the attempt the runtime expects; only
\* an abandoned match may have used them up.
Watched(m) ==
  m.storagePaused => m.retryDue = {m.retryAttempt} \/ (m.retryDue = {} /\ m.allDisconnected)

\* What holds of a live match whatever late commands did: it is frozen while
\* paused, in an outage or ending, and its absence has a watchdog.
Base(m, up) ==
  /\ m.live /\ m.matchNo # 0 /\ Ending(m)
  /\ m.finishMatch => ~m.paused /\ ~m.storagePaused
  /\ m.allDisconnected => up = {} /\ m.presenceTimer
  /\ m.paused \/ m.storagePaused => Frozen(m)
  /\ Watched(m)

\* The window a suspended turn will get back: the one the absence remembers, or
\* the one the pause or the outage preserved.
Window(m) ==
  IF m.allDisconnected /\ m.presenceKind # "none" THEN m.presenceKind ELSE m.preservedKind

\* A remembered window is of the kind the phase asks for.
Held(m, kind) == kind = "none" \/ (kind = WindowKind(m) /\ m.phase # "resolve_queue")

\* Outside a suspension nothing is preserved; the CPU and a match that is over
\* have no window; a player's window is remembered by somebody, or was lost.
Kept(m) ==
  /\ ~Suspended(m) => m.preservedKind = "none"
  /\ m.cpuControlled \/ m.phase = "match_end"
       => m.preservedKind = "none" /\ (m.allDisconnected => m.presenceKind = "none")
  /\ Suspended(m) /\ ~m.cpuControlled /\ m.phase # "match_end"
       => /\ Held(m, m.preservedKind) /\ (m.allDisconnected => Held(m, m.presenceKind))
          /\ WindowGone(m) \/ Window(m) # "none"

\* What holds of a live match on which no late command acted.
Good(m, up) ==
  /\ m.allDisconnected <=> up = {}
  /\ m.paused => Host \in up
  /\ OneDriver(m)
  /\ Suspended(m) => Frozen(m)
  /\ Kept(m)
  /\ ~Suspended(m) /\ Owed(m) /\ m.phase # "match_end" => Driven(m)
  /\ m.phase = "match_end" =>
       "finish_lost" \in m.lapse \/ m.finishMatch \/ (m.storagePaused /\ m.finishAfterSave)

\* A live match between two steps of its handlers.
Sound(m, up) == RuntimeOK(m) /\ Base(m, up) /\ (~m.lateActed => Good(m, up))

\* The runtime between two actions: no match, or a sound one with nothing that
\* waits to be saved.
Rest(m, up) == RuntimeOK(m) /\ ~m.finishMatch /\ (m.live => Sound(m, up))

\* The match is over; only its number and its pause expiry outlive it.
Gone(m, t) ==
  /\ RuntimeOK(t) /\ ~t.live /\ ~t.finishMatch
  /\ t.matchNo = m.matchNo /\ t.pauseDue = m.pauseDue

\* Dropping the runtime leaves that.
LEMMA DetachedFacts ==
  ASSUME NEW m, RuntimeOK(m), NEW room \in {"lobby", "in_match", "post_match", "closed"},
         NEW ended \in SUBSET {"finished", "invalid"}, NEW saved \in BOOLEAN,
         NEW t, t = Detached(m, room, ended, saved)
  PROVE  Gone(m, t)
<1>1. t = NewRuntime(room, m.matchNo, m.order, m.pauseDue, ended, saved)
  BY DEF Detached
<1>2. Shape(t)
  <2>1. DOMAIN t = Fields
    BY <1>1, SMT DEF NewRuntime, Fields
  <2>2. t = [f \in DOMAIN t |-> t[f]]
    BY <1>1, Zenon DEF NewRuntime
  <2> QED BY <2>1, <2>2 DEF Shape
<1>3. Typed(t)
  BY <1>1, SMT DEF NewRuntime, Typed, RuntimeOK, TimerKinds, Phases, Callbacks, Lapses, StorageRetries
<1>4. /\ t.cur = 1 /\ t.order = m.order /\ ~t.live /\ ~t.finishMatch
      /\ t.matchNo = m.matchNo /\ t.pauseDue = m.pauseDue
  BY <1>1, SMT DEF NewRuntime
<1>5. m.order # <<>> /\ m.order \in Seq(Humans \union Lobby_CPUs)
  BY ConfigAssumption DEF RuntimeOK, Typed
<1>6. 1 \in 1 .. Len(m.order)
  BY <1>5
<1> QED BY <1>2, <1>3, <1>4, <1>6 DEF RuntimeOK, Gone

\* detachFinishedMatchLocked drops the runtime.
LEMMA DetachFinishedMatchFacts ==
  ASSUME NEW m, RuntimeOK(m), NEW t, t = DetachFinishedMatch(m)
  PROVE  Gone(m, t)
<1>1. /\ m.room \in {"lobby", "in_match", "post_match", "closed"}
      /\ m.ended \union {"finished"} \in SUBSET {"finished", "invalid"}
  BY DEF RuntimeOK, Typed
<1>2. t = Detached(m, m.room, m.ended \union {"finished"}, TRUE) /\ TRUE \in BOOLEAN
  BY DEF DetachFinishedMatch
<1> QED BY <1>1, <1>2, DetachedFacts, Zenon

\* What entering an outage leaves of a match.
StoragePaused(m, t) ==
  /\ RuntimeOK(t)
  /\ t.live = m.live /\ t.matchNo = m.matchNo
  /\ t.paused = m.paused /\ t.pauseUsed = m.pauseUsed /\ t.pauseTimer = m.pauseTimer
  /\ t.pauseDue = m.pauseDue
  /\ t.allDisconnected = m.allDisconnected /\ t.presenceTimer = m.presenceTimer
  /\ t.presenceKind = m.presenceKind
  /\ t.storagePaused /\ t.retryAttempt = 0 /\ t.retryDue = {0}
  /\ t.finishAfterSave = m.finishMatch /\ ~t.finishMatch
  /\ t.lateActed = m.lateActed
  /\ "pause" \in t.stale <=> "pause" \in m.stale
  /\ t.phase = m.phase /\ t.cpuControlled = m.cpuControlled
  /\ m.lapse \subseteq t.lapse /\ (m.finishAfterSave => "finish_lost" \in t.lapse)

\* Staging the outage does that.
LEMMA StoragePauseFacts ==
  ASSUME NEW m, RuntimeOK(m), NEW t, t = StoragePause(m)
  PROVE  /\ StoragePaused(m, t) /\ SameTimers(m, t)
         /\ t.preservedKind = m.preservedKind
<1> PICK L : L = {l \in {"finish_lost"} : m.finishAfterSave}
  OBVIOUS
<1> PICK S : S = Outliving(m, {"retry"})
  OBVIOUS
<1>1. L \subseteq Lapses /\ (m.finishAfterSave => "finish_lost" \in L) /\ S \subseteq {"retry"}
  BY OutlivingIsSubset DEF Lapses
<1>2. t = [m EXCEPT !.storagePaused = TRUE, !.retryAttempt = 0, !.retryDue = {0},
                    !.taken = FALSE, !.stale = @ \union S,
                    !.finishAfterSave = m.finishMatch, !.finishMatch = FALSE,
                    !.lapse = @ \union L]
  BY DEF StoragePause
<1>3. Shape(t)
  BY <1>2, Zenon DEF Shape, RuntimeOK
<1>4. Typed(t)
  BY <1>1, <1>2, SMT DEF RuntimeOK, Shape, Fields, Typed, StorageRetries, Callbacks
<1>5. t.cur = m.cur /\ t.order = m.order /\ SameTimers(m, t) /\ t.preservedKind = m.preservedKind
  BY <1>2, SMT DEF RuntimeOK, Shape, Fields, SameTimers
<1>6. RuntimeOK(t)
  BY <1>3, <1>4, <1>5 DEF RuntimeOK
<1>7. /\ t.storagePaused /\ t.retryAttempt = 0 /\ t.retryDue = {0}
      /\ t.finishAfterSave = m.finishMatch /\ ~t.finishMatch /\ t.lapse = m.lapse \union L
  BY <1>2, SMT DEF RuntimeOK, Shape, Fields
<1> QED BY <1>1, <1>2, <1>6, <1>7, <1>5, SMT DEF RuntimeOK, Shape, Fields, StoragePaused

\* enterStoragePauseLocked does it, with the turn frozen and its window kept
\* unless another suspension already keeps one.
LEMMA EnterStoragePauseFacts ==
  ASSUME NEW m, RuntimeOK(m), NEW t \in EnterStoragePause(m)
  PROVE  /\ StoragePaused(m, t)
         /\ IF m.finishMatch
            THEN SameTimers(m, t) /\ t.preservedKind = m.preservedKind
            ELSE /\ Frozen(t)
                 /\ t.preservedKind = IF m.preservedKind = "none" THEN m.timerKind
                                      ELSE m.preservedKind
<1> PICK s : s = StoragePause(m)
  OBVIOUS
<1>1. StoragePaused(m, s) /\ SameTimers(m, s) /\ s.preservedKind = m.preservedKind
  BY StoragePauseFacts
<1>2. CASE m.finishMatch
  <2>1. t = s
    BY <1>2 DEF EnterStoragePause
  <2> QED BY <1>1, <1>2, <2>1
<1>3. CASE ~m.finishMatch
  <2>1. PICK r : /\ t = CancelTimer(r) /\ StoragePaused(m, r)
                 /\ r.preservedKind = IF m.preservedKind = "none" THEN m.timerKind
                                      ELSE m.preservedKind
    <3>1. CASE m.preservedKind = "none" /\ m.timerKind # "none"
      <4>1. PICK left \in Remaining(m) :
              t = CancelTimer([s EXCEPT !.preservedKind = m.timerKind, !.preservedRemaining = left])
        BY <1>3, <3>1 DEF EnterStoragePause
      <4> PICK r : r = [s EXCEPT !.preservedKind = m.timerKind, !.preservedRemaining = left]
        OBVIOUS
      <4>2. left \in 0 .. 1 /\ m.timerKind \in TimerKinds /\ RuntimeOK(s)
        BY <1>1 DEF Remaining, RuntimeOK, Typed, StoragePaused
      <4>3. Shape(r)
        BY <1>1, Zenon DEF Shape, RuntimeOK, StoragePaused
      <4>4. Typed(r) /\ r.cur = s.cur /\ r.order = s.order
        BY <4>2, SMT DEF RuntimeOK, Shape, Fields, Typed
      <4>5. RuntimeOK(r)
        BY <1>1, <4>3, <4>4 DEF RuntimeOK, StoragePaused
      <4>6. StoragePaused(m, r) /\ r.preservedKind = m.timerKind
        BY <1>1, <4>5, SMT DEF RuntimeOK, Shape, Fields, StoragePaused
      <4> QED BY <3>1, <4>1, <4>6
    <3>2. CASE ~(m.preservedKind = "none" /\ m.timerKind # "none")
      <4>1. t = CancelTimer(s)
        BY <1>3, <3>2 DEF EnterStoragePause
      <4> QED BY <1>1, <3>2, <4>1
    <3> QED BY <3>1, <3>2
  <2>2. RuntimeOK(t) /\ SameSuspension(r, t) /\ SameTurn(r, t) /\ Frozen(t)
    BY <2>1, CancelTimerFacts DEF StoragePaused
  <2>3. StoragePaused(m, t)
    BY <2>1, <2>2 DEF StoragePaused, SameSuspension, SameTurn
  <2>4. t.preservedKind = r.preservedKind
    BY <2>2 DEF SameSuspension
  <2> QED BY <1>3, <2>1, <2>2, <2>3, <2>4
<1> QED BY <1>2, <1>3 DEF RuntimeOK, Typed

\* An outage that begins at any point of a sound match leaves a sound match.
LEMMA EnterStoragePauseIsSound ==
  ASSUME NEW m, NEW up, Sound(m, up), NEW t \in EnterStoragePause(m)
  PROVE  Sound(t, up)
<1>1. RuntimeOK(m) /\ Base(m, up)
  BY DEF Sound
<1>2. /\ StoragePaused(m, t)
      /\ m.finishMatch => SameTimers(m, t) /\ t.preservedKind = m.preservedKind
      /\ ~m.finishMatch => Frozen(t)
      /\ ~m.finishMatch => t.preservedKind = IF m.preservedKind = "none" THEN m.timerKind
                                             ELSE m.preservedKind
  BY <1>1, EnterStoragePauseFacts
<1>3. Frozen(t)
  BY <1>1, <1>2 DEF Base, Ending, SameTimers, Frozen
<1>4. Base(t, up)
  BY <1>1, <1>2, <1>3 DEF Base, Watched, StoragePaused, Ending
<1>5. ASSUME ~t.lateActed PROVE Good(t, up)
  <2>1. Good(m, up)
    BY <1>2, <1>5 DEF StoragePaused, Sound
  <2>2. Suspended(t)
    BY <1>2 DEF StoragePaused, Suspended
  <2>3. OneDriver(t)
    BY <1>3 DEF Frozen, OneDriver
  <2>4. t.phase = "match_end" => "finish_lost" \in t.lapse \/ t.finishAfterSave
    BY <1>2, <2>1 DEF StoragePaused, Good
  <2>5. t.cpuControlled \/ t.phase = "match_end"
          => t.preservedKind = "none" /\ (t.allDisconnected => t.presenceKind = "none")
    BY <1>2, <2>1 DEF StoragePaused, Good, Kept, OneDriver, Frozen
  <2>6. ASSUME ~t.cpuControlled, t.phase # "match_end"
        PROVE  /\ Held(t, t.preservedKind) /\ (t.allDisconnected => Held(t, t.presenceKind))
               /\ WindowGone(t) \/ Window(t) # "none"
    <3>1. /\ ~m.cpuControlled /\ m.phase # "match_end" /\ t.phase = m.phase
          /\ WindowGone(m) => WindowGone(t)
      BY <1>2, <2>6 DEF StoragePaused, WindowGone
    <3>2. ~m.finishMatch /\ \A k : Held(t, k) <=> Held(m, k)
      BY <1>1, <3>1 DEF Base, Ending, Held, WindowKind
    <3>3. CASE Suspended(m)
      <4>1. /\ Held(m, m.preservedKind) /\ (m.allDisconnected => Held(m, m.presenceKind))
            /\ WindowGone(m) \/ Window(m) # "none"
        BY <2>1, <3>1, <3>3 DEF Good, Kept
      <4>2. m.timerKind = "none"
        BY <2>1, <3>3 DEF Good, Frozen
      <4>3. t.preservedKind = m.preservedKind
        BY <1>2, <3>2, <4>2
      <4>4. Window(t) = Window(m)
        BY <1>2, <4>3 DEF Window, StoragePaused
      <4> QED BY <1>2, <3>1, <3>2, <4>1, <4>3, <4>4 DEF StoragePaused
    <3>4. CASE ~Suspended(m)
      <4>1. (Owed(m) => Driven(m)) /\ m.preservedKind = "none" /\ ~m.allDisconnected
        BY <2>1, <3>1, <3>4 DEF Good, Kept, Suspended
      <4>2. t.preservedKind = m.timerKind /\ Window(t) = t.preservedKind /\ ~t.allDisconnected
        BY <1>2, <3>2, <4>1 DEF Window, StoragePaused
      <4>3. Held(m, m.timerKind) /\ (WindowGone(m) \/ m.timerKind # "none")
        BY <3>1, <4>1 DEF Owed, Driven, Held, WindowKind
      <4> QED BY <3>1, <3>2, <4>2, <4>3
    <3> QED BY <3>3, <3>4
  <2>7. Kept(t)
    BY <2>2, <2>5, <2>6 DEF Kept
  <2>8. (t.allDisconnected <=> up = {}) /\ (t.paused => Host \in up) /\ t.storagePaused
    BY <1>2, <2>1 DEF StoragePaused, Good
  <2> QED BY <1>3, <2>2, <2>3, <2>4, <2>7, <2>8 DEF Good
<1> QED BY <1>2, <1>4, <1>5 DEF Sound, StoragePaused

\* Soundness does not depend on the retry counters, if the outage is watched.
LEMMA RetryFrame ==
  ASSUME NEW m, NEW up, Sound(m, up), NEW t, RuntimeOK(t), Watched(t),
         SameButRetry(m, t), SameTurn(m, t), SameTimers(m, t)
  PROVE  Sound(t, up)
<1>1. Base(t, up)
  BY DEF Sound, Base, Watched, Ending, Frozen, SameButRetry, SameTurn, SameTimers
<1>2. Suspended(t) = Suspended(m) /\ WindowKind(t) = WindowKind(m) /\ Window(t) = Window(m)
  BY DEF Suspended, WindowKind, Window, SameButRetry, SameTurn
<1>3. (OneDriver(m) => OneDriver(t)) /\ (Driven(m) => Driven(t)) /\ (Frozen(m) => Frozen(t))
  BY <1>2 DEF OneDriver, Driven, Frozen, SameTurn, SameTimers
<1>6. WindowGone(t) = WindowGone(m) /\ Owed(t) = Owed(m)
  BY DEF Owed, WindowGone, ActionGone, SameTurn, SameTimers
<1>4. Kept(m) => Kept(t)
  BY <1>2, <1>6 DEF Kept, Held, SameButRetry, SameTurn
<1>5. ASSUME ~t.lateActed PROVE Good(t, up)
  <2>1. Good(m, up)
    BY <1>5 DEF Sound, SameButRetry
  <2> QED BY <1>2, <1>3, <1>4, <1>6, <2>1 DEF Good, SameButRetry, SameTurn
<1> QED BY <1>1, <1>5 DEF Sound

\* Soundness does not depend on the bookkeeping of the pause.
LEMMA SoundFrame ==
  ASSUME NEW m, NEW up, Sound(m, up), NEW t, RuntimeOK(t),
         SameWatch(m, t), SameTurn(m, t), SameTimers(m, t)
  PROVE  Sound(t, up)
<1>1. Watched(t) /\ SameButRetry(m, t)
  BY DEF Sound, Base, Watched, SameWatch, SameButRetry
<1> QED BY <1>1, RetryFrame

\* eventTx.flush of a sound match: saved, ended, or paused by the outage.
LEMMA FlushIsRest ==
  ASSUME NEW m, NEW up, Sound(m, up), NEW t \in Flush(m)
  PROVE  Rest(t, up)
<1>1. RuntimeOK(m)
  BY DEF Sound
<1>2. \/ m.finishMatch /\ t = DetachFinishedMatch(m)
      \/ ~m.finishMatch /\ t = [m EXCEPT !.taken = @ \/ m.storagePaused]
      \/ t \in EnterStoragePause(m)
  BY DEF Flush
<1>3. CASE m.finishMatch /\ t = DetachFinishedMatch(m)
  BY <1>1, <1>3, DetachFinishedMatchFacts DEF Rest, Gone
<1>4. CASE ~m.finishMatch /\ t = [m EXCEPT !.taken = @ \/ m.storagePaused]
  <2>1. Shape(t)
    BY <1>1, <1>4, Zenon DEF Shape, RuntimeOK
  <2>2. Typed(t)
    BY <1>1, <1>4, SMT DEF RuntimeOK, Shape, Fields, Typed
  <2>3. SameSuspension(m, t) /\ SameTurn(m, t) /\ SameTimers(m, t)
    BY <1>1, <1>4, SMT DEF RuntimeOK, Shape, Fields, SameSuspension, SameTurn, SameTimers
  <2>4. RuntimeOK(t) /\ ~t.finishMatch
    BY <1>1, <1>4, <2>1, <2>2, <2>3 DEF RuntimeOK, SameTurn
  <2>5. SameWatch(m, t)
    BY <2>3 DEF SameSuspension, SameWatch, SameButRetry
  <2> QED BY <2>3, <2>4, <2>5, SoundFrame DEF Rest
<1>5. CASE t \in EnterStoragePause(m)
  <2>1. Sound(t, up)
    BY <1>5, EnterStoragePauseIsSound
  <2>2. ~t.finishMatch
    BY <1>1, <1>5, EnterStoragePauseFacts DEF StoragePaused
  <2> QED BY <2>1, <2>2 DEF Rest, Sound
<1> QED BY <1>2, <1>3, <1>4, <1>5

\* The same for each outcome of a handler.
LEMMA FlushAllIsRest ==
  ASSUME NEW ms, NEW up, \A m \in ms : Sound(m, up), NEW t \in FlushAll(ms)
  PROVE  Rest(t, up)
<1>1. PICK m \in ms : t \in Flush(m)
  BY DEF FlushAll
<1> QED BY <1>1, FlushIsRest

\* A sound match with nothing to save is at rest.
LEMMA SoundAtRest ==
  ASSUME NEW m, NEW up, Sound(m, up), ~m.finishMatch
  PROVE  Rest(m, up)
BY DEF Rest, Sound
-----------------------------------------------------------------------------
\* A live match that nothing suspends.
Running(m, up) ==
  /\ RuntimeOK(m) /\ Ending(m) /\ m.live /\ m.matchNo # 0 /\ ~m.paused /\ ~m.storagePaused
  /\ m.allDisconnected => up = {} /\ m.presenceTimer
  /\ ~m.lateActed => ~m.allDisconnected /\ up # {} /\ m.preservedKind = "none"

\* A turn handler leaves a match that nothing suspends sound.
LEMMA RanIsSound ==
  ASSUME NEW m, NEW up, Running(m, up), NEW t, Moved(m, t), ~m.lateActed => Ran(m, t)
  PROVE  Sound(t, up)
<1>1. RuntimeOK(t) /\ SameSuspension(m, t) /\ Ending(t)
  BY DEF Moved
<1>2. Base(t, up)
  BY <1>1 DEF Running, Base, Watched, SameSuspension
<1>3. ASSUME ~t.lateActed PROVE Good(t, up)
  <2>1. Fit(t) /\ (t.phase # "match_end" => CpuDue(t)) /\ ~m.lateActed
    BY <1>1, <1>3 DEF SameSuspension, Ran
  <2>2. ~Suspended(t) /\ t.preservedKind = "none" /\ ~t.allDisconnected /\ ~t.paused
    BY <1>1, <2>1 DEF Running, Suspended, SameSuspension
  <2>3. Kept(t)
    BY <2>2 DEF Kept
  <2>4. Owed(t) /\ t.phase # "match_end" => Driven(t)
    BY <2>1 DEF Fit, CpuDue, Driven, Owed
  <2> QED BY <2>1, <2>2, <2>3, <2>4 DEF Good, Fit, Running
<1> QED BY <1>1, <1>2, <1>3 DEF Sound

\* A sound match that nothing suspends is fit to run.
LEMMA SoundIsFit ==
  ASSUME NEW m, NEW up, Sound(m, up), ~m.paused, ~m.storagePaused,
         m.lateActed \/ ~m.allDisconnected
  PROVE  /\ Running(m, up)
         /\ ~m.lateActed => Fit(m) /\ (m.phase # "match_end" => CpuDue(m))
<1>1. RuntimeOK(m) /\ Base(m, up)
  BY DEF Sound
<1>2. ASSUME ~m.lateActed
      PROVE  /\ ~m.allDisconnected /\ up # {} /\ m.preservedKind = "none"
             /\ Fit(m) /\ (m.phase # "match_end" => CpuDue(m))
  <2>1. Good(m, up) /\ ~Suspended(m)
    BY <1>2 DEF Sound, Suspended
  <2>2. Fit(m)
    BY <2>1 DEF Good, Fit, Owed, Suspended
  <2>3. m.phase # "match_end" => CpuDue(m)
    BY <2>1 DEF Good, CpuDue, Driven, Owed
  <2> QED BY <1>2, <2>1, <2>2, <2>3 DEF Good, Kept, Suspended
<1> QED BY <1>1, <1>2 DEF Running, Base

\* stopPauseTimerLocked touches the pause timer only; its callback may outlive
\* it when it was due.
LEMMA StopPauseTimerFacts ==
  ASSUME NEW m, RuntimeOK(m), NEW t, t = StopPauseTimer(m)
  PROVE  /\ RuntimeOK(t) /\ SameWatch(m, t) /\ SameTurn(m, t) /\ SameTimers(m, t)
         /\ t.matchNo = m.matchNo /\ t.pauseUsed = m.pauseUsed /\ ~t.pauseTimer
         /\ t.pauseDue = IF m.pauseTimer THEN m.pauseDue \ {m.matchNo} ELSE m.pauseDue
         /\ "pause" \in t.stale =>
              "pause" \in m.stale \/ (m.pauseTimer /\ m.matchNo \in m.pauseDue)
<1>1. CASE ~m.pauseTimer
  BY <1>1 DEF StopPauseTimer, SameWatch, SameButRetry, SameTurn, SameTimers
<1>2. CASE m.pauseTimer
  <2> PICK S : S = Outliving(m, {"pause"})
    OBVIOUS
  <2>1. S \subseteq {"pause"} /\ ("pause" \in S => m.matchNo \in m.pauseDue)
    BY OutlivingIsSubset DEF Outliving
  <2>2. t = [m EXCEPT !.pauseTimer = FALSE, !.pauseDue = @ \ {m.matchNo}, !.stale = @ \union S]
    BY <1>2 DEF StopPauseTimer
  <2>3. Shape(t)
    BY <2>2, Zenon DEF Shape, RuntimeOK
  <2>4. Typed(t)
    BY <2>1, <2>2, SMT DEF RuntimeOK, Shape, Fields, Typed, Callbacks
  <2>5. SameWatch(m, t)
    BY <2>2, SMT DEF RuntimeOK, Shape, Fields, SameWatch, SameButRetry
  <2>6. SameTurn(m, t) /\ SameTimers(m, t)
    BY <2>2, SMT DEF RuntimeOK, Shape, Fields, SameTurn, SameTimers
  <2>7. /\ t.matchNo = m.matchNo /\ t.pauseUsed = m.pauseUsed /\ ~t.pauseTimer
        /\ t.pauseDue = m.pauseDue \ {m.matchNo} /\ t.stale = m.stale \union S
    BY <2>2, SMT DEF RuntimeOK, Shape, Fields
  <2> QED BY <1>2, <2>1, <2>3, <2>4, <2>5, <2>6, <2>7 DEF RuntimeOK, SameTurn
<1> QED BY <1>1, <1>2 DEF RuntimeOK, Typed

\* Stopping the pause timer leaves the match sound.
LEMMA StopPauseTimerIsSound ==
  ASSUME NEW m, NEW up, Sound(m, up), NEW t, t = StopPauseTimer(m)
  PROVE  Sound(t, up)
<1>1. RuntimeOK(m)
  BY DEF Sound
<1>2. RuntimeOK(t) /\ SameWatch(m, t) /\ SameTurn(m, t) /\ SameTimers(m, t)
  BY <1>1, StopPauseTimerFacts
<1> QED BY <1>2, SoundFrame

\* What resuming does to the record before the CPU goes on: the preserved
\* window is armed again, or its loss is recorded.
Unpaused(m, c) ==
  /\ RuntimeOK(c)
  /\ c.live = m.live /\ c.matchNo = m.matchNo /\ ~c.paused
  /\ c.pauseUsed = m.pauseUsed /\ c.pauseTimer = m.pauseTimer /\ c.pauseDue = m.pauseDue
  /\ "pause" \in c.stale <=> "pause" \in m.stale
  /\ c.allDisconnected = m.allDisconnected /\ c.presenceTimer = m.presenceTimer
  /\ c.presenceKind = m.presenceKind
  /\ c.storagePaused = m.storagePaused /\ c.lateActed = m.lateActed
  /\ c.phase = m.phase /\ c.cpuControlled = m.cpuControlled /\ c.finishMatch = m.finishMatch

\* resumeMatchLocked, outside an outage, reaches the CPU's turn in that state.
LEMMA UnpauseFacts ==
  ASSUME NEW m, NEW up, RuntimeOK(m), ~m.storagePaused, ~m.turnTimer,
         NEW t \in ResumeMatch(m, up)
  PROVE  \E c : /\ t \in RunCpuTurn(c, up) /\ Unpaused(m, c) /\ c.preservedKind = "none"
                /\ c.cpuTimer = m.cpuTimer
                /\ \/ /\ m.preservedKind # "none" /\ ~m.cpuControlled
                      /\ c.turnTimer /\ c.timerKind = m.preservedKind
                   \/ /\ ~c.turnTimer /\ c.timerKind = m.timerKind /\ m.lapse \subseteq c.lapse
                      /\ m.preservedKind # "none" /\ ~m.cpuControlled => "window_expired" \in c.lapse
<1>s. PICK S : S = Outliving(m, {"turn"})
  OBVIOUS
<1>0. S = {}
  BY <1>s DEF Outliving
<1>a. PICK a : a = [m EXCEPT !.paused = FALSE, !.turnTimer = FALSE, !.fresh = @ \union S]
  OBVIOUS
<1>d. PICK armed \in BOOLEAN :
      armed = (a.preservedKind # "none" /\ a.preservedRemaining > 0 /\ ~a.cpuControlled)
  OBVIOUS
<1>l. PICK L : L = {l \in {"window_expired"} : a.preservedKind # "none" /\ ~a.cpuControlled}
  OBVIOUS
<1>b. PICK b : b = IF armed THEN ArmTimer(a, a.preservedKind) ELSE [a EXCEPT !.lapse = @ \union L]
  OBVIOUS
<1>c. PICK c : c = [b EXCEPT !.preservedKind = "none", !.preservedRemaining = 0]
  OBVIOUS
<1>1. t \in RunCpuTurn(c, up)
  BY <1>s, <1>a, <1>d, <1>l, <1>b, <1>c DEF ResumeMatch
<1>2. Shape(a)
  BY <1>a, Zenon DEF Shape, RuntimeOK
<1>3. Typed(a) /\ a.cur = m.cur /\ a.order = m.order
  BY <1>0, <1>a, SMT DEF RuntimeOK, Shape, Fields, Typed
<1>4. RuntimeOK(a)
  BY <1>2, <1>3 DEF RuntimeOK
<1>5. Unpaused(m, a)
  BY <1>a, <1>4, SMT DEF RuntimeOK, Shape, Fields, Unpaused
<1>6. /\ ~a.turnTimer /\ a.timerKind = m.timerKind /\ a.cpuTimer = m.cpuTimer
      /\ a.preservedKind = m.preservedKind /\ a.lapse = m.lapse
  BY <1>a, SMT DEF RuntimeOK, Shape, Fields
<1>7. /\ Unpaused(m, b) /\ b.cpuTimer = m.cpuTimer
      /\ \/ /\ m.preservedKind # "none" /\ ~m.cpuControlled
            /\ b.turnTimer /\ b.timerKind = m.preservedKind
         \/ /\ ~b.turnTimer /\ b.timerKind = m.timerKind /\ m.lapse \subseteq b.lapse
            /\ m.preservedKind # "none" /\ ~m.cpuControlled => "window_expired" \in b.lapse
  <2>1. CASE armed
    <3>1. b = ArmTimer(a, a.preservedKind) /\ a.preservedKind \in {"throw", "move"}
      BY <1>b, <1>d, <1>3, <2>1 DEF Typed, TimerKinds
    <3>2. /\ RuntimeOK(b) /\ SameSuspension(a, b) /\ SameSeat(a, b)
          /\ b.turnTimer /\ b.timerKind = a.preservedKind /\ b.cpuTimer = a.cpuTimer
      BY <1>4, <3>1, ArmTimerFacts
    <3>3. Unpaused(m, b)
      BY <1>5, <3>2 DEF Unpaused, SameSuspension, SameSeat
    <3>4. a.preservedKind # "none" /\ ~a.cpuControlled
      BY <1>d, <2>1
    <3> QED BY <1>5, <1>6, <3>2, <3>3, <3>4 DEF Unpaused, SameSeat
  <2>2. CASE ~armed
    <3>1. b = [a EXCEPT !.lapse = @ \union L]
      BY <1>b, <2>2
    <3>2. L \subseteq Lapses /\ (a.preservedKind # "none" /\ ~a.cpuControlled => "window_expired" \in L)
      BY <1>l DEF Lapses
    <3>3. Shape(b)
      BY <1>4, <3>1, Zenon DEF Shape, RuntimeOK
    <3>4. Typed(b) /\ b.cur = a.cur /\ b.order = a.order
      BY <1>4, <3>1, <3>2, SMT DEF RuntimeOK, Shape, Fields, Typed
    <3>5. RuntimeOK(b)
      BY <1>4, <3>3, <3>4 DEF RuntimeOK
    <3>6. Unpaused(a, b)
      BY <1>4, <1>5, <3>1, <3>5, SMT DEF RuntimeOK, Shape, Fields, Unpaused
    <3>7. /\ SameTimers(a, b) /\ b.lapse = a.lapse \union L
      BY <1>4, <3>1, SMT DEF RuntimeOK, Shape, Fields, SameTimers
    <3>8. Unpaused(m, b)
      BY <1>5, <3>6 DEF Unpaused
    <3> QED BY <1>5, <1>6, <3>2, <3>7, <3>8 DEF SameTimers, Unpaused
  <2> QED BY <2>1, <2>2
<1>8. RuntimeOK(b)
  BY <1>7 DEF Unpaused
<1>9. Shape(c)
  BY <1>c, <1>8, Zenon DEF Shape, RuntimeOK
<1>10. Typed(c) /\ c.cur = b.cur /\ c.order = b.order
  BY <1>c, <1>8, SMT DEF RuntimeOK, Shape, Fields, Typed, TimerKinds
<1>11. RuntimeOK(c)
  BY <1>8, <1>9, <1>10 DEF RuntimeOK
<1>12. Unpaused(b, c)
  BY <1>c, <1>7, <1>8, <1>11, SMT DEF RuntimeOK, Shape, Fields, Unpaused
<1>13. c.preservedKind = "none" /\ SameTimers(b, c) /\ c.lapse = b.lapse
  BY <1>c, <1>8, SMT DEF RuntimeOK, Shape, Fields, SameTimers
<1>14. Unpaused(m, c)
  BY <1>7, <1>12 DEF Unpaused
<1> QED BY <1>1, <1>7, <1>13, <1>14 DEF SameTimers

\* Resuming a sound paused match leaves it sound: the frozen turn gets its
\* driver back, or the loss of its window is recorded.
LEMMA ResumeMatchIsSound ==
  ASSUME NEW m, NEW up, Sound(m, up), m.paused, NEW now, NEW t \in ResumeMatch(m, now)
  PROVE  Sound(t, up) /\ ~t.paused
<1>1. RuntimeOK(m) /\ Base(m, up) /\ ~m.finishMatch /\ Frozen(m)
  BY DEF Sound, Base
<1>2. ~m.lateActed => Good(m, up) /\ up # {} /\ ~m.allDisconnected
  BY DEF Sound, Good
<1>3. CASE m.storagePaused
  <2>1. t = [m EXCEPT !.paused = FALSE]
    BY <1>3 DEF ResumeMatch
  <2>2. Shape(t)
    BY <1>1, <2>1, Zenon DEF Shape, RuntimeOK
  <2>3. Typed(t)
    BY <1>1, <2>1, SMT DEF RuntimeOK, Shape, Fields, Typed
  <2>4. SameTurn(m, t) /\ SameTimers(m, t) /\ ~t.paused
    BY <1>1, <2>1, SMT DEF RuntimeOK, Shape, Fields, SameTurn, SameTimers
  <2>5. /\ t.live = m.live /\ t.matchNo = m.matchNo /\ t.lateActed = m.lateActed
        /\ t.preservedKind = m.preservedKind
        /\ t.allDisconnected = m.allDisconnected /\ t.presenceTimer = m.presenceTimer
        /\ t.presenceKind = m.presenceKind
        /\ t.storagePaused = m.storagePaused /\ t.retryAttempt = m.retryAttempt
        /\ t.retryDue = m.retryDue /\ t.finishAfterSave = m.finishAfterSave
    BY <1>1, <2>1, SMT DEF RuntimeOK, Shape, Fields
  <2>6. RuntimeOK(t)
    BY <1>1, <2>2, <2>3, <2>4 DEF RuntimeOK, SameTurn
  <2>7. Base(t, up)
    BY <1>1, <1>3, <2>4, <2>5 DEF Base, Watched, Ending, Frozen, SameTurn, SameTimers
  <2>8. ASSUME ~t.lateActed PROVE Good(t, up)
    <3>1. Good(m, up)
      BY <1>2, <2>5, <2>8
    <3>2. Suspended(t) /\ Suspended(m)
      BY <1>3, <2>5 DEF Suspended
    <3>3. Kept(t)
      BY <2>4, <2>5, <3>1, <3>2 DEF Good, Kept, WindowGone, Window, WindowKind, Held, SameTurn
    <3>4. Frozen(t) /\ OneDriver(t)
      BY <1>1, <2>4 DEF Frozen, OneDriver, SameTimers
    <3> QED BY <2>4, <2>5, <3>1, <3>2, <3>3, <3>4 DEF Good, SameTurn
  <2> QED BY <2>4, <2>6, <2>7, <2>8 DEF Sound
<1>4. CASE ~m.storagePaused
  <2>1. PICK c : /\ t \in RunCpuTurn(c, now) /\ Unpaused(m, c) /\ c.preservedKind = "none"
                 /\ c.cpuTimer = m.cpuTimer
                 /\ \/ /\ m.preservedKind # "none" /\ ~m.cpuControlled
                       /\ c.turnTimer /\ c.timerKind = m.preservedKind
                    \/ /\ ~c.turnTimer /\ c.timerKind = m.timerKind /\ m.lapse \subseteq c.lapse
                       /\ m.preservedKind # "none" /\ ~m.cpuControlled => "window_expired" \in c.lapse
    BY <1>1, <1>4, UnpauseFacts, Zenon DEF Frozen
  <2>2. Running(c, up)
    BY <1>1, <1>2, <1>4, <2>1 DEF Running, Unpaused, Base, Ending
  <2>3. ASSUME ~c.lateActed PROVE Fit(c) /\ (c.cpuControlled => Frozen(c))
    <3>1. Good(m, up) /\ ~m.allDisconnected /\ Suspended(m)
      BY <1>2, <2>1, <2>3 DEF Unpaused, Suspended
    <3>2. ~m.cpuControlled /\ m.phase # "match_end" =>
            Held(m, m.preservedKind) /\ (WindowGone(m) \/ m.preservedKind # "none")
      BY <3>1 DEF Good, Kept, Window
    <3>3. OneDriver(c) /\ (c.cpuControlled => Frozen(c))
      BY <1>1, <2>1, <3>1 DEF OneDriver, Frozen, Unpaused, Good, Kept
    <3>4. c.phase = "match_end" => "finish_lost" \in c.lapse
      BY <1>1, <1>4, <2>1, <3>1 DEF Good, Kept, Unpaused
    <3>5. ~c.cpuControlled /\ Owed(c) /\ c.phase # "match_end" => Driven(c)
      <4>1. CASE m.preservedKind # "none" /\ c.turnTimer /\ c.timerKind = m.preservedKind
        BY <2>1, <3>2, <4>1 DEF Driven, Held, WindowKind, Unpaused
      <4>2. CASE /\ c.timerKind = m.timerKind /\ m.lapse \subseteq c.lapse
                 /\ m.preservedKind # "none" /\ ~m.cpuControlled => "window_expired" \in c.lapse
        <5>1. WindowGone(m) => WindowGone(c)
          BY <4>2 DEF WindowGone
        <5>2. "window_expired" \in c.lapse => WindowGone(c)
          BY DEF WindowGone
        <5> QED BY <1>1, <2>1, <3>2, <4>2, <5>1, <5>2 DEF Unpaused, Owed, Frozen
      <4> QED BY <2>1, <4>1, <4>2
    <3> QED BY <3>3, <3>4, <3>5 DEF Fit
  <2>4. Moved(c, t) /\ (~c.lateActed => Ran(c, t))
    BY <2>1, <2>2, <2>3, RunCpuTurnFacts DEF Running
  <2>5. ~t.paused
    BY <2>1, <2>4 DEF Moved, SameSuspension, Unpaused
  <2> QED BY <2>2, <2>4, <2>5, RanIsSound
<1> QED BY <1>3, <1>4 DEF RuntimeOK, Typed

\* firePauseExpiry, with whatever deadline it captured.
LEMMA FirePauseExpiryIsRest ==
  ASSUME NEW m, NEW up, Rest(m, up), NEW deadline, NEW t \in FirePauseExpiry(m, deadline, up)
  PROVE  Rest(t, up)
<1>1. CASE ~m.live
  BY <1>1 DEF FirePauseExpiry
<1>2. CASE m.live
  <2>1. PICK s : s = StopPauseTimer(m)
    OBVIOUS
  <2>2. Sound(s, up) /\ SameTurn(m, s) /\ SameWatch(m, s)
    BY <1>2, <2>1, StopPauseTimerIsSound, StopPauseTimerFacts DEF Rest
  <2>3. CASE m.storagePaused \/ ~m.paused \/ deadline # m.matchNo
    <3>1. t = s
      BY <1>2, <2>1, <2>3 DEF FirePauseExpiry
    <3>2. ~s.finishMatch
      BY <2>2 DEF SameTurn, Rest
    <3> QED BY <2>2, <3>1, <3>2, SoundAtRest
  <2>4. CASE ~(m.storagePaused \/ ~m.paused \/ deadline # m.matchNo)
    <3>1. t \in FlushAll(ResumeMatch(s, up))
      BY <1>2, <2>1, <2>4 DEF FirePauseExpiry
    <3>2. s.paused
      BY <2>2, <2>4 DEF SameWatch, SameButRetry
    <3>3. \A r \in ResumeMatch(s, up) : Sound(r, up)
      BY <2>2, <3>2, ResumeMatchIsSound
    <3> QED BY <3>1, <3>3, FlushAllIsRest
  <2> QED BY <2>3, <2>4
<1> QED BY <1>1, <1>2

\* Only the bookkeeping of the pause differs.
SameButPause(m, t) ==
  RuntimeOK(t) /\ SameWatch(m, t) /\ SameTurn(m, t) /\ SameTimers(m, t)

\* Declaring the pause over touches its bookkeeping only.
LEMMA SettledFacts ==
  ASSUME NEW m, RuntimeOK(m), NEW S, S \subseteq {"pause"},
         NEW t, t = [m EXCEPT !.pauseOver = TRUE, !.pauseDue = @ \ {m.matchNo},
                              !.stale = @ \union S]
  PROVE  /\ SameButPause(m, t) /\ t.pauseUsed = m.pauseUsed
         /\ t.pauseDue = m.pauseDue \ {m.matchNo} /\ t.stale = m.stale \union S
<1>1. Shape(t)
  BY Zenon DEF Shape, RuntimeOK
<1>2. Typed(t)
  BY SMT DEF RuntimeOK, Shape, Fields, Typed, Callbacks
<1>3. SameWatch(m, t)
  BY SMT DEF RuntimeOK, Shape, Fields, SameWatch, SameButRetry
<1>4. /\ SameTurn(m, t) /\ SameTimers(m, t) /\ t.pauseUsed = m.pauseUsed
      /\ t.pauseDue = m.pauseDue \ {m.matchNo} /\ t.stale = m.stale \union S
  BY SMT DEF RuntimeOK, Shape, Fields, SameTurn, SameTimers
<1> QED BY <1>1, <1>2, <1>3, <1>4 DEF RuntimeOK, SameTurn, SameButPause

\* So does arming its timer again.
LEMMA RearmedFacts ==
  ASSUME NEW m, RuntimeOK(m), m.matchNo # 0,
         NEW t, t = [m EXCEPT !.pauseTimer = TRUE, !.pauseDue = @ \union {m.matchNo}]
  PROVE  /\ SameButPause(m, t) /\ t.pauseUsed = m.pauseUsed /\ t.pauseTimer
         /\ t.pauseDue = m.pauseDue \union {m.matchNo} /\ t.stale = m.stale
<1>0. m.matchNo \in 1 .. MaxMatches
  BY ConfigAssumption DEF RuntimeOK, Typed
<1>1. Shape(t)
  BY Zenon DEF Shape, RuntimeOK
<1>2. Typed(t)
  BY <1>0, SMT DEF RuntimeOK, Shape, Fields, Typed
<1>3. SameWatch(m, t)
  BY SMT DEF RuntimeOK, Shape, Fields, SameWatch, SameButRetry
<1>4. /\ SameTurn(m, t) /\ SameTimers(m, t) /\ t.pauseUsed = m.pauseUsed /\ t.pauseTimer
      /\ t.pauseDue = m.pauseDue \union {m.matchNo} /\ t.stale = m.stale
  BY SMT DEF RuntimeOK, Shape, Fields, SameTurn, SameTimers
<1> QED BY <1>1, <1>2, <1>3, <1>4 DEF RuntimeOK, SameTurn, SameButPause

\* settleUserPauseAfterRecoveryLocked.
LEMMA SettleUserPauseIsRest ==
  ASSUME NEW m, NEW up, Sound(m, up), m.paused, NEW t \in SettleUserPause(m, up)
  PROVE  Rest(t, up)
<1>1. RuntimeOK(m) /\ ~m.finishMatch /\ m.matchNo # 0
  BY DEF Sound, Base
<1>2. PICK S : S = Outliving(m, {"pause"})
  OBVIOUS
<1>3. PICK s : s = [m EXCEPT !.pauseOver = TRUE, !.pauseDue = @ \ {m.matchNo}, !.stale = @ \union S]
  OBVIOUS
<1>4. PICK w : w = [m EXCEPT !.pauseTimer = TRUE, !.pauseDue = @ \union {m.matchNo}]
  OBVIOUS
<1>5. t \in FlushAll(ResumeMatch(s, up)) \/ t = w
  BY <1>2, <1>3, <1>4 DEF SettleUserPause
<1>6. CASE t \in FlushAll(ResumeMatch(s, up))
  <2>1. SameButPause(m, s)
    BY <1>1, <1>2, <1>3, OutlivingIsSubset, SettledFacts
  <2>2. Sound(s, up) /\ s.paused
    BY <2>1, SoundFrame DEF SameButPause, SameWatch, SameButRetry
  <2>3. \A r \in ResumeMatch(s, up) : Sound(r, up)
    BY <2>2, ResumeMatchIsSound
  <2> QED BY <1>6, <2>3, FlushAllIsRest
<1>7. CASE t = w
  <2>1. SameButPause(m, w)
    BY <1>1, <1>4, RearmedFacts
  <2>2. Sound(w, up) /\ ~w.finishMatch
    BY <1>1, <2>1, SoundFrame DEF SameButPause, SameTurn
  <2> QED BY <1>7, <2>2, SoundAtRest
<1> QED BY <1>5, <1>6, <1>7

\* The pause's own bookkeeping is unchanged.
SamePause(m, t) ==
  /\ t.matchNo = m.matchNo /\ t.pauseUsed = m.pauseUsed /\ t.pauseTimer = m.pauseTimer
  /\ t.pauseDue = m.pauseDue /\ ("pause" \in t.stale <=> "pause" \in m.stale)

\* Nothing that decides when the host's pause ends has changed.
SamePauseState(m, t) ==
  SamePause(m, t) /\ t.live = m.live /\ t.paused = m.paused /\ t.storagePaused = m.storagePaused

\* A turn handler leaves the pause alone.
LEMMA SuspensionFrame ==
  ASSUME NEW m, NEW t, SameSuspension(m, t)
  PROVE  SamePauseState(m, t)
BY DEF SameSuspension, SamePauseState, SamePause

\* Leaving the pause alone composes.
LEMMA SamePauseTwice ==
  ASSUME NEW m, NEW s, NEW t, SamePauseState(m, s), SamePauseState(s, t)
  PROVE  SamePauseState(m, t)
BY DEF SamePauseState, SamePause

\* A handler of a live match that leaves the pause alone: it ends in a sound
\* match, which it saves or which has nothing to save.
Settles(m, t, up) ==
  \E s : /\ Sound(s, up) /\ SamePauseState(m, s)
         /\ t \in Flush(s) \/ (t = s /\ ~s.finishMatch)

\* The same for a callback, which may find no match.
Handled(m, t, up) ==
  IF m.live THEN Settles(m, t, up)
  ELSE RuntimeOK(t) /\ ~t.finishMatch /\ SamePauseState(m, t)

\* Saving a sound match that kept the pause settles.
LEMMA FlushSettles ==
  ASSUME NEW m, NEW up, NEW s, Sound(s, up), SamePauseState(m, s), NEW t \in Flush(s)
  PROVE  Settles(m, t, up)
BY DEF Settles

\* So does having nothing to save.
LEMMA RestSettles ==
  ASSUME NEW m, NEW up, NEW t, Sound(t, up), SamePauseState(m, t), ~t.finishMatch
  PROVE  Settles(m, t, up)
BY DEF Settles

\* Doing nothing leaves the pause alone.
LEMMA SamePauseReflexive ==
  ASSUME NEW m
  PROVE  SamePauseState(m, m)
BY DEF SamePauseState, SamePause

\* The same for each outcome of a handler.
LEMMA FlushAllSettles ==
  ASSUME NEW m, NEW up, NEW ms, \A s \in ms : Sound(s, up) /\ SamePauseState(m, s),
         NEW t \in FlushAll(ms)
  PROVE  Settles(m, t, up)
<1>1. PICK s \in ms : t \in Flush(s)
  BY DEF FlushAll
<1> QED BY <1>1 DEF Settles

\* A handler that settles leaves the runtime at rest.
LEMMA SettlesIsRest ==
  ASSUME NEW m, NEW up, NEW t, Settles(m, t, up)
  PROVE  Rest(t, up)
BY FlushIsRest, SoundAtRest DEF Settles

\* So does a callback.
LEMMA HandledIsRest ==
  ASSUME NEW m, NEW up, NEW t, m.live \in BOOLEAN, Handled(m, t, up)
  PROVE  Rest(t, up)
<1>1. CASE m.live
  BY <1>1, SettlesIsRest DEF Handled
<1>2. CASE ~m.live
  BY <1>2 DEF Handled, Rest, SamePauseState
<1> QED BY <1>1, <1>2

\* The outage is over; nothing else has changed yet.
Recovered(m, t) ==
  /\ RuntimeOK(t) /\ SameTurn(m, t) /\ SameTimers(m, t) /\ SamePause(m, t)
  /\ t.live = m.live /\ t.paused = m.paused /\ t.lateActed = m.lateActed
  /\ t.preservedKind = m.preservedKind
  /\ t.allDisconnected = m.allDisconnected /\ t.presenceTimer = m.presenceTimer
  /\ t.presenceKind = m.presenceKind /\ ~t.storagePaused

\* Ending the outage in the record does that.
LEMMA RecoveredFacts ==
  ASSUME NEW m, RuntimeOK(m), NEW t, t = [m EXCEPT !.storagePaused = FALSE, !.retryAttempt = 0]
  PROVE  Recovered(m, t)
<1>1. Shape(t)
  BY Zenon DEF Shape, RuntimeOK
<1>2. Typed(t)
  BY SMT DEF RuntimeOK, Shape, Fields, Typed, StorageRetries
<1>3. SameTurn(m, t) /\ SameTimers(m, t)
  BY SMT DEF RuntimeOK, Shape, Fields, SameTurn, SameTimers
<1>4. RuntimeOK(t)
  BY <1>1, <1>2, <1>3 DEF RuntimeOK, SameTurn
<1> QED BY <1>3, <1>4, SMT DEF RuntimeOK, Shape, Fields, SamePause, Recovered

\* The preserved window is forgotten; nothing else changes.
Forgotten(m, t) ==
  /\ RuntimeOK(t) /\ SameTurn(m, t) /\ SameTimers(m, t) /\ SamePause(m, t)
  /\ t.live = m.live /\ t.paused = m.paused /\ t.lateActed = m.lateActed
  /\ t.preservedKind = "none"
  /\ t.allDisconnected = m.allDisconnected /\ t.presenceTimer = m.presenceTimer
  /\ t.presenceKind = m.presenceKind /\ t.storagePaused = m.storagePaused

\* Clearing the preserved window does that.
LEMMA ForgottenFacts ==
  ASSUME NEW m, RuntimeOK(m),
         NEW t, t = [m EXCEPT !.preservedKind = "none", !.preservedRemaining = 0]
  PROVE  Forgotten(m, t)
<1>1. Shape(t)
  BY Zenon DEF Shape, RuntimeOK
<1>2. Typed(t)
  BY SMT DEF RuntimeOK, Shape, Fields, Typed, TimerKinds
<1>3. SameTurn(m, t) /\ SameTimers(m, t)
  BY SMT DEF RuntimeOK, Shape, Fields, SameTurn, SameTimers
<1>4. RuntimeOK(t)
  BY <1>1, <1>2, <1>3 DEF RuntimeOK, SameTurn
<1> QED BY <1>3, <1>4, SMT DEF RuntimeOK, Shape, Fields, SamePause, Forgotten

\* Control of the turn changes hands.
Handed(m, t, cpu) ==
  /\ RuntimeOK(t) /\ SameSuspension(m, t) /\ SameTimers(m, t)
  /\ t.cpuControlled = cpu /\ t.phase = m.phase /\ t.lapse = m.lapse
  /\ t.cur = m.cur /\ t.order = m.order /\ t.finishMatch = m.finishMatch

\* Setting the control of the turn does that.
LEMMA HandedFacts ==
  ASSUME NEW m, RuntimeOK(m), NEW cpu \in BOOLEAN, NEW t, t = [m EXCEPT !.cpuControlled = cpu]
  PROVE  Handed(m, t, cpu)
<1>1. Shape(t)
  BY Zenon DEF Shape, RuntimeOK
<1>2. Typed(t)
  BY SMT DEF RuntimeOK, Shape, Fields, Typed
<1>3. SameSuspension(m, t) /\ SameTimers(m, t)
  BY SMT DEF RuntimeOK, Shape, Fields, SameSuspension, SameTimers
<1>4. /\ t.cpuControlled = cpu /\ t.phase = m.phase /\ t.lapse = m.lapse
      /\ t.cur = m.cur /\ t.order = m.order /\ t.finishMatch = m.finishMatch
  BY SMT DEF RuntimeOK, Shape, Fields
<1>5. RuntimeOK(t)
  BY <1>1, <1>2, <1>4 DEF RuntimeOK
<1> QED BY <1>3, <1>4, <1>5 DEF Handed

\* The CPU takes a turn whose timers are all stopped.
LEMMA HandedIsFit ==
  ASSUME NEW m, NEW t, Handed(m, t, TRUE), Frozen(m),
         m.phase = "match_end" => "finish_lost" \in m.lapse \/ m.finishMatch
  PROVE  Fit(t) /\ Frozen(t)
BY DEF Handed, Fit, Frozen, OneDriver, SameTimers

\* The end of an outage leaves a match that is still suspended sound.
LEMMA RecoveredIsSound ==
  ASSUME NEW m, NEW up, RuntimeOK(m), Base(m, up), ~m.lateActed => Good(m, up),
         m.storagePaused, ~m.finishAfterSave, NEW t, Recovered(m, t), m.paused \/ m.allDisconnected
  PROVE  Sound(t, up)
<1>1. RuntimeOK(t) /\ ~m.finishMatch /\ Frozen(m)
  BY DEF Recovered, Base
<1>2. Frozen(t)
  BY <1>1 DEF Frozen, Recovered, SameTimers
<1>3. Base(t, up)
  BY <1>1, <1>2 DEF Base, Watched, Ending, Recovered, SameTurn, SamePause
<1>4. ASSUME ~t.lateActed PROVE Good(t, up)
  <2>1. Good(m, up)
    BY <1>4 DEF Recovered
  <2>2. Suspended(t) /\ Suspended(m)
    BY DEF Suspended, Recovered
  <2>3. Window(t) = Window(m) /\ WindowKind(t) = WindowKind(m)
    BY DEF Window, WindowKind, Recovered, SameTurn
  <2>4. Kept(t)
    BY <2>1, <2>2, <2>3 DEF Good, Kept, Held, WindowGone, Recovered, SameTurn
  <2>5. OneDriver(t)
    BY <1>2 DEF Frozen, OneDriver
  <2> QED BY <1>1, <1>2, <2>1, <2>2, <2>4, <2>5 DEF Good, Recovered, SameTurn
<1> QED BY <1>1, <1>3, <1>4 DEF Sound

\* A turn handler keeps a match that nothing suspends that way.
LEMMA RunningFrame ==
  ASSUME NEW m, NEW up, Running(m, up), NEW t, RuntimeOK(t), Ending(t), SameSuspension(m, t)
  PROVE  Running(t, up)
BY DEF Running, SameSuspension

\* Only the retry bookkeeping changes.
Retried(m, t) ==
  RuntimeOK(t) /\ SameButRetry(m, t) /\ SameTurn(m, t) /\ SameTimers(m, t) /\ SamePause(m, t)

\* The outage is over in t: the pause and everything about it are as in m.
Resumed(m, t) == SamePause(m, t) /\ t.live /\ ~t.paused /\ ~t.storagePaused

\* What a recovery comes to: the pause is settled, or the match goes on, with
\* or without a batch to save.
LEMMA RecoverCases ==
  ASSUME NEW m, NEW up, Sound(m, up), m.storagePaused, ~m.finishAfterSave,
         NEW r, Retried(m, r), NEW t \in Recover(r, up)
  PROVE  \/ /\ m.paused
            /\ \E q : Sound(q, up) /\ Recovered(m, q) /\ t \in SettleUserPause(q, up)
         \/ /\ ~m.paused
            /\ \E s : /\ Sound(s, up) /\ Resumed(m, s)
                      /\ t \in Flush(s) \/ (t = s /\ ~s.finishMatch)
<1>1. PICK q : q = [r EXCEPT !.storagePaused = FALSE, !.retryAttempt = 0]
  OBVIOUS
<1>2. PICK c : c = [q EXCEPT !.preservedKind = "none", !.preservedRemaining = 0]
  OBVIOUS
<1>3. PICK k : k = [c EXCEPT !.cpuControlled = TRUE]
  OBVIOUS
<1>4. \/ r.paused /\ t \in SettleUserPause(q, up)
      \/ ~r.paused /\ r.allDisconnected /\ t = q
      \/ ~r.paused /\ ~r.allDisconnected /\ t \in FlushAll(RunCpuTurn(k, up))
      \/ ~r.paused /\ ~r.allDisconnected /\ ~r.cpuControlled /\ r.preservedKind = "none" /\ t = c
      \/ /\ ~r.paused /\ ~r.allDisconnected /\ ~r.cpuControlled /\ r.preservedKind # "none"
         /\ t = ArmTimer(c, r.preservedKind)
  BY <1>1, <1>2, <1>3 DEF Recover
<1>5. Recovered(r, q)
  BY <1>1, RecoveredFacts DEF Retried
<1>6. Recovered(m, q)
  <2>1. SameTurn(m, q) /\ SameTimers(m, q) /\ SamePause(m, q)
    BY <1>5 DEF Recovered, Retried, SameTurn, SameTimers, SamePause
  <2> QED BY <1>5, <2>1 DEF Recovered, Retried, SameButRetry
<1>7. Forgotten(q, c)
  BY <1>2, <1>5, ForgottenFacts DEF Recovered
<1>8. Handed(c, k, TRUE)
  BY <1>3, <1>7, HandedFacts, Zenon DEF Forgotten
<1>9. /\ RuntimeOK(m) /\ Base(m, up) /\ (~m.lateActed => Good(m, up)) /\ ~m.finishMatch /\ Frozen(m)
      /\ r.paused = m.paused /\ r.allDisconnected = m.allDisconnected
      /\ r.cpuControlled = m.cpuControlled /\ r.preservedKind = m.preservedKind
  BY DEF Sound, Base, Retried, SameButRetry, SameTurn
<1>10. m.paused \/ m.allDisconnected => Sound(q, up)
  BY <1>6, <1>9, RecoveredIsSound
<1>11. CASE r.paused /\ t \in SettleUserPause(q, up)
  <2>1. Sound(q, up) /\ m.paused
    BY <1>9, <1>10, <1>11
  <2> QED BY <1>6, <1>11, <2>1
<1>12. CASE ~r.paused /\ r.allDisconnected /\ t = q
  <2>1. Sound(q, up) /\ ~q.finishMatch /\ ~m.paused
    BY <1>6, <1>9, <1>10, <1>12 DEF Recovered, SameTurn
  <2>2. Resumed(m, q)
    BY <1>6, <1>9, <1>12 DEF Recovered, Resumed, Base
  <2> QED BY <1>12, <2>1, <2>2
<1>13. SameTurn(m, c) /\ SameTimers(m, c) /\ RuntimeOK(c) /\ Ending(c) /\ Frozen(c) /\ ~c.finishMatch
  <2>1. SameTurn(m, c) /\ SameTimers(m, c) /\ RuntimeOK(c)
    BY <1>6, <1>7 DEF Recovered, Forgotten, SameTurn, SameTimers
  <2> QED BY <1>9, <2>1 DEF Ending, Frozen, SameTurn, SameTimers
<1>14. ASSUME ~m.paused, ~m.allDisconnected
       PROVE  Running(c, up)
  <2>1. /\ c.live /\ ~c.paused /\ ~c.allDisconnected /\ ~c.storagePaused /\ c.preservedKind = "none"
        /\ c.lateActed = m.lateActed /\ c.matchNo # 0
    BY <1>6, <1>7, <1>9, <1>14 DEF Recovered, Forgotten, Base, SamePause
  <2>2. ~m.lateActed => up # {}
    BY <1>9, <1>14 DEF Good
  <2> QED BY <1>13, <2>1, <2>2 DEF Running
<1>15. ~m.lateActed /\ c.phase = "match_end" => "finish_lost" \in c.lapse
  BY <1>9, <1>13 DEF Good, SameTurn
<1>16. c.lateActed = m.lateActed
  BY <1>6, <1>7 DEF Recovered, Forgotten
<1>g. ASSUME NEW s, SameSuspension(c, s), ~m.paused PROVE Resumed(m, s)
  <2>1. Resumed(m, c)
    BY <1>6, <1>7, <1>9, <1>g DEF Recovered, Forgotten, SamePause, Resumed, Base
  <2> QED BY <1>g, <2>1 DEF SameSuspension, SamePause, Resumed
<1>17. CASE ~r.paused /\ ~r.allDisconnected /\ t \in FlushAll(RunCpuTurn(k, up))
  <2>1. RuntimeOK(k) /\ Ending(k) /\ SameSuspension(c, k)
    BY <1>8, <1>13 DEF Handed, Ending
  <2>2. Running(k, up)
    BY <1>9, <1>14, <1>17, <2>1, RunningFrame
  <2>3. ~k.lateActed => Fit(k) /\ Frozen(k)
    BY <1>8, <1>13, <1>15, <1>16, <2>1, HandedIsFit DEF SameSuspension
  <2>4. ASSUME NEW s \in RunCpuTurn(k, up) PROVE Sound(s, up)
    <3>1. Moved(k, s) /\ (~k.lateActed => Ran(k, s))
      BY <2>1, <2>3, RunCpuTurnFacts
    <3> QED BY <2>2, <3>1, RanIsSound
  <2>5. PICK s \in RunCpuTurn(k, up) : t \in Flush(s)
    BY <1>17 DEF FlushAll
  <2>6. Moved(k, s)
    BY <2>1, RunCpuTurnFacts
  <2>7. SameSuspension(c, s)
    BY <2>1, <2>6 DEF Moved, SameSuspension
  <2> QED BY <1>9, <1>g, <1>17, <2>4, <2>5, <2>7
<1>18. ASSUME ~m.lateActed, ~m.paused, ~m.allDisconnected, ~m.cpuControlled, m.phase # "match_end"
       PROVE  Held(m, m.preservedKind) /\ (WindowGone(m) \/ m.preservedKind # "none")
  BY <1>9, <1>18 DEF Good, Kept, Window, Suspended
<1>19. CASE ~r.paused /\ ~r.allDisconnected /\ ~r.cpuControlled /\ r.preservedKind = "none" /\ t = c
  <2>1. Moved(c, c)
    BY <1>13 DEF Moved, SameSuspension
  <2>2. ASSUME ~c.lateActed PROVE Ran(c, c)
    <3>1. Fit(c)
      BY <1>9, <1>13, <1>15, <1>16, <1>18, <1>19, <2>2 DEF Fit, Owed, WindowGone, OneDriver, Frozen, SameTurn
    <3>2. CpuDue(c)
      BY <1>9, <1>13, <1>19 DEF CpuDue, SameTurn
    <3> QED BY <2>1, <3>1, <3>2 DEF Ran, Moved
  <2>3. Sound(c, up)
    BY <1>9, <1>14, <1>19, <2>1, <2>2, RanIsSound
  <2> QED BY <1>9, <1>13, <1>g, <1>19, <2>1, <2>3 DEF Moved
<1>20. CASE /\ ~r.paused /\ ~r.allDisconnected /\ ~r.cpuControlled /\ r.preservedKind # "none"
            /\ t = ArmTimer(c, r.preservedKind)
  <2>1. r.preservedKind \in {"throw", "move"}
    BY <1>20 DEF Retried, RuntimeOK, Typed, TimerKinds
  <2>2. /\ RuntimeOK(t) /\ SameSuspension(c, t) /\ SameSeat(c, t)
        /\ t.turnTimer /\ t.timerKind = r.preservedKind /\ t.cpuTimer = c.cpuTimer
    BY <1>13, <1>20, <2>1, ArmTimerFacts
  <2>3. Moved(c, t) /\ ~t.finishMatch
    BY <1>13, <2>2 DEF Moved, Ending, SameSeat
  <2>4. ASSUME ~c.lateActed PROVE Ran(c, t)
    <3>1. t.phase = m.phase /\ ~t.cpuControlled /\ m.phase # "match_end"
      BY <1>9, <1>13, <1>16, <1>20, <2>2, <2>4 DEF SameTurn, SameSeat, Good, Kept
    <3>2. Driven(t)
      BY <1>9, <1>16, <1>18, <1>20, <2>2, <2>4, <3>1 DEF Driven, Held, WindowKind
    <3>3. Fit(t)
      BY <1>13, <2>2, <3>1, <3>2 DEF Fit, OneDriver, Frozen
    <3> QED BY <2>3, <3>1, <3>3 DEF Ran, Moved, CpuDue
  <2>5. Sound(t, up)
    BY <1>9, <1>14, <1>20, <2>3, <2>4, RanIsSound
  <2> QED BY <1>9, <1>g, <1>20, <2>2, <2>3, <2>5
<1> QED BY <1>4, <1>11, <1>12, <1>17, <1>19, <1>20

\* The tail of fireStorageRetry leaves the runtime at rest.
LEMMA RecoverIsRest ==
  ASSUME NEW m, NEW up, Sound(m, up), m.storagePaused, ~m.finishAfterSave,
         NEW r, Retried(m, r), NEW t \in Recover(r, up)
  PROVE  Rest(t, up)
<1>1. ASSUME m.paused, NEW q, Sound(q, up), Recovered(m, q), t \in SettleUserPause(q, up)
      PROVE  Rest(t, up)
  BY <1>1, SettleUserPauseIsRest DEF Recovered
<1>2. ASSUME NEW s, Sound(s, up), t \in Flush(s) \/ (t = s /\ ~s.finishMatch)
      PROVE  Rest(t, up)
  BY <1>2, FlushIsRest, SoundAtRest
<1> QED BY <1>1, <1>2, RecoverCases
-----------------------------------------------------------------------------
\* Restarting the retries touches their counters only.
LEMMA RetryRestartedFacts ==
  ASSUME NEW m, RuntimeOK(m), NEW t, t = [m EXCEPT !.retryAttempt = 0, !.retryDue = {0}]
  PROVE  Retried(m, t) /\ t.retryAttempt = 0 /\ t.retryDue = {0}
<1>1. Shape(t)
  BY Zenon DEF Shape, RuntimeOK
<1>2. Typed(t)
  BY SMT DEF RuntimeOK, Shape, Fields, Typed, StorageRetries
<1>3. SameTurn(m, t) /\ SameTimers(m, t)
  BY SMT DEF RuntimeOK, Shape, Fields, SameTurn, SameTimers
<1>4. SameButRetry(m, t) /\ SamePause(m, t) /\ t.retryAttempt = 0 /\ t.retryDue = {0}
  BY SMT DEF RuntimeOK, Shape, Fields, SameButRetry, SamePause
<1> QED BY <1>1, <1>2, <1>3, <1>4 DEF RuntimeOK, SameTurn, Retried

\* So does a retry callback that starts to run.
LEMMA RetryTakenFacts ==
  ASSUME NEW m, RuntimeOK(m), NEW t, t = [m EXCEPT !.retryDue = {}]
  PROVE  Retried(m, t) /\ t.retryAttempt = m.retryAttempt /\ t.retryDue = {} /\ t.taken = m.taken
<1>1. Shape(t)
  BY Zenon DEF Shape, RuntimeOK
<1>2. Typed(t)
  BY SMT DEF RuntimeOK, Shape, Fields, Typed
<1>3. SameTurn(m, t) /\ SameTimers(m, t)
  BY SMT DEF RuntimeOK, Shape, Fields, SameTurn, SameTimers
<1>4. /\ SameButRetry(m, t) /\ SamePause(m, t) /\ t.retryAttempt = m.retryAttempt /\ t.retryDue = {}
      /\ t.taken = m.taken
  BY SMT DEF RuntimeOK, Shape, Fields, SameButRetry, SamePause
<1> QED BY <1>1, <1>2, <1>3, <1>4 DEF RuntimeOK, SameTurn, Retried

\* So does a failed attempt.
LEMMA RetryFailedFacts ==
  ASSUME NEW m, RuntimeOK(m), m.retryAttempt < StorageRetries,
         NEW t, t = [m EXCEPT !.retryAttempt = @ + 1]
  PROVE  Retried(m, t) /\ t.retryAttempt = m.retryAttempt + 1 /\ t.retryDue = m.retryDue
<1>0. m.retryAttempt + 1 \in 0 .. StorageRetries
  BY DEF RuntimeOK, Typed, StorageRetries
<1>1. Shape(t)
  BY Zenon DEF Shape, RuntimeOK
<1>2. Typed(t)
  BY <1>0, SMT DEF RuntimeOK, Shape, Fields, Typed
<1>3. SameTurn(m, t) /\ SameTimers(m, t)
  BY SMT DEF RuntimeOK, Shape, Fields, SameTurn, SameTimers
<1>4. /\ SameButRetry(m, t) /\ SamePause(m, t)
      /\ t.retryAttempt = m.retryAttempt + 1 /\ t.retryDue = m.retryDue
  BY SMT DEF RuntimeOK, Shape, Fields, SameButRetry, SamePause
<1> QED BY <1>1, <1>2, <1>3, <1>4 DEF RuntimeOK, SameTurn, Retried

\* So does arming the next one.
LEMMA RetryArmedFacts ==
  ASSUME NEW m, RuntimeOK(m), m.retryAttempt < StorageRetries,
         NEW t, t = [m EXCEPT !.retryDue = {m.retryAttempt}]
  PROVE  Retried(m, t) /\ t.retryAttempt = m.retryAttempt /\ t.retryDue = {m.retryAttempt}
<1>0. {m.retryAttempt} \in SUBSET (0 .. StorageRetries - 1)
  BY DEF RuntimeOK, Typed, StorageRetries
<1>1. Shape(t)
  BY Zenon DEF Shape, RuntimeOK
<1>2. Typed(t)
  BY <1>0, SMT DEF RuntimeOK, Shape, Fields, Typed
<1>3. SameTurn(m, t) /\ SameTimers(m, t)
  BY SMT DEF RuntimeOK, Shape, Fields, SameTurn, SameTimers
<1>4. /\ SameButRetry(m, t) /\ SamePause(m, t)
      /\ t.retryAttempt = m.retryAttempt /\ t.retryDue = {m.retryAttempt}
  BY SMT DEF RuntimeOK, Shape, Fields, SameButRetry, SamePause
<1> QED BY <1>1, <1>2, <1>3, <1>4 DEF RuntimeOK, SameTurn, Retried

\* Changing the counters composes.
LEMMA RetriedTwice ==
  ASSUME NEW m, NEW s, NEW t, Retried(m, s), Retried(s, t)
  PROVE  Retried(m, t)
BY DEF Retried, SameButRetry, SameTurn, SameTimers, SamePause

\* The retry bookkeeping may change as long as the outage stays watched.
LEMMA RetriedIsRest ==
  ASSUME NEW m, NEW up, Sound(m, up), ~m.finishMatch, NEW t, Retried(m, t), Watched(t)
  PROVE  Rest(t, up)
<1>1. Sound(t, up)
  BY RetryFrame DEF Retried
<1> QED BY <1>1, SoundAtRest DEF Retried, SameTurn

\* The same, for the pause.
LEMMA RetriedSettles ==
  ASSUME NEW m, NEW up, Sound(m, up), ~m.finishMatch, NEW t, Retried(m, t), Watched(t)
  PROVE  Settles(m, t, up)
<1>1. Sound(t, up)
  BY RetryFrame DEF Retried
<1>2. SamePauseState(m, t) /\ ~t.finishMatch
  BY DEF Retried, SameButRetry, SameTurn, SamePauseState
<1> QED BY <1>1, <1>2 DEF Settles

\* invalidateMatchLocked drops the runtime and leaves the pause expiry due.
LEMMA InvalidateMatchFacts ==
  ASSUME NEW m, RuntimeOK(m), NEW t, t = InvalidateMatch(m)
  PROVE  Gone(m, t)
<1>1. PICK e : e = m.ended \union {"invalid"} \union {f \in {"finished"} : m.finishAfterSave}
  OBVIOUS
<1>2. e \in SUBSET {"finished", "invalid"} /\ m.resultSaved \in BOOLEAN
  BY <1>1 DEF RuntimeOK, Typed
<1>3. t = Detached(m, "post_match", e, m.resultSaved)
  BY <1>1 DEF InvalidateMatch
<1>4. "post_match" \in {"lobby", "in_match", "post_match", "closed"}
  OBVIOUS
<1> QED BY <1>2, <1>3, <1>4, DetachedFacts, Zenon

\* The batch that ends the match is no longer pending.
LEMMA FinishSavedFacts ==
  ASSUME NEW m, RuntimeOK(m), NEW t, t = [m EXCEPT !.finishAfterSave = FALSE]
  PROVE  RuntimeOK(t) /\ t.matchNo = m.matchNo /\ t.pauseDue = m.pauseDue
<1>1. Shape(t)
  BY Zenon DEF Shape, RuntimeOK
<1>2. Typed(t)
  BY SMT DEF RuntimeOK, Shape, Fields, Typed
<1>3. t.cur = m.cur /\ t.order = m.order /\ t.matchNo = m.matchNo /\ t.pauseDue = m.pauseDue
  BY SMT DEF RuntimeOK, Shape, Fields
<1> QED BY <1>1, <1>2, <1>3 DEF RuntimeOK

\* The end of a match that kept its number and its expiry.
LEMMA GoneTwice ==
  ASSUME NEW m, NEW s, s.matchNo = m.matchNo, s.pauseDue = m.pauseDue, NEW t, Gone(s, t)
  PROVE  Gone(m, t)
BY DEF Gone

\* A room without a match is at rest.
LEMMA GoneIsRest ==
  ASSUME NEW m, NEW t, NEW up, Gone(m, t)
  PROVE  Rest(t, up)
BY DEF Gone, Rest

\* So does a callback left behind that starts to run.
LEMMA RetryStaleFacts ==
  ASSUME NEW m, RuntimeOK(m), NEW c \in Callbacks \ {"pause"}, NEW t, t = [m EXCEPT !.stale = @ \ {c}]
  PROVE  Retried(m, t) /\ t.retryAttempt = m.retryAttempt /\ t.retryDue = m.retryDue
<1>1. Shape(t)
  BY Zenon DEF Shape, RuntimeOK
<1>2. Typed(t)
  BY SMT DEF RuntimeOK, Shape, Fields, Typed
<1>3. SameTurn(m, t) /\ SameTimers(m, t)
  BY SMT DEF RuntimeOK, Shape, Fields, SameTurn, SameTimers
<1>4. SameButRetry(m, t) /\ t.retryAttempt = m.retryAttempt /\ t.retryDue = m.retryDue
  BY SMT DEF RuntimeOK, Shape, Fields, SameButRetry
<1>5. SamePause(m, t)
  BY SMT DEF RuntimeOK, Shape, Fields, SamePause
<1> QED BY <1>1, <1>2, <1>3, <1>4, <1>5 DEF RuntimeOK, SameTurn, Retried

\* So does forgetting the timer of the outage when a retry runs in its place.
LEMMA RetryingFacts ==
  ASSUME NEW m, RuntimeOK(m), NEW t, t = Retrying(m)
  PROVE  Retried(m, t) /\ t.retryAttempt = m.retryAttempt /\ t.retryDue = {}
<1> PICK S : S = {c \in {"retry"} : m.retryDue # {}}
  OBVIOUS
<1>0. S \subseteq {"retry"} /\ t = [m EXCEPT !.retryDue = {}, !.stale = @ \union S]
  BY DEF Retrying
<1>1. Shape(t)
  BY <1>0, Zenon DEF Shape, RuntimeOK
<1>2. Typed(t)
  BY <1>0, SMT DEF RuntimeOK, Shape, Fields, Typed, Callbacks
<1>3. SameTurn(m, t) /\ SameTimers(m, t)
  BY <1>0, SMT DEF RuntimeOK, Shape, Fields, SameTurn, SameTimers
<1>4. SameButRetry(m, t) /\ t.retryAttempt = m.retryAttempt /\ t.retryDue = {}
  BY <1>0, SMT DEF RuntimeOK, Shape, Fields, SameButRetry
<1>5. SamePause(m, t)
  BY <1>0, SMT DEF RuntimeOK, Shape, Fields, SamePause
<1> QED BY <1>1, <1>2, <1>3, <1>4, <1>5 DEF RuntimeOK, SameTurn, Retried

\* What one retry can come to: nothing, another wait, the end of the match, or
\* the recovery.
LEMMA RetryOutcomes ==
  ASSUME NEW r, RuntimeOK(r), NEW attempt \in 0 .. StorageRetries - 1, NEW up,
         NEW t \in FireStorageRetry(r, attempt, up)
  PROVE  \/ t = r /\ (~r.live \/ ~r.storagePaused \/ r.retryAttempt # attempt)
         \/ Retried(r, t) /\ r.live /\ t.retryDue = {t.retryAttempt}
         \/ Retried(r, t) /\ r.live /\ r.storagePaused /\ r.allDisconnected /\ t.retryDue = {}
         \/ Gone(r, t) /\ r.live /\ r.storagePaused
         \/ /\ r.live /\ r.storagePaused /\ ~r.finishAfterSave
            /\ \E q : Retried(r, q) /\ t \in Recover(q, up)
<1>1. CASE ~r.live \/ ~r.storagePaused \/ r.retryAttempt # attempt
  BY <1>1 DEF FireStorageRetry
<1>2. CASE ~(~r.live \/ ~r.storagePaused \/ r.retryAttempt # attempt)
  <2>0. PICK q : q = Retrying(r)
    OBVIOUS
  <2>1. PICK f : f = [q EXCEPT !.retryAttempt = @ + 1]
    OBVIOUS
  <2>2. PICK a : a = [f EXCEPT !.retryDue = {f.retryAttempt}]
    OBVIOUS
  <2>3. PICK p : p = [q EXCEPT !.retryAttempt = 0, !.retryDue = {0}]
    OBVIOUS
  <2>4. PICK g : g = [q EXCEPT !.finishAfterSave = FALSE]
    OBVIOUS
  <2>5. \/ f.retryAttempt < StorageRetries /\ t = a
        \/ ~(f.retryAttempt < StorageRetries) /\ r.allDisconnected /\ t = f
        \/ t = InvalidateMatch(f)
        \/ t = DetachFinishedMatch(g)
        \/ t = p
        \/ ~r.finishAfterSave /\ t \in Recover(q, up)
    BY <1>2, <2>0, <2>1, <2>2, <2>3, <2>4 DEF FireStorageRetry
  <2>11. Retried(r, q) /\ q.retryAttempt = r.retryAttempt /\ q.retryDue = {} /\ RuntimeOK(q)
    BY <2>0, RetryingFacts DEF Retried
  <2>6. Retried(r, f) /\ f.retryDue = {}
    <3>1. q.retryAttempt < StorageRetries
      BY <1>2, <2>11 DEF StorageRetries
    <3>2. Retried(q, f) /\ f.retryDue = q.retryDue
      BY <2>1, <2>11, <3>1, RetryFailedFacts
    <3> QED BY <2>11, <3>2, RetriedTwice
  <2>7. CASE f.retryAttempt < StorageRetries /\ t = a
    <3>1. Retried(f, a) /\ a.retryAttempt = f.retryAttempt /\ a.retryDue = {f.retryAttempt}
      BY <2>2, <2>6, <2>7, RetryArmedFacts DEF Retried
    <3>2. Retried(r, a)
      BY <2>6, <3>1, RetriedTwice
    <3> QED BY <1>2, <2>7, <3>1, <3>2
  <2>8. CASE t = InvalidateMatch(f)
    <3>1. Gone(f, t)
      BY <2>6, <2>8, InvalidateMatchFacts DEF Retried
    <3>2. f.matchNo = r.matchNo /\ f.pauseDue = r.pauseDue
      BY <2>6 DEF Retried, SamePause
    <3> QED BY <1>2, <3>1, <3>2, GoneTwice
  <2>9. CASE t = DetachFinishedMatch(g)
    <3>1. RuntimeOK(g) /\ g.matchNo = q.matchNo /\ g.pauseDue = q.pauseDue
      BY <2>4, <2>11, FinishSavedFacts
    <3>2. Gone(g, t)
      BY <2>9, <3>1, DetachFinishedMatchFacts
    <3>3. g.matchNo = r.matchNo /\ g.pauseDue = r.pauseDue
      BY <2>11, <3>1 DEF Retried, SamePause
    <3> QED BY <1>2, <3>2, <3>3, GoneTwice
  <2>10. CASE t = p
    <3>1. Retried(q, p) /\ p.retryAttempt = 0 /\ p.retryDue = {0}
      BY <2>3, <2>11, RetryRestartedFacts
    <3>2. Retried(r, p)
      BY <2>11, <3>1, RetriedTwice
    <3> QED BY <1>2, <2>10, <3>1, <3>2
  <2> QED BY <1>2, <2>5, <2>6, <2>7, <2>8, <2>9, <2>10, <2>11
<1> QED BY <1>1, <1>2

\* fireStorageRetry leaves the runtime at rest, and every outage watched,
\* whether the callback that runs was the one due or one left behind.
LEMMA FireStorageRetryIsRest ==
  ASSUME NEW m, NEW up, Rest(m, up), NEW attempt \in 0 .. StorageRetries - 1,
         NEW r, Retried(m, r), r.live /\ r.retryAttempt # attempt => Watched(r),
         NEW t \in FireStorageRetry(r, attempt, up)
  PROVE  Rest(t, up)
<1>1. RuntimeOK(m) /\ ~m.finishMatch
  BY DEF Rest
<1>2. RuntimeOK(r) /\ ~r.finishMatch
  BY <1>1 DEF Retried, SameTurn
<1>3. \/ t = r /\ (~r.live \/ ~r.storagePaused \/ r.retryAttempt # attempt)
      \/ Retried(r, t) /\ r.live /\ t.retryDue = {t.retryAttempt}
      \/ Retried(r, t) /\ r.live /\ r.storagePaused /\ r.allDisconnected /\ t.retryDue = {}
      \/ Gone(r, t) /\ r.live /\ r.storagePaused
      \/ /\ r.live /\ r.storagePaused /\ ~r.finishAfterSave
         /\ \E q : Retried(r, q) /\ t \in Recover(q, up)
  BY <1>2, RetryOutcomes
<1>4. CASE ~r.live /\ t = r
  BY <1>2, <1>4 DEF Rest
<1>5. r.live => Sound(m, up)
  BY DEF Rest, Retried, SameButRetry
<1>6. CASE r.live /\ t = r /\ (~r.storagePaused \/ r.retryAttempt # attempt)
  <2>1. Watched(r)
    BY <1>6 DEF Watched
  <2> QED BY <1>1, <1>5, <1>6, <2>1, RetriedIsRest
<1>7. ASSUME Retried(r, t), r.live,
             t.retryDue = {t.retryAttempt} \/ (t.retryDue = {} /\ r.allDisconnected)
      PROVE  Rest(t, up)
  <2>1. Retried(m, t)
    BY <1>7, RetriedTwice
  <2>2. Watched(t)
    BY <1>7 DEF Watched, Retried, SameButRetry
  <2> QED BY <1>1, <1>5, <1>7, <2>1, <2>2, RetriedIsRest
<1>8. ASSUME r.live, r.storagePaused, ~r.finishAfterSave, NEW q, Retried(r, q), t \in Recover(q, up)
      PROVE  Rest(t, up)
  <2>1. m.storagePaused /\ ~m.finishAfterSave
    BY <1>8 DEF Retried, SameButRetry
  <2>2. Retried(m, q)
    BY <1>8, RetriedTwice
  <2> QED BY <1>5, <1>8, <2>1, <2>2, RecoverIsRest
<1> QED BY <1>3, <1>4, <1>6, <1>7, <1>8, GoneIsRest
-----------------------------------------------------------------------------
\* Who is connected matters to a match only through its absence and the host.
LEMMA UpFrame ==
  ASSUME NEW m, NEW old, Sound(m, old), ~m.allDisconnected,
         NEW up, up # {}, ~m.lateActed /\ m.paused => Host \in up
  PROVE  Sound(m, up)
<1>1. Base(m, up)
  BY DEF Sound, Base
<1>2. ~m.lateActed => Good(m, up)
  BY DEF Sound, Good
<1> QED BY <1>1, <1>2 DEF Sound

\* The outage, the pause and the marks of late commands are unchanged.
SameStorage(m, t) ==
  /\ t.live = m.live /\ t.paused = m.paused /\ t.lateActed = m.lateActed
  /\ t.storagePaused = m.storagePaused /\ t.retryAttempt = m.retryAttempt
  /\ t.retryDue = m.retryDue /\ t.finishAfterSave = m.finishAfterSave

\* Nobody is connected: the match is suspended and its watchdog runs.
Away(m, t) ==
  /\ RuntimeOK(t) /\ SameTurn(m, t) /\ SameTimers(m, t) /\ SamePause(m, t) /\ SameStorage(m, t)
  /\ t.preservedKind = m.preservedKind /\ t.allDisconnected /\ t.presenceTimer

\* The presence generation is incremented.
NextPresence(m) == Bump(m, {"presence"})

\* Suspending the match for absence does that.
LEMMA AwayFacts ==
  ASSUME NEW m, RuntimeOK(m), NEW b, b = NextPresence(m),
         NEW t, t = [b EXCEPT !.allDisconnected = TRUE, !.presenceTimer = TRUE]
  PROVE  Away(m, t)
<1>0. /\ Shape(b)
      /\ b = [m EXCEPT !.stale = @ \union (m.fresh \intersect {"presence"}),
                       !.fresh = @ \ {"presence"}]
  BY Zenon DEF NextPresence, Bump, Shape, RuntimeOK
<1>1. Shape(t)
  BY <1>0, Zenon DEF Shape
<1>2. Typed(t)
  BY <1>0, SMT DEF RuntimeOK, Shape, Fields, Typed
<1>3. SameTurn(m, t) /\ SameTimers(m, t) /\ SamePause(m, t)
  BY <1>0, SMT DEF RuntimeOK, Shape, Fields, Typed, SameTurn, SameTimers, SamePause
<1>4. SameStorage(m, t) /\ t.preservedKind = m.preservedKind /\ t.allDisconnected /\ t.presenceTimer
  BY <1>0, SMT DEF RuntimeOK, Shape, Fields, SameStorage
<1> QED BY <1>1, <1>2, <1>3, <1>4 DEF RuntimeOK, SameTurn, Away

\* The window an absence remembers.
WithPresence(s, kind, left) == [s EXCEPT !.presenceKind = kind, !.presenceRemaining = left]

\* So does remembering the window.
LEMMA AwayWindowFacts ==
  ASSUME NEW m, NEW s, Away(m, s), NEW kind \in TimerKinds, NEW left \in 0 .. 1,
         NEW t, t = WithPresence(s, kind, left)
  PROVE  Away(m, t) /\ t.presenceKind = kind
<1> USE DEF WithPresence
<1>0. RuntimeOK(s)
  BY DEF Away
<1>1. Shape(t)
  BY <1>0, Zenon DEF Shape, RuntimeOK
<1>2. Typed(t)
  BY <1>0, SMT DEF RuntimeOK, Shape, Fields, Typed
<1>3. SameTurn(s, t) /\ SameTimers(s, t) /\ SamePause(s, t)
  BY <1>0, SMT DEF RuntimeOK, Shape, Fields, SameTurn, SameTimers, SamePause
<1>4. /\ SameStorage(s, t) /\ t.preservedKind = s.preservedKind
      /\ t.allDisconnected = s.allDisconnected /\ t.presenceTimer = s.presenceTimer
      /\ t.presenceKind = kind
  BY <1>0, SMT DEF RuntimeOK, Shape, Fields, SameStorage
<1>5. RuntimeOK(t)
  BY <1>0, <1>1, <1>2, <1>3 DEF RuntimeOK, SameTurn
<1>6. SameTurn(m, t) /\ SameTimers(m, t) /\ SamePause(m, t) /\ SameStorage(m, t)
  BY <1>3, <1>4 DEF Away, SameTurn, SameTimers, SamePause, SameStorage
<1> QED BY <1>4, <1>5, <1>6 DEF Away

\* The two ways the last player's departure leaves the runtime.
LEMMA SuspendAllDisconnectedFacts ==
  ASSUME NEW m, RuntimeOK(m), ~m.allDisconnected, NEW t \in SuspendAllDisconnected(m)
  PROVE  \/ m.storagePaused /\ Away(m, t) /\ t.presenceKind = "none"
         \/ /\ ~m.storagePaused
            /\ \E s : Away(m, s) /\ s.presenceKind = m.timerKind /\ t = CancelTimer(s)
<1>0. PICK b : b = NextPresence(m)
  OBVIOUS
<1>1. PICK a : a = [b EXCEPT !.allDisconnected = TRUE, !.presenceTimer = TRUE]
  OBVIOUS
<1>2. Away(m, a)
  BY <1>0, <1>1, AwayFacts
<1>3. CASE m.storagePaused
  <2>1. t = WithPresence(a, "none", 0)
    BY <1>0, <1>1, <1>3 DEF SuspendAllDisconnected, NextPresence, WithPresence
  <2>2. "none" \in TimerKinds /\ 0 \in 0 .. 1
    BY DEF TimerKinds
  <2>3. Away(m, t) /\ t.presenceKind = "none"
    BY <1>2, <2>1, <2>2, AwayWindowFacts
  <2> QED BY <1>3, <2>3
<1>4. CASE ~m.storagePaused
  <2>1. PICK left \in Remaining(m) :
          t = CancelTimer([a EXCEPT !.presenceKind = m.timerKind,
                                    !.presenceRemaining = IF m.timerKind = "none" THEN @ ELSE left])
    BY <1>0, <1>1, <1>4 DEF SuspendAllDisconnected, NextPresence
  <2>2. PICK n : n = IF m.timerKind = "none" THEN a.presenceRemaining ELSE left
    OBVIOUS
  <2>3. PICK s : s = WithPresence(a, m.timerKind, n)
    OBVIOUS
  <2>4. t = CancelTimer(s)
    BY <2>1, <2>2, <2>3 DEF WithPresence
  <2>5. m.timerKind \in TimerKinds /\ n \in 0 .. 1
    BY <1>2, <2>2 DEF Remaining, RuntimeOK, Typed, Away
  <2>6. Away(m, s) /\ s.presenceKind = m.timerKind
    BY <1>2, <2>3, <2>5, AwayWindowFacts
  <2> QED BY <1>4, <2>4, <2>6
<1> QED BY <1>3, <1>4 DEF RuntimeOK, Typed

\* When the last player leaves, the turn is frozen and its window remembered.
LEMMA SuspendAllDisconnectedIsSound ==
  ASSUME NEW m, NEW old, Sound(m, old), old # {}, ~m.lateActed => ~m.paused,
         NEW t \in SuspendAllDisconnected(m)
  PROVE  Sound(t, {}) /\ SamePauseState(m, t)
<1>1. RuntimeOK(m) /\ Base(m, old) /\ ~m.allDisconnected
  BY DEF Sound, Base
<1>2. /\ RuntimeOK(t) /\ SameTurn(m, t) /\ SameStorage(m, t)
      /\ t.preservedKind = m.preservedKind /\ t.allDisconnected /\ t.presenceTimer
      /\ SamePause(m, t) /\ Frozen(t)
      /\ t.presenceKind = IF m.storagePaused THEN "none" ELSE m.timerKind
  <2>1. CASE m.storagePaused /\ Away(m, t) /\ t.presenceKind = "none"
    BY <1>1, <2>1 DEF Away, Base, Frozen, SameTimers
  <2>2. ASSUME ~m.storagePaused, NEW s, Away(m, s), s.presenceKind = m.timerKind, t = CancelTimer(s)
        PROVE  <1>2
    <3>1. RuntimeOK(t) /\ SameSuspension(s, t) /\ SameTurn(s, t) /\ Frozen(t)
      BY <2>2, CancelTimerFacts DEF Away
    <3>2. SameTurn(m, t)
      BY <2>2, <3>1 DEF Away, SameTurn
    <3>3. SameStorage(m, t)
      BY <2>2, <3>1 DEF Away, SameStorage, SameSuspension
    <3>4. SamePause(m, t)
      BY <2>2, <3>1 DEF Away, SamePause, SameSuspension
    <3> QED BY <2>2, <3>1, <3>2, <3>3, <3>4 DEF Away, SameSuspension
  <2> QED BY <1>1, <2>1, <2>2, SuspendAllDisconnectedFacts
<1>3. Base(t, {})
  BY <1>1, <1>2 DEF Base, Ending, Watched, SameTurn, SameStorage, SamePause
<1>4. ASSUME ~t.lateActed PROVE Good(t, {})
  <2>1. Good(m, old) /\ ~m.paused
    BY <1>2, <1>4 DEF Sound, SameStorage
  <2>2. Suspended(t) /\ OneDriver(t)
    BY <1>2 DEF Suspended, OneDriver, Frozen
  <2>3. t.cpuControlled \/ t.phase = "match_end" => t.preservedKind = "none" /\ t.presenceKind = "none"
    BY <1>2, <2>1 DEF Good, Kept, OneDriver, Frozen, SameTurn
  <2>4. ASSUME ~t.cpuControlled, t.phase # "match_end"
        PROVE  /\ Held(t, t.preservedKind) /\ Held(t, t.presenceKind)
               /\ WindowGone(t) \/ Window(t) # "none"
    <3>1. /\ ~m.cpuControlled /\ m.phase # "match_end" /\ (WindowGone(m) => WindowGone(t))
          /\ \A k : Held(t, k) <=> Held(m, k)
      BY <1>2, <2>4 DEF SameTurn, WindowKind, WindowGone, Held
    <3>2. CASE m.storagePaused
      <4>1. Held(m, m.preservedKind) /\ (WindowGone(m) \/ Window(m) # "none") /\ Held(m, "none")
        BY <2>1, <3>1, <3>2 DEF Good, Kept, Suspended, Held
      <4>2. Window(t) = m.preservedKind /\ Window(m) = m.preservedKind
        BY <1>1, <1>2, <3>2 DEF Window
      <4> QED BY <1>2, <3>1, <3>2, <4>1, <4>2
    <3>3. CASE ~m.storagePaused
      <4>1. (Owed(m) => Driven(m)) /\ m.preservedKind = "none"
        BY <1>1, <2>1, <3>1, <3>3 DEF Good, Kept, Suspended
      <4>2. Held(m, m.timerKind) /\ Held(m, "none") /\ (WindowGone(m) \/ m.timerKind # "none")
        BY <3>1, <4>1 DEF Owed, Driven, Held, WindowKind
      <4>3. t.presenceKind = m.timerKind /\ (m.timerKind # "none" => Window(t) = m.timerKind)
        BY <1>2, <3>3 DEF Window
      <4> QED BY <1>2, <3>1, <4>1, <4>2, <4>3
    <3> QED BY <3>2, <3>3
  <2>5. Kept(t)
    BY <2>2, <2>3, <2>4 DEF Kept
  <2>6. t.phase = "match_end" =>
          "finish_lost" \in t.lapse \/ t.finishMatch \/ (t.storagePaused /\ t.finishAfterSave)
    BY <1>2, <2>1 DEF Good, SameTurn, SameStorage
  <2>7. ~t.paused
    BY <1>2, <2>1 DEF SameStorage
  <2> QED BY <1>2, <2>2, <2>5, <2>6, <2>7 DEF Good
<1>5. SamePauseState(m, t)
  BY <1>2 DEF SameStorage, SamePauseState
<1> QED BY <1>2, <1>3, <1>4, <1>5 DEF Sound

\* The CPU takes over a turn, whoever it was waiting for.
LEMMA TakeOverIsSound ==
  ASSUME NEW m, NEW up, Running(m, up),
         ~m.lateActed /\ m.phase = "match_end" => "finish_lost" \in m.lapse \/ m.finishMatch,
         NEW now, NEW t \in RunCpuTurn(CancelTimer([m EXCEPT !.cpuControlled = TRUE]), now)
  PROVE  Sound(t, up) /\ SamePauseState(m, t)
<1>1. PICK k : k = [m EXCEPT !.cpuControlled = TRUE]
  OBVIOUS
<1>2. PICK c : c = CancelTimer(k)
  OBVIOUS
<1>3. t \in RunCpuTurn(c, now)
  BY <1>1, <1>2
<1>4. RuntimeOK(m)
  BY DEF Running
<1>5. Handed(m, k, TRUE)
  BY <1>1, <1>4, HandedFacts, Zenon
<1>6. RuntimeOK(c) /\ SameSuspension(k, c) /\ SameTurn(k, c) /\ Frozen(c)
  BY <1>2, <1>5, CancelTimerFacts DEF Handed
<1>7. SameSuspension(m, c)
  BY <1>5, <1>6 DEF Handed, SameSuspension
<1>8. c.phase = m.phase /\ c.lapse = m.lapse /\ c.finishMatch = m.finishMatch /\ c.cpuControlled
  BY <1>5, <1>6 DEF Handed, SameTurn
<1>9. Ending(c)
  BY <1>6, <1>8 DEF Running, Ending
<1>10. Running(c, up)
  BY <1>6, <1>7, <1>9, RunningFrame
<1>11. ~c.lateActed => Fit(c)
  <2>1. c.lateActed = m.lateActed
    BY <1>7 DEF SameSuspension
  <2> QED BY <1>6, <1>8, <2>1 DEF Fit, OneDriver, Frozen
<1>12. Moved(c, t) /\ (~c.lateActed => Ran(c, t))
  BY <1>3, <1>6, <1>9, <1>11, RunCpuTurnFacts
<1>13. SamePauseState(m, t)
  BY <1>7, <1>12, SuspensionFrame, SamePauseTwice DEF Moved
<1> QED BY <1>10, <1>12, <1>13, RanIsSound
-----------------------------------------------------------------------------
\* Somebody is back; the windows the suspension remembers are kept.
Back(m, t) ==
  /\ RuntimeOK(t) /\ SameTurn(m, t) /\ SameTimers(m, t) /\ SamePause(m, t) /\ SameStorage(m, t)
  /\ t.preservedKind = m.preservedKind /\ ~t.allDisconnected

\* The absence is over; S is what outlives its watchdog.
EndAbsence(m, S) ==
  NextPresence([m EXCEPT !.allDisconnected = FALSE, !.presenceTimer = FALSE,
                         !.fresh = @ \union S])

\* Ending the absence does that.
LEMMA BackFacts ==
  ASSUME NEW m, RuntimeOK(m), NEW S, S \subseteq {"presence"},
         NEW t, t = EndAbsence(m, S)
  PROVE  Back(m, t)
<1> PICK a : a = [m EXCEPT !.allDisconnected = FALSE, !.presenceTimer = FALSE,
                           !.fresh = @ \union S]
  OBVIOUS
<1>0. /\ Shape(a)
      /\ t = [a EXCEPT !.stale = @ \union (a.fresh \intersect {"presence"}),
                       !.fresh = @ \ {"presence"}]
  BY Zenon DEF EndAbsence, NextPresence, Bump, Shape, RuntimeOK
<1>1. Shape(t)
  BY <1>0, Zenon DEF Shape
<1>2. Typed(t)
  BY <1>0, SMT DEF RuntimeOK, Shape, Fields, Typed, Callbacks
<1>3. SameTurn(m, t) /\ SameTimers(m, t) /\ SamePause(m, t)
  BY <1>0, SMT DEF RuntimeOK, Shape, Fields, Typed, SameTurn, SameTimers, SamePause
<1>4. SameStorage(m, t) /\ t.preservedKind = m.preservedKind /\ ~t.allDisconnected
  BY <1>0, SMT DEF RuntimeOK, Shape, Fields, SameStorage
<1> QED BY <1>1, <1>2, <1>3, <1>4 DEF RuntimeOK, SameTurn, Back

\* Somebody is back and no window is remembered any more.
Cleared(m, t) ==
  /\ RuntimeOK(t) /\ SameTurn(m, t) /\ SameTimers(m, t) /\ SamePause(m, t) /\ SameStorage(m, t)
  /\ t.preservedKind = "none" /\ ~t.allDisconnected

\* Clearing both remembered windows does that.
LEMMA ClearedFacts ==
  ASSUME NEW m, NEW s, Back(m, s),
         NEW t, t = [s EXCEPT !.presenceKind = "none", !.presenceRemaining = 0,
                              !.preservedKind = "none", !.preservedRemaining = 0]
  PROVE  Cleared(m, t)
<1>0. RuntimeOK(s)
  BY DEF Back
<1>1. Shape(t)
  BY <1>0, Zenon DEF Shape, RuntimeOK
<1>2. Typed(t)
  BY <1>0, SMT DEF RuntimeOK, Shape, Fields, Typed, TimerKinds
<1>3. SameTurn(s, t) /\ SameTimers(s, t) /\ SamePause(s, t)
  BY <1>0, SMT DEF RuntimeOK, Shape, Fields, SameTurn, SameTimers, SamePause
<1>4. SameStorage(s, t) /\ t.preservedKind = "none" /\ t.allDisconnected = s.allDisconnected
  BY <1>0, SMT DEF RuntimeOK, Shape, Fields, SameStorage
<1>5. RuntimeOK(t)
  BY <1>0, <1>1, <1>2, <1>3 DEF RuntimeOK, SameTurn
<1>6. SameTurn(m, t) /\ SameTimers(m, t) /\ SamePause(m, t) /\ SameStorage(m, t)
  BY <1>3, <1>4 DEF Back, SameTurn, SameTimers, SamePause, SameStorage
<1> QED BY <1>4, <1>5, <1>6 DEF Back, Cleared

\* Only a lapse is recorded.
Lapsed(m, t, S) ==
  /\ RuntimeOK(t) /\ SameSuspension(m, t) /\ SameTimers(m, t)
  /\ t.phase = m.phase /\ t.cpuControlled = m.cpuControlled /\ t.lapse = m.lapse \union S
  /\ t.cur = m.cur /\ t.order = m.order /\ t.finishMatch = m.finishMatch

\* Recording a lapse changes nothing else.
LEMMA LapsedFacts ==
  ASSUME NEW m, RuntimeOK(m), NEW S, S \subseteq Lapses, NEW t, t = [m EXCEPT !.lapse = @ \union S]
  PROVE  Lapsed(m, t, S)
<1>1. Shape(t)
  BY Zenon DEF Shape, RuntimeOK
<1>2. Typed(t)
  BY SMT DEF RuntimeOK, Shape, Fields, Typed
<1>3. SameSuspension(m, t) /\ SameTimers(m, t)
  BY SMT DEF RuntimeOK, Shape, Fields, SameSuspension, SameTimers
<1>4. /\ t.phase = m.phase /\ t.cpuControlled = m.cpuControlled /\ t.lapse = m.lapse \union S
      /\ t.cur = m.cur /\ t.order = m.order /\ t.finishMatch = m.finishMatch
  BY SMT DEF RuntimeOK, Shape, Fields
<1> QED BY <1>1, <1>2, <1>3, <1>4 DEF RuntimeOK, Lapsed

\* Return during a pause or an outage: what the absence alone remembered is lost.
Returned(m, t) ==
  /\ RuntimeOK(t) /\ SameTimers(m, t) /\ SamePause(m, t) /\ SameStorage(m, t)
  /\ t.preservedKind = m.preservedKind /\ ~t.allDisconnected
  /\ t.phase = m.phase /\ t.cpuControlled = m.cpuControlled /\ t.finishMatch = m.finishMatch
  /\ m.lapse \subseteq t.lapse /\ (m.presenceKind # "none" => "window_lost" \in t.lapse)

\* resumeAllDisconnectedLocked: deferred during a pause or an outage; else the
\* CPU plays for an absent player, or the player gets the window back.
LEMMA ResumeAllDisconnectedCases ==
  ASSUME NEW m, RuntimeOK(m), NEW up, NEW t \in ResumeAllDisconnected(m, up)
  PROVE  \/ (m.paused \/ m.storagePaused) /\ Returned(m, t)
         \/ /\ ~m.paused /\ ~m.storagePaused
            /\ \E c : /\ Cleared(m, c)
                      /\ \/ \E k : Handed(c, k, TRUE) /\ t \in RunCpuTurn(k, up)
                         \/ \E k : Handed(c, k, FALSE) /\ Lapsed(k, t, {"handed_back"})
                         \/ \E k : /\ Handed(c, k, FALSE)
                                   /\ \E kind \in {"throw", "move"} :
                                        /\ t = ArmTimer(k, kind)
                                        /\ kind = IF m.presenceKind = "none" THEN m.preservedKind
                                                  ELSE m.presenceKind
<1>1. PICK S : S = Outliving(m, {"presence"})
  OBVIOUS
<1>2. PICK b : b = EndAbsence(m, S)
  OBVIOUS
<1>3. PICK c : c = [b EXCEPT !.presenceKind = "none", !.presenceRemaining = 0,
                             !.preservedKind = "none", !.preservedRemaining = 0]
  OBVIOUS
<1>4. PICK k : k = [c EXCEPT !.cpuControlled = TRUE]
  OBVIOUS
<1>5. PICK h : h = [c EXCEPT !.cpuControlled = FALSE]
  OBVIOUS
<1>6. PICK L : L = {l \in {"window_lost"} : m.presenceKind # "none"}
  OBVIOUS
<1>7. PICK kind : kind = IF m.presenceKind = "none" THEN m.preservedKind ELSE m.presenceKind
  OBVIOUS
<1>8. \/ (m.paused \/ m.storagePaused) /\ t = [b EXCEPT !.lapse = @ \union L]
      \/ ~m.paused /\ ~m.storagePaused /\ t \in RunCpuTurn(k, up)
      \/ ~m.paused /\ ~m.storagePaused /\ t = [h EXCEPT !.lapse = @ \union {"handed_back"}]
      \/ ~m.paused /\ ~m.storagePaused /\ kind # "none" /\ t = ArmTimer(h, kind)
  BY <1>1, <1>2, <1>3, <1>4, <1>5, <1>6, <1>7 DEF ResumeAllDisconnected, EndAbsence, NextPresence
<1>9. Back(m, b)
  BY <1>1, <1>2, OutlivingIsSubset, BackFacts
<1>10. Cleared(m, c)
  BY <1>3, <1>9, ClearedFacts
<1>11. Handed(c, k, TRUE) /\ Handed(c, h, FALSE)
  BY <1>4, <1>5, <1>10, HandedFacts, Zenon DEF Cleared
<1>12. CASE (m.paused \/ m.storagePaused) /\ t = [b EXCEPT !.lapse = @ \union L]
  <2>1. L \subseteq Lapses /\ (m.presenceKind # "none" => "window_lost" \in L)
    BY <1>6 DEF Lapses
  <2>2. Lapsed(b, t, L)
    BY <1>9, <1>12, <2>1, LapsedFacts DEF Back
  <2>3. SamePause(m, t) /\ SameStorage(m, t) /\ SameTimers(m, t)
    BY <1>9, <2>2 DEF Lapsed, Back, SameSuspension, SamePause, SameStorage, SameTimers
  <2>4. Returned(m, t)
    BY <1>9, <2>1, <2>2, <2>3 DEF Lapsed, Back, SameSuspension, SameTurn, Returned
  <2> QED BY <1>12, <2>4
<1>13. CASE ~m.paused /\ ~m.storagePaused /\ t \in RunCpuTurn(k, up)
  BY <1>10, <1>11, <1>13
<1>14. CASE ~m.paused /\ ~m.storagePaused /\ t = [h EXCEPT !.lapse = @ \union {"handed_back"}]
  <2>1. {"handed_back"} \subseteq Lapses
    BY DEF Lapses
  <2>2. Lapsed(h, t, {"handed_back"})
    BY <1>11, <1>14, <2>1, LapsedFacts DEF Handed
  <2> QED BY <1>10, <1>11, <1>14, <2>2
<1>15. CASE ~m.paused /\ ~m.storagePaused /\ kind # "none" /\ t = ArmTimer(h, kind)
  <2>1. kind \in {"throw", "move"}
    BY <1>7, <1>15 DEF RuntimeOK, Typed, TimerKinds
  <2> QED BY <1>7, <1>10, <1>11, <1>15, <2>1
<1> QED BY <1>8, <1>12, <1>13, <1>14, <1>15

\* During a pause or an outage the return keeps the match sound, once the
\* retry of the outage is watched again.
LEMMA ReturnedIsSound ==
  ASSUME NEW m, Sound(m, {}), m.paused \/ m.storagePaused, ~m.finishMatch,
         NEW s, Returned(m, s), NEW t, Retried(s, t), Watched(t), NEW up, up # {}
  PROVE  Sound(t, up) /\ ~t.finishMatch
<1>1. RuntimeOK(m) /\ Base(m, {}) /\ Frozen(m)
  BY DEF Sound, Base
<1>2. /\ RuntimeOK(t) /\ t.live = m.live /\ t.matchNo = m.matchNo /\ t.paused = m.paused
      /\ t.lateActed = m.lateActed /\ t.preservedKind = m.preservedKind /\ ~t.allDisconnected
      /\ t.storagePaused = m.storagePaused /\ t.finishAfterSave = m.finishAfterSave
      /\ t.phase = m.phase /\ t.cpuControlled = m.cpuControlled /\ t.finishMatch = m.finishMatch
      /\ m.lapse \subseteq t.lapse /\ (m.presenceKind # "none" => "window_lost" \in t.lapse)
  BY DEF Returned, Retried, SameButRetry, SameStorage, SamePause, SameTurn
<1>3. Frozen(t)
  BY <1>1 DEF Returned, Retried, SameTimers, Frozen
<1>4. Base(t, up)
  BY <1>1, <1>2, <1>3 DEF Base, Ending
<1>5. ASSUME ~t.lateActed PROVE Good(t, up)
  <2>1. Good(m, {}) /\ ~m.paused /\ m.storagePaused
    BY <1>2, <1>5 DEF Sound, Good
  <2>2. Suspended(t) /\ Suspended(m) /\ OneDriver(t)
    BY <1>2, <1>3, <2>1 DEF Suspended, OneDriver, Frozen
  <2>3. t.cpuControlled \/ t.phase = "match_end" => t.preservedKind = "none"
    BY <1>2, <2>1 DEF Good, Kept
  <2>4. ASSUME ~t.cpuControlled, t.phase # "match_end"
        PROVE  Held(t, t.preservedKind) /\ (WindowGone(t) \/ Window(t) # "none")
    <3>1. ~m.cpuControlled /\ m.phase # "match_end" /\ \A k : Held(t, k) <=> Held(m, k)
      BY <1>2, <2>4 DEF Held, WindowKind
    <3>2. Held(m, m.preservedKind) /\ (WindowGone(m) \/ Window(m) # "none")
      BY <2>1, <2>2, <3>1 DEF Good, Kept
    <3>3. WindowGone(m) \/ m.presenceKind # "none" => WindowGone(t)
      BY <1>2 DEF WindowGone
    <3>4. m.presenceKind = "none" => Window(t) = Window(m)
      BY <1>2 DEF Window
    <3> QED BY <1>2, <3>1, <3>2, <3>3, <3>4
  <2>5. Kept(t)
    BY <1>2, <2>2, <2>3, <2>4 DEF Kept
  <2>6. t.phase = "match_end" =>
          "finish_lost" \in t.lapse \/ t.finishMatch \/ (t.storagePaused /\ t.finishAfterSave)
    BY <1>2, <2>1 DEF Good
  <2> QED BY <1>2, <1>3, <2>1, <2>2, <2>5, <2>6 DEF Good
<1> QED BY <1>2, <1>4, <1>5 DEF Sound

\* Without a pause or an outage the turn goes on: the CPU plays it, the player
\* gets the remembered window back, or the lapse is recorded.
LEMMA ResumedIsSound ==
  ASSUME NEW m, Sound(m, {}), m.allDisconnected, ~m.paused, ~m.storagePaused, ~m.finishMatch,
         NEW up, up # {}, NEW t \in ResumeAllDisconnected(m, up)
  PROVE  Sound(t, up) /\ SamePauseState(m, t)
<1>1. RuntimeOK(m) /\ Base(m, {}) /\ (~m.lateActed => Good(m, {}))
  BY DEF Sound
<1>2. PICK c : /\ Cleared(m, c)
               /\ \/ \E k : Handed(c, k, TRUE) /\ t \in RunCpuTurn(k, up)
                  \/ \E k : Handed(c, k, FALSE) /\ Lapsed(k, t, {"handed_back"})
                  \/ \E k : /\ Handed(c, k, FALSE)
                            /\ \E kind \in {"throw", "move"} :
                                 /\ t = ArmTimer(k, kind)
                                 /\ kind = IF m.presenceKind = "none" THEN m.preservedKind
                                           ELSE m.presenceKind
  BY <1>1, ResumeAllDisconnectedCases
<1>3. /\ c.phase = m.phase /\ c.lapse = m.lapse /\ c.cpuControlled = m.cpuControlled
      /\ ~c.finishMatch /\ c.lateActed = m.lateActed /\ Ending(c) /\ RuntimeOK(c)
  BY <1>2 DEF Cleared, SameTurn, SameStorage, Ending
<1>4. Running(c, up)
  BY <1>1, <1>2, <1>3 DEF Running, Cleared, SameStorage, SamePause, Base
<1>5. ~m.lateActed => Frozen(c)
  BY <1>1, <1>2 DEF Good, Suspended, Cleared, Frozen, SameTimers
<1>6. ~m.lateActed /\ m.phase = "match_end" => "finish_lost" \in m.lapse
  BY <1>1 DEF Good
<1>7. ASSUME NEW k, NEW cpu, Handed(c, k, cpu)
      PROVE  /\ Running(k, up) /\ k.lateActed = m.lateActed /\ k.lapse = m.lapse
             /\ k.phase = m.phase /\ ~k.finishMatch /\ k.cpuControlled = cpu /\ RuntimeOK(k)
             /\ Ending(k) /\ (~k.lateActed => Frozen(k)) /\ SameSuspension(c, k)
  <2>1. /\ k.lateActed = m.lateActed /\ k.lapse = m.lapse
        /\ k.phase = m.phase /\ ~k.finishMatch /\ k.cpuControlled = cpu /\ RuntimeOK(k)
    BY <1>3, <1>7 DEF Handed, SameSuspension
  <2>2. Ending(k) /\ SameSuspension(c, k)
    BY <1>7, <2>1 DEF Ending, Handed
  <2>3. ~k.lateActed => Frozen(k)
    BY <1>5, <1>7, <2>1 DEF Handed, Frozen, SameTimers
  <2> QED BY <1>4, <2>1, <2>2, <2>3, RunningFrame
<1>8. ASSUME NEW k, Running(k, up), SameSuspension(c, k), Moved(k, t), ~k.lateActed => Ran(k, t)
      PROVE  Sound(t, up) /\ SamePauseState(m, t)
  <2>1. SamePauseState(m, c)
    BY <1>2 DEF Cleared, SameStorage, SamePauseState
  <2>2. SamePauseState(m, t)
    BY <1>8, <2>1, SuspensionFrame, SamePauseTwice DEF Moved
  <2> QED BY <1>8, <2>2, RanIsSound
<1>9. ASSUME NEW k, Handed(c, k, TRUE), t \in RunCpuTurn(k, up)
      PROVE  Sound(t, up) /\ SamePauseState(m, t)
  <2>1. /\ Running(k, up) /\ k.lateActed = m.lateActed /\ RuntimeOK(k) /\ Ending(k)
        /\ (~k.lateActed => Frozen(k)) /\ SameSuspension(c, k)
    BY <1>7, <1>9
  <2>2. ~k.lateActed => Fit(k)
    BY <1>3, <1>5, <1>6, <1>9, <2>1, HandedIsFit
  <2>3. Moved(k, t) /\ (~k.lateActed => Ran(k, t))
    BY <1>9, <2>1, <2>2, RunCpuTurnFacts
  <2> QED BY <1>8, <2>1, <2>3
<1>10. ASSUME NEW k, Handed(c, k, FALSE), Lapsed(k, t, {"handed_back"})
       PROVE  Sound(t, up) /\ SamePauseState(m, t)
  <2>1. /\ Running(k, up) /\ ~k.finishMatch /\ ~k.cpuControlled /\ (~k.lateActed => Frozen(k))
        /\ SameSuspension(c, k) /\ k.phase = m.phase /\ k.lapse = m.lapse /\ k.lateActed = m.lateActed
    BY <1>7, <1>10
  <2>2. /\ RuntimeOK(t) /\ SameSuspension(k, t) /\ SameTimers(k, t) /\ ~t.cpuControlled /\ ~t.finishMatch
        /\ t.phase = m.phase /\ m.lapse \subseteq t.lapse /\ WindowGone(t)
    BY <1>10, <2>1 DEF Lapsed, WindowGone
  <2>3. Moved(k, t)
    BY <2>2 DEF Moved, Ending
  <2>4. ~k.lateActed => Ran(k, t)
    BY <1>6, <2>1, <2>2 DEF Ran, Ending, Fit, Owed, OneDriver, CpuDue, Frozen, SameTimers
  <2> QED BY <1>8, <2>1, <2>3, <2>4
<1>11. ASSUME NEW k, Handed(c, k, FALSE), NEW kind \in {"throw", "move"}, t = ArmTimer(k, kind),
              kind = IF m.presenceKind = "none" THEN m.preservedKind ELSE m.presenceKind
       PROVE  Sound(t, up) /\ SamePauseState(m, t)
  <2>1. /\ Running(k, up) /\ ~k.finishMatch /\ ~k.cpuControlled /\ (~k.lateActed => Frozen(k))
        /\ SameSuspension(c, k)
        /\ RuntimeOK(k) /\ k.lateActed = m.lateActed /\ k.lapse = m.lapse /\ k.phase = m.phase
    BY <1>7, <1>11
  <2>2. /\ RuntimeOK(t) /\ SameSuspension(k, t) /\ SameSeat(k, t)
        /\ t.turnTimer /\ t.timerKind = kind /\ t.cpuTimer = k.cpuTimer
    BY <1>11, <2>1, ArmTimerFacts
  <2>3. Moved(k, t)
    BY <2>1, <2>2 DEF Moved, Ending, SameSeat
  <2>4. ASSUME ~k.lateActed PROVE Ran(k, t)
    <3>1. Good(m, {}) /\ ~m.lateActed
      BY <1>1, <2>1, <2>4
    <3>2. ~m.cpuControlled /\ m.phase # "match_end"
      BY <1>11, <3>1 DEF Good, Kept
    <3>3. Held(m, kind)
      BY <1>11, <3>1, <3>2 DEF Good, Kept, Suspended
    <3>4. Driven(t) /\ ~t.cpuControlled /\ t.phase # "match_end" /\ ~t.finishMatch
      BY <1>11, <2>1, <2>2, <3>2, <3>3 DEF Driven, Held, WindowKind, SameSeat
    <3>5. Fit(t)
      BY <2>1, <2>2, <2>4, <3>4 DEF Fit, OneDriver, Frozen
    <3> QED BY <2>3, <3>4, <3>5 DEF Ran, Moved, CpuDue
  <2> QED BY <1>8, <2>1, <2>3, <2>4
<1> QED BY <1>2, <1>9, <1>10, <1>11

\* applyPresenceTransitionLocked for a first socket, suspensions included.
LEMMA PlayerReconnectedSettles ==
  ASSUME NEW m, NEW old, Sound(m, old), ~m.finishMatch,
         NEW h, NEW up, up = old \union {h}, NEW t \in PlayerReconnected(m, up)
  PROVE  Settles(m, t, up)
<1>1. RuntimeOK(m) /\ Base(m, old) /\ up # {}
  BY DEF Sound
<1>2. PICK s \in IF m.allDisconnected THEN ResumeAllDisconnected(m, up) ELSE {m} :
        t \in IF ~s.storagePaused THEN Flush(s)
              ELSE IF s.retryDue = {} THEN {[s EXCEPT !.retryAttempt = 0, !.retryDue = {0}]}
              ELSE {s}
  BY DEF PlayerReconnected
<1>3. ASSUME RuntimeOK(s), s.storagePaused, Watched(s) \/ s.retryDue = {} \/ s.retryDue = {s.retryAttempt}
      PROVE  Retried(s, t) /\ Watched(t)
  <2>1. CASE s.retryDue = {}
    <3>1. t = [s EXCEPT !.retryAttempt = 0, !.retryDue = {0}]
      BY <1>2, <1>3, <2>1
    <3> QED BY <1>3, <3>1, RetryRestartedFacts DEF Watched
  <2>2. CASE s.retryDue # {}
    <3>1. t = s
      BY <1>2, <1>3, <2>2
    <3>2. Watched(t)
      BY <1>3, <2>2, <3>1 DEF Watched
    <3> QED BY <1>3, <3>1, <3>2 DEF Retried, SameButRetry, SameTurn, SameTimers, SamePause
  <2> QED BY <2>1, <2>2
<1>4. CASE ~m.allDisconnected
  <2>1. s = m
    BY <1>2, <1>4
  <2>2. Sound(m, up)
    <3>1. ~m.lateActed /\ m.paused => Host \in up
      BY DEF Sound, Good
    <3> QED BY <1>1, <1>4, <3>1, UpFrame
  <2>3. CASE ~m.storagePaused
    BY <1>2, <2>1, <2>2, <2>3, FlushSettles, SamePauseReflexive
  <2>4. CASE m.storagePaused
    <3>1. Retried(m, t) /\ Watched(t)
      BY <1>1, <1>3, <2>1, <2>4 DEF Base
    <3> QED BY <2>2, <3>1, RetriedSettles
  <2> QED BY <2>3, <2>4
<1>5. CASE m.allDisconnected
  <2>1. s \in ResumeAllDisconnected(m, up) /\ old = {} /\ Sound(m, {})
    BY <1>1, <1>2, <1>5 DEF Base
  <2>2. CASE ~m.paused /\ ~m.storagePaused
    <3>1. Sound(s, up) /\ SamePauseState(m, s) /\ ~s.storagePaused
      BY <1>1, <1>5, <2>1, <2>2, ResumedIsSound DEF SamePauseState
    <3> QED BY <1>2, <3>1, FlushSettles
  <2>3. CASE m.paused \/ m.storagePaused
    <3>1. Returned(m, s)
      BY <1>1, <2>1, <2>3, ResumeAllDisconnectedCases
    <3>2. CASE s.storagePaused
      <4>1. s.retryDue = {} \/ s.retryDue = {s.retryAttempt}
        BY <1>1, <3>1, <3>2 DEF Base, Watched, Returned, SameStorage
      <4>2. Retried(s, t) /\ Watched(t)
        BY <1>3, <3>1, <3>2, <4>1 DEF Returned
      <4>3. Sound(t, up) /\ ~t.finishMatch
        BY <1>1, <2>1, <2>3, <3>1, <4>2, ReturnedIsSound
      <4>4. SamePauseState(m, t)
        BY <3>1, <4>2 DEF Returned, SameStorage, Retried, SameButRetry, SamePauseState, SamePause
      <4> QED BY <4>3, <4>4, RestSettles
    <3>3. CASE ~s.storagePaused
      <4>1. Retried(s, s) /\ Watched(s)
        BY <3>1, <3>3 DEF Returned, Watched, Retried, SameButRetry, SameTurn, SameTimers, SamePause
      <4>2. Sound(s, up)
        BY <1>1, <2>1, <2>3, <3>1, <4>1, ReturnedIsSound
      <4>3. SamePauseState(m, s)
        BY <3>1 DEF Returned, SameStorage, SamePauseState
      <4> QED BY <1>2, <3>3, <4>2, <4>3, FlushSettles
    <3> QED BY <3>2, <3>3
  <2> QED BY <2>2, <2>3
<1> QED BY <1>4, <1>5

\* applyPresenceTransitionLocked for a last socket: the host's ends the pause,
\* the last human's suspends the match, the current player's hands over.
LEMMA PlayerDisconnectedSettles ==
  ASSUME NEW m, NEW old, Sound(m, old), NEW player \in old, ~m.finishMatch,
         NEW up, up = old \ {player}, NEW t \in PlayerDisconnected(m, player, up)
  PROVE  \E e : /\ e = m \/ (m.paused /\ e \in ResumeMatch(StopPauseTimer(m), up))
                /\ Settles(e, t, up)
<1>1. RuntimeOK(m) /\ Base(m, old) /\ ~m.allDisconnected
  BY DEF Sound, Base
<1> DEFINE left(e) == IF up = {} THEN SuspendAllDisconnected(e)
                      ELSE IF /\ Player(e) = player
                              /\ ~e.cpuControlled /\ ~e.paused /\ ~e.storagePaused
                      THEN StartDisconnectedCPUControl(e, up)
                      ELSE {e}
           ended == IF player = Host /\ m.paused THEN ResumeMatch(StopPauseTimer(m), up) ELSE {m}
<1>a. t \in UNION {IF s.storagePaused THEN {s} ELSE Flush(s) : s \in UNION {left(e) : e \in ended}}
  BY Zenon DEF PlayerDisconnected
<1> HIDE DEF left, ended
<1>b. PICK s \in UNION {left(e) : e \in ended} : t \in IF s.storagePaused THEN {s} ELSE Flush(s)
  BY <1>a
<1>c. PICK e \in ended : s \in left(e)
  BY <1>b
<1>0. e \in IF player = Host /\ m.paused THEN ResumeMatch(StopPauseTimer(m), up) ELSE {m}
  BY <1>c DEF ended
<1>2. /\ s \in IF up = {} THEN SuspendAllDisconnected(e)
               ELSE IF /\ Player(e) = player
                       /\ ~e.cpuControlled /\ ~e.paused /\ ~e.storagePaused
               THEN StartDisconnectedCPUControl(e, up)
               ELSE {e}
      /\ t \in IF s.storagePaused THEN {s} ELSE Flush(s)
  BY <1>b, <1>c DEF left
<1>3. Sound(e, old) /\ (player = Host => ~e.paused)
  <2>1. CASE player = Host /\ m.paused
    <3>1. PICK q : q = StopPauseTimer(m)
      OBVIOUS
    <3>2. Sound(q, old) /\ q.paused
      BY <1>1, <2>1, <3>1, StopPauseTimerIsSound, StopPauseTimerFacts DEF SameWatch, SameButRetry
    <3>3. e \in ResumeMatch(q, up)
      BY <1>0, <2>1, <3>1
    <3> QED BY <3>2, <3>3, ResumeMatchIsSound
  <2>2. CASE ~(player = Host /\ m.paused)
    BY <1>0, <2>2
  <2> QED BY <2>1, <2>2
<1>4. ~e.lateActed /\ e.paused => Host \in up
  BY <1>3 DEF Sound, Good
<1>5. ~e.allDisconnected
  BY <1>3 DEF Sound, Base
<1>6. Sound(s, up) /\ SamePauseState(e, s)
  <2>1. CASE up = {}
    BY <1>2, <1>3, <1>4, <2>1, SuspendAllDisconnectedIsSound
  <2>2. CASE up # {} /\ s = e
    BY <1>3, <1>4, <1>5, <2>2, UpFrame, SamePauseReflexive
  <2>3. CASE up # {} /\ ~e.paused /\ ~e.storagePaused /\ s \in StartDisconnectedCPUControl(e, up)
    <3>1. Sound(e, up)
      BY <1>3, <1>4, <1>5, <2>3, UpFrame
    <3>2. Running(e, up) /\ (~e.lateActed => Fit(e))
      BY <1>5, <2>3, <3>1, SoundIsFit
    <3>3. ~e.lateActed /\ e.phase = "match_end" => "finish_lost" \in e.lapse \/ e.finishMatch
      BY <3>2 DEF Fit
    <3>4. s \in RunCpuTurn(CancelTimer([e EXCEPT !.cpuControlled = TRUE]), up)
      BY <2>3 DEF StartDisconnectedCPUControl
    <3> QED BY <3>2, <3>3, <3>4, TakeOverIsSound
  <2> QED BY <1>2, <2>1, <2>2, <2>3
<1>7. ASSUME s.storagePaused PROVE Settles(e, t, up)
  <2>1. t = s /\ ~s.finishMatch
    BY <1>2, <1>6, <1>7 DEF Sound, Base
  <2> QED BY <1>6, <2>1, RestSettles
<1>8. ASSUME ~s.storagePaused PROVE Settles(e, t, up)
  BY <1>2, <1>6, <1>8, FlushSettles
<1>9. e = m \/ (m.paused /\ e \in ResumeMatch(StopPauseTimer(m), up))
  BY <1>0
<1> QED BY <1>7, <1>8, <1>9

\* terminateDisconnectedMatchLocked stops the pause timer and drops the runtime.
LEMMA TerminateFacts ==
  ASSUME NEW m, RuntimeOK(m), NEW t, t = TerminateDisconnectedMatch(m)
  PROVE  \E s : s = StopPauseTimer(m) /\ Gone(s, t)
<1>1. PICK e : e = m.ended \union {"invalid"} \union {f \in {"finished"} : m.finishAfterSave}
  OBVIOUS
<1>2. e \in SUBSET {"finished", "invalid"} /\ m.resultSaved \in BOOLEAN
  BY <1>1 DEF RuntimeOK, Typed
<1>3. PICK s : s = StopPauseTimer(m)
  OBVIOUS
<1>4. t = Detached(s, "closed", e, m.resultSaved)
  BY <1>1, <1>3 DEF TerminateDisconnectedMatch
<1>5. "closed" \in {"lobby", "in_match", "post_match", "closed"}
  OBVIOUS
<1>6. RuntimeOK(s)
  BY <1>3, StopPauseTimerFacts
<1>7. Gone(s, t)
  BY <1>2, <1>4, <1>5, <1>6, DetachedFacts, Zenon
<1> QED BY <1>3, <1>7

\* Only the watchdog of an absence is gone.
Unwatched(m, t) ==
  /\ RuntimeOK(t) /\ SameTurn(m, t) /\ SameTimers(m, t) /\ SamePause(m, t) /\ SameStorage(m, t)
  /\ t.preservedKind = m.preservedKind /\ t.allDisconnected = m.allDisconnected
  /\ t.presenceKind = m.presenceKind

\* A watchdog callback that starts to run does that.
LEMMA UnwatchedFacts ==
  ASSUME NEW m, RuntimeOK(m), NEW t, t = [m EXCEPT !.presenceTimer = FALSE]
  PROVE  Unwatched(m, t)
<1>1. Shape(t)
  BY Zenon DEF Shape, RuntimeOK
<1>2. Typed(t)
  BY SMT DEF RuntimeOK, Shape, Fields, Typed
<1>3. SameTurn(m, t) /\ SameTimers(m, t) /\ SamePause(m, t)
  BY SMT DEF RuntimeOK, Shape, Fields, SameTurn, SameTimers, SamePause
<1>4. /\ SameStorage(m, t) /\ t.preservedKind = m.preservedKind
      /\ t.allDisconnected = m.allDisconnected /\ t.presenceKind = m.presenceKind
  BY SMT DEF RuntimeOK, Shape, Fields, SameStorage
<1> QED BY <1>1, <1>2, <1>3, <1>4 DEF RuntimeOK, SameTurn, Unwatched

\* Without an absence the watchdog does not matter.
LEMMA UnwatchedIsSound ==
  ASSUME NEW m, NEW up, Sound(m, up), ~m.allDisconnected, NEW t, Unwatched(m, t)
  PROVE  Sound(t, up)
<1>1. RuntimeOK(m) /\ Base(m, up) /\ RuntimeOK(t)
  BY DEF Sound, Unwatched
<1>2. Base(t, up)
  BY <1>1 DEF Base, Ending, Watched, Frozen, Unwatched, SameTurn, SameTimers, SameStorage, SamePause
<1>3. ASSUME ~t.lateActed PROVE Good(t, up)
  <2>1. Good(m, up)
    BY <1>3 DEF Sound, Unwatched, SameStorage
  <2>2. Suspended(t) = Suspended(m) /\ WindowKind(t) = WindowKind(m) /\ Window(t) = Window(m)
    BY DEF Suspended, WindowKind, Window, Unwatched, SameStorage, SameTurn
  <2>3. (OneDriver(m) => OneDriver(t)) /\ (Driven(m) => Driven(t)) /\ (Frozen(m) => Frozen(t))
    BY <2>2 DEF OneDriver, Driven, Frozen, Unwatched, SameTurn, SameTimers
  <2>4. /\ WindowGone(t) = WindowGone(m) /\ Owed(t) = Owed(m)
        /\ \A k : Held(t, k) = Held(m, k)
    BY <2>2 DEF Owed, WindowGone, ActionGone, Held, Unwatched, SameTurn, SameTimers
  <2>5. Kept(t)
    BY <2>1, <2>2, <2>4 DEF Good, Kept, Unwatched, SameTurn
  <2> QED BY <2>1, <2>2, <2>3, <2>4, <2>5 DEF Good, Unwatched, SameTurn, SameStorage
<1> QED BY <1>1, <1>2, <1>3 DEF Sound

\* fireAllDisconnectedExpiry closes an abandoned room or finds nothing to do.
LEMMA PresenceExpiryIsRest ==
  ASSUME NEW m, NEW up, Rest(m, up), NEW s, s = [m EXCEPT !.presenceTimer = FALSE],
         NEW t \in FireAllDisconnectedExpiry(s, TRUE, up)
  PROVE  Rest(t, up)
<1>1. RuntimeOK(m) /\ ~m.finishMatch
  BY DEF Rest
<1>2. Unwatched(m, s)
  BY <1>1, UnwatchedFacts
<1>3. CASE s.live /\ s.allDisconnected /\ up = {}
  <2>1. t = TerminateDisconnectedMatch(s)
    BY <1>3 DEF FireAllDisconnectedExpiry
  <2> QED BY <1>2, <2>1, TerminateFacts, GoneIsRest DEF Unwatched
<1>4. CASE ~(s.live /\ s.allDisconnected /\ up = {})
  <2>1. t = s
    BY <1>4 DEF FireAllDisconnectedExpiry
  <2>2. RuntimeOK(s) /\ ~s.finishMatch /\ s.live = m.live
    BY <1>1, <1>2 DEF Unwatched, SameTurn, SameStorage
  <2>3. ASSUME m.live PROVE Sound(s, up)
    <3>1. Sound(m, up)
      BY <2>3 DEF Rest
    <3>2. ~m.allDisconnected
      BY <1>2, <1>4, <2>2, <2>3, <3>1 DEF Sound, Base, Unwatched
    <3> QED BY <1>2, <3>1, <3>2, UnwatchedIsSound
  <2> QED BY <2>1, <2>2, <2>3 DEF Rest
<1> QED BY <1>3, <1>4
-----------------------------------------------------------------------------
\* One timer callback has run.
TimerRun(m, t) ==
  RuntimeOK(t) /\ SameSuspension(m, t) /\ SameTurn(m, t)

\* The callback of a window starts to run.
LEMMA TurnTimerRunFacts ==
  ASSUME NEW m, RuntimeOK(m), NEW t, t = [m EXCEPT !.turnTimer = FALSE]
  PROVE  TimerRun(m, t) /\ ~t.turnTimer /\ t.timerKind = m.timerKind /\ t.cpuTimer = m.cpuTimer
<1>1. Shape(t)
  BY Zenon DEF Shape, RuntimeOK
<1>2. Typed(t)
  BY SMT DEF RuntimeOK, Shape, Fields, Typed
<1>3. SameTurn(m, t) /\ ~t.turnTimer /\ t.timerKind = m.timerKind /\ t.cpuTimer = m.cpuTimer
  BY SMT DEF RuntimeOK, Shape, Fields, SameTurn
<1>4. SameSuspension(m, t)
  BY SMT DEF RuntimeOK, Shape, Fields, SameSuspension
<1> QED BY <1>1, <1>2, <1>3, <1>4 DEF RuntimeOK, SameTurn, TimerRun

\* The callback of a CPU action starts to run.
LEMMA CpuTimerRunFacts ==
  ASSUME NEW m, RuntimeOK(m), NEW t, t = [m EXCEPT !.cpuTimer = "fired"]
  PROVE  TimerRun(m, t) /\ t.turnTimer = m.turnTimer /\ t.timerKind = m.timerKind /\ t.cpuTimer = "fired"
<1>1. Shape(t)
  BY Zenon DEF Shape, RuntimeOK
<1>2. Typed(t)
  BY SMT DEF RuntimeOK, Shape, Fields, Typed
<1>3. SameTurn(m, t) /\ t.turnTimer = m.turnTimer /\ t.timerKind = m.timerKind /\ t.cpuTimer = "fired"
  BY SMT DEF RuntimeOK, Shape, Fields, SameTurn
<1>4. SameSuspension(m, t)
  BY SMT DEF RuntimeOK, Shape, Fields, SameSuspension
<1> QED BY <1>1, <1>2, <1>3, <1>4 DEF RuntimeOK, SameTurn, TimerRun

\* ... and forgets its timer.
LEMMA CpuTimerClearedFacts ==
  ASSUME NEW m, RuntimeOK(m), NEW t, t = [m EXCEPT !.cpuTimer = "nil"]
  PROVE  TimerRun(m, t) /\ t.turnTimer = m.turnTimer /\ t.timerKind = m.timerKind /\ t.cpuTimer = "nil"
<1>1. Shape(t)
  BY Zenon DEF Shape, RuntimeOK
<1>2. Typed(t)
  BY SMT DEF RuntimeOK, Shape, Fields, Typed
<1>3. SameTurn(m, t) /\ t.turnTimer = m.turnTimer /\ t.timerKind = m.timerKind /\ t.cpuTimer = "nil"
  BY SMT DEF RuntimeOK, Shape, Fields, SameTurn
<1>4. SameSuspension(m, t)
  BY SMT DEF RuntimeOK, Shape, Fields, SameSuspension
<1> QED BY <1>1, <1>2, <1>3, <1>4 DEF RuntimeOK, SameTurn, TimerRun

\* fireTurnTimeout hands the turn to the CPU with its next action due.
LEMMA FireTurnTimeoutIsHandled ==
  ASSUME NEW m, NEW up, Rest(m, up), m.turnTimer, NEW s, s = [m EXCEPT !.turnTimer = FALSE],
         NEW t \in FireTurnTimeout(s, TRUE, up)
  PROVE  Handled(m, t, up)
<1>1. RuntimeOK(m) /\ ~m.finishMatch
  BY DEF Rest
<1>2. TimerRun(m, s) /\ ~s.turnTimer /\ s.timerKind = m.timerKind /\ s.cpuTimer = m.cpuTimer
  BY <1>1, TurnTimerRunFacts
<1>3. RuntimeOK(s) /\ ~s.finishMatch /\ s.live = m.live /\ s.paused = m.paused /\ s.lateActed = m.lateActed
      /\ s.storagePaused = m.storagePaused /\ s.allDisconnected = m.allDisconnected
      /\ SameTurn(m, s) /\ SameSuspension(m, s)
  BY <1>1, <1>2 DEF TimerRun, SameTurn, SameSuspension
<1>4. CASE ~m.live
  <2>1. t = s
    BY <1>3, <1>4 DEF FireTurnTimeout
  <2> QED BY <1>3, <1>4, <2>1, SuspensionFrame DEF Handled
<1>5. CASE m.live
  <2>1. Sound(m, up) /\ Base(m, up) /\ ~m.paused /\ ~m.storagePaused
    BY <1>5 DEF Rest, Sound, Base, Frozen
  <2>2. ~m.lateActed => Good(m, up) /\ ~Suspended(m)
    BY <2>1 DEF Sound, Good, Frozen
  <2>3. m.lateActed \/ ~m.allDisconnected
    BY <1>1, <2>2 DEF Suspended, RuntimeOK, Typed
  <2>4. Running(m, up) /\ (~m.lateActed => Fit(m))
    BY <2>1, <2>3, SoundIsFit
  <2>5. Running(s, up)
    <3>1. Ending(s)
      BY <1>3 DEF Ending
    <3> QED BY <1>3, <2>4, <3>1, RunningFrame
  <2>6. CASE s.timerKind = "none" \/ s.cpuControlled \/ s.paused
    <3>1. t = s
      BY <2>6 DEF FireTurnTimeout
    <3>2. Moved(m, s)
      BY <1>3 DEF Moved, Ending
    <3>3. ASSUME ~m.lateActed PROVE Ran(m, s)
      <4>1. Good(m, up) /\ ~Suspended(m) /\ Fit(m)
        BY <2>2, <2>4, <3>3
      <4>2. s.timerKind = "none" /\ ~m.cpuControlled
        BY <1>2, <1>3, <2>1, <2>6, <4>1 DEF Good, OneDriver, SameTurn
      <4>3. m.phase # "match_end"
        BY <4>1 DEF Good, OneDriver, Frozen
      <4>4. ~Owed(m)
        BY <1>2, <4>1, <4>2, <4>3 DEF Good, Driven, WindowKind
      <4>5. Fit(s) /\ CpuDue(s)
        BY <1>2, <1>3, <4>1, <4>2, <4>3, <4>4
        DEF Fit, OneDriver, Owed, WindowGone, CpuDue, SameTurn
      <4> QED BY <3>2, <4>5 DEF Ran, Moved
    <3>4. Sound(s, up)
      BY <2>4, <3>2, <3>3, RanIsSound
    <3> QED BY <1>3, <1>5, <3>1, <3>4, SuspensionFrame, RestSettles DEF Handled
  <2>7. CASE ~(s.timerKind = "none" \/ s.cpuControlled \/ s.paused)
    <3>1. t \in FlushAll(RunCpuTurn(CancelTimer([s EXCEPT !.cpuControlled = TRUE]), up))
      BY <1>3, <1>5, <2>7 DEF FireTurnTimeout
    <3>2. ~s.lateActed /\ s.phase = "match_end" => "finish_lost" \in s.lapse \/ s.finishMatch
      BY <1>3, <2>4 DEF Fit, SameTurn
    <3>3. \A r \in RunCpuTurn(CancelTimer([s EXCEPT !.cpuControlled = TRUE]), up) : Sound(r, up) /\ SamePauseState(m, r)
      BY <1>3, <2>5, <3>2, TakeOverIsSound, SuspensionFrame, SamePauseTwice
    <3> QED BY <1>5, <3>1, <3>3, FlushAllSettles DEF Handled
  <2> QED BY <2>6, <2>7
<1> QED BY <1>4, <1>5

\* The callback of scheduleCPUActionLocked leaves the turn driven.
LEMMA FireCPUActionIsHandled ==
  ASSUME NEW m, NEW up, Rest(m, up), m.cpuTimer = "pending",
         NEW s, s = [m EXCEPT !.cpuTimer = "fired"], NEW t \in FireCPUAction(s, TRUE, up)
  PROVE  Handled(m, t, up)
<1>1. RuntimeOK(m) /\ ~m.finishMatch
  BY DEF Rest
<1>2. TimerRun(m, s) /\ s.turnTimer = m.turnTimer /\ s.timerKind = m.timerKind
  BY <1>1, CpuTimerRunFacts
<1>3. /\ RuntimeOK(s) /\ ~s.finishMatch /\ s.live = m.live /\ s.lateActed = m.lateActed
      /\ SameTurn(m, s) /\ SameSuspension(m, s)
  BY <1>1, <1>2 DEF TimerRun, SameTurn, SameSuspension
<1>4. CASE ~m.live
  <2>1. t = s
    BY <1>3, <1>4 DEF FireCPUAction
  <2> QED BY <1>3, <1>4, <2>1, SuspensionFrame DEF Handled
<1>5. CASE m.live
  <2>1. Sound(m, up) /\ Base(m, up) /\ ~m.paused /\ ~m.storagePaused
    BY <1>5 DEF Rest, Sound, Base, Frozen
  <2>2. ~m.lateActed => Good(m, up) /\ ~Suspended(m)
    BY <2>1 DEF Sound, Good, Frozen
  <2>3. m.lateActed \/ ~m.allDisconnected
    BY <1>1, <2>2 DEF Suspended, RuntimeOK, Typed
  <2>4. Running(m, up) /\ (~m.lateActed => Fit(m))
    BY <2>1, <2>3, SoundIsFit
  <2>5. CASE ~s.cpuControlled
    <3>1. t = s
      BY <2>5 DEF FireCPUAction
    <3>2. Moved(m, s)
      BY <1>3 DEF Moved, Ending
    <3>3. m.lateActed
      BY <1>3, <2>2, <2>5 DEF Good, OneDriver, SameTurn
    <3>4. Sound(s, up)
      BY <2>4, <3>2, <3>3, RanIsSound
    <3> QED BY <1>3, <1>5, <3>1, <3>4, SuspensionFrame, RestSettles DEF Handled
  <2>6. CASE s.cpuControlled
    <3>1. PICK k : k = [s EXCEPT !.cpuTimer = "nil"]
      OBVIOUS
    <3>2. \/ \E ms \in SUBSET RunCpuTurn(k, up) : t \in FlushAll(ms)
          \/ t = StepFailed(k) /\ k.phase = "wait_route"
      <4>1. PICK d : d = {f \in {StepFailed(k)} : k.phase = "wait_route"}
        OBVIOUS
      <4>2. t \in d \union FlushAll(RunCpuTurn(k, up) \ d)
        BY <1>3, <1>5, <2>6, <3>1, <4>1 DEF FireCPUAction
      <4>3. RunCpuTurn(k, up) \ d \in SUBSET RunCpuTurn(k, up)
        OBVIOUS
      <4> QED BY <4>1, <4>2, <4>3
    <3>3. TimerRun(s, k) /\ k.turnTimer = s.turnTimer /\ k.timerKind = s.timerKind /\ k.cpuTimer = "nil"
      BY <1>3, <3>1, CpuTimerClearedFacts
    <3>4. SameTurn(m, k) /\ SameSuspension(m, k) /\ RuntimeOK(k)
      BY <1>3, <3>3 DEF TimerRun, SameTurn, SameSuspension
    <3>5. Ending(k) /\ k.lateActed = m.lateActed
      BY <1>1, <3>4 DEF Ending, SameTurn, SameSuspension
    <3>6. Running(k, up)
      BY <2>4, <3>4, <3>5, RunningFrame
    <3>7. ~k.lateActed => Fit(k) /\ Frozen(k)
      BY <1>2, <1>3, <2>4, <2>6, <3>3, <3>4, <3>5 DEF Fit, OneDriver, Frozen, SameTurn
    <3>8. ASSUME NEW r \in RunCpuTurn(k, up) PROVE Sound(r, up) /\ SamePauseState(m, r)
      <4>1. Moved(k, r) /\ (~k.lateActed => Ran(k, r))
        BY <3>4, <3>5, <3>7, RunCpuTurnFacts
      <4>2. SamePauseState(m, r)
        BY <3>4, <4>1, SuspensionFrame, SamePauseTwice DEF Moved
      <4> QED BY <3>6, <4>1, <4>2, RanIsSound
    <3>9. ASSUME NEW ms \in SUBSET RunCpuTurn(k, up), t \in FlushAll(ms)
          PROVE  Settles(m, t, up)
      BY <3>8, <3>9, FlushAllSettles
    <3>10. ASSUME t = StepFailed(k), k.phase = "wait_route" PROVE Settles(m, t, up)
      <4>1. k.cpuControlled /\ ~k.finishMatch
        BY <1>1, <1>3, <2>6, <3>4 DEF SameTurn
      <4>2. k \in RunCpuStepFails(k)
        BY <3>10 DEF RunCpuStepFails
      <4>3. t \in RunCpuTurn(k, up)
        BY <3>10, <4>1, <4>2 DEF RunCpuTurn
      <4>4. ~t.finishMatch
        BY <3>4, <3>10, <4>1, StepFailedFacts DEF SameSeat
      <4> QED BY <3>8, <4>3, <4>4, RestSettles
    <3> QED BY <1>5, <3>2, <3>9, <3>10 DEF Handled
  <2> QED BY <2>5, <2>6
<1> QED BY <1>4, <1>5

\* Bookkeeping that neither the turn nor a suspension depends on.
LEMMA SameButPauseIsRest ==
  ASSUME NEW m, NEW up, Rest(m, up), NEW t, SameButPause(m, t)
  PROVE  Rest(t, up)
<1>1. RuntimeOK(t) /\ ~t.finishMatch /\ t.live = m.live
  BY DEF Rest, SameButPause, SameTurn, SameWatch, SameButRetry
<1>2. m.live => Sound(t, up)
  BY SoundFrame DEF Rest, SameButPause
<1> QED BY <1>1, <1>2 DEF Rest

\* A stale callback starts to run.
LEMMA StaleRunFacts ==
  ASSUME NEW m, RuntimeOK(m), NEW c, NEW t, t = [m EXCEPT !.stale = @ \ {c}]
  PROVE  /\ SameButPause(m, t) /\ t.pauseUsed = m.pauseUsed /\ t.pauseTimer = m.pauseTimer
         /\ t.pauseDue = m.pauseDue /\ t.stale = m.stale \ {c}
<1>1. Shape(t)
  BY Zenon DEF Shape, RuntimeOK
<1>2. Typed(t)
  BY SMT DEF RuntimeOK, Shape, Fields, Typed
<1>3. SameWatch(m, t)
  BY SMT DEF RuntimeOK, Shape, Fields, SameWatch, SameButRetry
<1>4. /\ SameTurn(m, t) /\ SameTimers(m, t) /\ t.pauseUsed = m.pauseUsed
      /\ t.pauseTimer = m.pauseTimer /\ t.pauseDue = m.pauseDue /\ t.stale = m.stale \ {c}
  BY SMT DEF RuntimeOK, Shape, Fields, SameTurn, SameTimers
<1> QED BY <1>1, <1>2, <1>3, <1>4 DEF RuntimeOK, SameTurn, SameButPause

\* The callback of the pause with deadline d has started to run.
PauseRun(m, t, d) ==
  /\ SameButPause(m, t) /\ t.pauseUsed = m.pauseUsed /\ t.pauseTimer = m.pauseTimer
  /\ t.pauseDue = m.pauseDue \ {d} /\ t.stale = m.stale

\* Taking it off the due ones does that.
LEMMA PauseRunFacts ==
  ASSUME NEW m, RuntimeOK(m), NEW d,
         NEW t, t = [m EXCEPT !.pauseDue = @ \ {d}, !.pauseOver = @ \/ d = m.matchNo]
  PROVE  PauseRun(m, t, d)
<1>1. Shape(t)
  BY Zenon DEF Shape, RuntimeOK
<1>2. Typed(t)
  BY SMT DEF RuntimeOK, Shape, Fields, Typed
<1>3. SameWatch(m, t)
  BY SMT DEF RuntimeOK, Shape, Fields, SameWatch, SameButRetry
<1>4. /\ SameTurn(m, t) /\ SameTimers(m, t) /\ t.pauseUsed = m.pauseUsed
      /\ t.pauseTimer = m.pauseTimer /\ t.pauseDue = m.pauseDue \ {d} /\ t.stale = m.stale
  BY SMT DEF RuntimeOK, Shape, Fields, SameTurn, SameTimers
<1> QED BY <1>1, <1>2, <1>3, <1>4 DEF RuntimeOK, SameTurn, SameButPause, PauseRun

\* A callback whose timer was stopped too late.
LEMMA StaleTimerIsRest ==
  ASSUME NEW m, NEW up, Rest(m, up), NEW c \in Callbacks,
         NEW s, s = [m EXCEPT !.stale = @ \ {c}],
         NEW t, \/ t \in FireTurnTimeout(s, FALSE, up)
                \/ t \in FireCPUAction(s, FALSE, up)
                \/ t \in FirePauseExpiry(s, s.matchNo, up)
                \/ t \in FireAllDisconnectedExpiry(s, FALSE, up)
                \/ /\ c = "retry"
                   /\ \E attempt \in 0 .. StorageRetries - 1 : t \in FireStorageRetry(s, attempt, up)
  PROVE  Rest(t, up)
<1>1. SameButPause(m, s)
  BY StaleRunFacts DEF Rest
<1>2. Rest(s, up)
  BY <1>1, SameButPauseIsRest
<1>3. CASE t = s \/ t \in FirePauseExpiry(s, s.matchNo, up)
  BY <1>2, <1>3, FirePauseExpiryIsRest
<1>4. ASSUME c = "retry", NEW attempt \in 0 .. StorageRetries - 1, t \in FireStorageRetry(s, attempt, up)
      PROVE  Rest(t, up)
  <2>1. c \in Callbacks \ {"pause"}
    BY <1>4
  <2>2. Retried(m, s)
    BY <2>1, RetryStaleFacts DEF Rest
  <2>3. s.live => Watched(s)
    BY <1>2 DEF Rest, Sound, Base
  <2> QED BY <1>4, <2>2, <2>3, FireStorageRetryIsRest
<1>5. \/ t = s \/ t \in FirePauseExpiry(s, s.matchNo, up)
      \/ /\ c = "retry"
         /\ \E attempt \in 0 .. StorageRetries - 1 : t \in FireStorageRetry(s, attempt, up)
  BY DEF FireTurnTimeout, FireCPUAction, FireAllDisconnectedExpiry
<1> QED BY <1>3, <1>4, <1>5
-----------------------------------------------------------------------------
\* A command that outlived its socket leaves a mark and nothing else.
Marked(m, t) ==
  /\ RuntimeOK(t) /\ SameTurn(m, t) /\ SameTimers(m, t) /\ SamePause(m, t)
  /\ t.live = m.live /\ t.paused = m.paused /\ t.preservedKind = m.preservedKind
  /\ t.allDisconnected = m.allDisconnected /\ t.presenceTimer = m.presenceTimer
  /\ t.presenceKind = m.presenceKind
  /\ t.storagePaused = m.storagePaused /\ t.retryAttempt = m.retryAttempt
  /\ t.retryDue = m.retryDue /\ t.finishAfterSave = m.finishAfterSave

\* Marking a late command changes nothing else.
LEMMA MarkedFacts ==
  ASSUME NEW m, RuntimeOK(m), NEW gone \in BOOLEAN, NEW t, t = [m EXCEPT !.lateActed = @ \/ gone]
  PROVE  Marked(m, t) /\ (t.lateActed <=> m.lateActed \/ gone)
<1>1. Shape(t)
  BY Zenon DEF Shape, RuntimeOK
<1>2. Typed(t)
  BY SMT DEF RuntimeOK, Shape, Fields, Typed
<1>3. SameTurn(m, t) /\ SameTimers(m, t) /\ SamePause(m, t)
  BY SMT DEF RuntimeOK, Shape, Fields, SameTurn, SameTimers, SamePause
<1>4. /\ t.live = m.live /\ t.paused = m.paused /\ t.preservedKind = m.preservedKind
      /\ t.allDisconnected = m.allDisconnected /\ t.presenceTimer = m.presenceTimer
      /\ t.presenceKind = m.presenceKind
      /\ t.storagePaused = m.storagePaused /\ t.retryAttempt = m.retryAttempt
      /\ t.retryDue = m.retryDue /\ t.finishAfterSave = m.finishAfterSave
  BY SMT DEF RuntimeOK, Shape, Fields
<1>5. "lateActed" \in DOMAIN m
  BY DEF RuntimeOK, Shape, Fields
<1>6. t.lateActed <=> m.lateActed \/ gone
  BY <1>5, Zenon
<1> QED BY <1>1, <1>2, <1>3, <1>4, <1>6 DEF RuntimeOK, SameTurn, Marked

\* The mark asks for less.
LEMMA MarkedIsSound ==
  ASSUME NEW m, NEW up, Sound(m, up), NEW t, Marked(m, t), m.lateActed => t.lateActed
  PROVE  Sound(t, up)
<1>1. RuntimeOK(m) /\ Base(m, up) /\ RuntimeOK(t)
  BY DEF Sound, Marked
<1>2. Base(t, up)
  BY <1>1 DEF Base, Ending, Watched, Frozen, Marked, SameTurn, SameTimers, SamePause
<1>3. ASSUME ~t.lateActed PROVE Good(t, up)
  <2>1. Good(m, up)
    BY <1>3 DEF Sound
  <2>2. Suspended(t) = Suspended(m) /\ WindowKind(t) = WindowKind(m) /\ Window(t) = Window(m)
    BY DEF Suspended, WindowKind, Window, Marked, SameTurn
  <2>3. (OneDriver(m) => OneDriver(t)) /\ (Driven(m) => Driven(t)) /\ (Frozen(m) => Frozen(t))
    BY <2>2 DEF OneDriver, Driven, Frozen, Marked, SameTurn, SameTimers
  <2>4. /\ WindowGone(t) = WindowGone(m) /\ Owed(t) = Owed(m)
        /\ \A k : Held(t, k) = Held(m, k)
    BY <2>2 DEF Owed, WindowGone, ActionGone, Held, Marked, SameTurn, SameTimers
  <2>5. Kept(t)
    BY <2>1, <2>2, <2>4 DEF Good, Kept, Marked, SameTurn
  <2> QED BY <2>1, <2>2, <2>3, <2>4, <2>5 DEF Good, Marked, SameTurn
<1> QED BY <1>1, <1>2, <1>3 DEF Sound

\* The runtime a command of h finds: sound, and marked when h is not connected.
LEMMA CommandedFacts ==
  ASSUME Rest(rt, Up), LiveMatch, NEW h \in Humans, NEW c, c = Commanded(h)
  PROVE  /\ Sound(c, Up) /\ Marked(rt, c) /\ SamePauseState(rt, c) /\ RuntimeOK(c) /\ ~c.finishMatch /\ ~c.storagePaused
         /\ c.lateActed \/ (h \in Up /\ ~c.allDisconnected)
<1>1. Sound(rt, Up) /\ RuntimeOK(rt) /\ ~rt.finishMatch /\ ~rt.storagePaused
  BY DEF LiveMatch, Rest
<1>2. PICK gone \in BOOLEAN : gone = (h \notin Up)
  OBVIOUS
<1>3. c = [rt EXCEPT !.lateActed = @ \/ gone]
  BY <1>2 DEF Commanded
<1>4. Marked(rt, c) /\ (c.lateActed <=> rt.lateActed \/ gone)
  BY <1>1, <1>3, MarkedFacts
<1>5. Sound(c, Up)
  BY <1>1, <1>4, MarkedIsSound
<1>6. c.lateActed \/ (h \in Up /\ ~c.allDisconnected)
  BY <1>2, <1>4, <1>5 DEF Sound, Base
<1>7. SamePauseState(rt, c)
  BY <1>4 DEF Marked, SamePauseState
<1> QED BY <1>1, <1>4, <1>5, <1>6, <1>7 DEF Marked, SameTurn

\* ... and fit to run when no pause is on.
LEMMA CommandedIsFit ==
  ASSUME Rest(rt, Up), LiveMatch, ~rt.paused, NEW h \in Humans, NEW c, c = Commanded(h)
  PROVE  /\ Running(c, Up) /\ SamePauseState(rt, c) /\ RuntimeOK(c) /\ ~c.finishMatch /\ c.phase = rt.phase
         /\ ~c.lateActed => Fit(c) /\ (c.phase # "match_end" => CpuDue(c))
<1>1. /\ Sound(c, Up) /\ Marked(rt, c) /\ SamePauseState(rt, c) /\ RuntimeOK(c) /\ ~c.finishMatch /\ ~c.storagePaused
      /\ c.lateActed \/ ~c.allDisconnected
  BY CommandedFacts
<1>2. ~c.paused /\ c.phase = rt.phase
  BY <1>1 DEF Marked, SameTurn
<1> QED BY <1>1, <1>2, SoundIsFit

\* A turn handler run by a command.
LEMMA MovedSettles ==
  ASSUME NEW m, NEW up, NEW c, SamePauseState(m, c), Running(c, up),
         NEW t, Moved(c, t), ~c.lateActed => Ran(c, t)
  PROVE  Sound(t, up) /\ SamePauseState(m, t)
BY RanIsSound, SuspensionFrame, SamePauseTwice DEF Moved

\* THROW_YUT leaves the turn driven, late or not.
LEMMA ThrowYutSettles ==
  ASSUME Rest(rt, Up), NEW h \in Humans, ThrowYut(h)
  PROVE  Settles(rt, rt', Up)
<1>1. PICK c : c = Commanded(h)
  OBVIOUS
<1>2. LiveMatch /\ ~rt.paused /\ rt.phase = "wait_throw"
  BY DEF ThrowYut
<1>3. \/ rt' \in FlushAll(UNION {AdvanceTurn(q, Up) : q \in PerformThrow(c)})
      \/ \E q \in PerformThrow(c) : rt' \in AdvanceFails(q)
  BY <1>1 DEF ThrowYut
<1>4. /\ Running(c, Up) /\ SamePauseState(rt, c) /\ RuntimeOK(c) /\ ~c.finishMatch /\ c.phase = "wait_throw"
      /\ ~c.lateActed => Fit(c) /\ CpuDue(c) /\ OneDriver(c) /\ Armed(c)
  BY <1>1, <1>2, CommandedIsFit, FitIsArmed DEF Fit
<1>5. ASSUME NEW t \in UNION {AdvanceTurn(q, Up) : q \in PerformThrow(c)}
      PROVE  Sound(t, Up) /\ SamePauseState(rt, t)
  <2>1. PICK q \in PerformThrow(c) : t \in AdvanceTurn(q, Up)
    BY <1>5
  <2>2. Thrown(c, q)
    BY <1>4, PerformThrowFacts
  <2>3. CASE q.phase = "resolve_queue"
    <3>1. Advanced(q, t)
      BY <2>1, <2>2, <2>3, AdvanceTurnFacts DEF Thrown
    <3>2. Moved(c, t)
      BY <2>2, <3>1 DEF Thrown, Advanced, Moved, SameSuspension
    <3>3. ~c.lateActed => Ran(c, t)
      BY <1>4, <2>2, <2>3, <3>1, <3>2 DEF Thrown, Advanced, Moved, Ran
    <3> QED BY <1>4, <3>2, <3>3, MovedSettles
  <2>4. CASE q.phase # "resolve_queue"
    <3>1. t = q /\ q.phase = "wait_throw"
      BY <2>1, <2>2, <2>4 DEF AdvanceTurn, Thrown
    <3>2. Moved(c, t)
      BY <2>2, <3>1 DEF Thrown, Moved, Ending
    <3>3. ~c.lateActed => Ran(c, t)
      BY <1>4, <2>2, <3>1, <3>2 DEF Thrown, Moved, Ran
    <3> QED BY <1>4, <3>2, <3>3, MovedSettles
  <2> QED BY <2>3, <2>4
<1>6. ASSUME NEW q \in PerformThrow(c), rt' \in AdvanceFails(q)
      PROVE  Settles(rt, rt', Up)
  <2>1. rt' \in AdvanceTurn(q, Up)
    BY <1>6, FailuresAreOutcomes
  <2>2. Sound(rt', Up) /\ SamePauseState(rt, rt')
    BY <1>5, <1>6, <2>1
  <2>3. Thrown(c, q)
    BY <1>4, PerformThrowFacts
  <2>4. ~rt'.finishMatch
    BY <1>6, <2>3, FailureIsNoEnd DEF Thrown
  <2> QED BY <2>2, <2>4, RestSettles
<1> QED BY <1>3, <1>5, <1>6, FlushAllSettles

\* SELECT_MOVE.
LEMMA SelectMoveSettles ==
  ASSUME Rest(rt, Up), NEW h \in Humans, SelectMove(h)
  PROVE  Settles(rt, rt', Up)
<1>1. PICK c : c = Commanded(h)
  OBVIOUS
<1>2. LiveMatch /\ ~rt.paused /\ rt.phase = "wait_move"
  BY DEF SelectMove
<1>3. rt' \in FlushAll(SelectMoveInternal(c, Up)) \/ rt' \in ApplySelectedMoveFails(c)
  BY <1>1 DEF SelectMove
<1>4. /\ Running(c, Up) /\ SamePauseState(rt, c) /\ RuntimeOK(c) /\ ~c.finishMatch /\ c.phase = "wait_move"
      /\ ~c.lateActed => Fit(c) /\ CpuDue(c)
  BY <1>1, <1>2, CommandedIsFit
<1>5. ASSUME NEW t \in SelectMoveInternal(c, Up)
      PROVE  Sound(t, Up) /\ SamePauseState(rt, t)
  <2>1. /\ Moved(c, t)
        /\ Fit(c) => Fit(t)
        /\ Fit(c) /\ CpuDue(c) /\ t.phase # "match_end" => CpuDue(t)
    BY <1>4, SelectMoveFacts
  <2>2. ~c.lateActed => Ran(c, t)
    BY <1>4, <2>1 DEF Moved, Ran
  <2> QED BY <1>4, <2>1, <2>2, MovedSettles
<1>6. ASSUME rt' \in ApplySelectedMoveFails(c) PROVE Settles(rt, rt', Up)
  <2>1. rt' \in SelectMoveInternal(c, Up)
    BY <1>6, FailuresAreOutcomes DEF SelectMoveInternal
  <2>2. Sound(rt', Up) /\ SamePauseState(rt, rt') /\ ~rt'.finishMatch
    BY <1>4, <1>5, <1>6, <2>1, FailureIsNoEnd
  <2> QED BY <2>2, RestSettles
<1> QED BY <1>3, <1>5, <1>6, FlushAllSettles

\* SELECT_ROUTE.
LEMMA SelectRouteSettles ==
  ASSUME Rest(rt, Up), NEW h \in Humans, SelectRoute(h)
  PROVE  Settles(rt, rt', Up)
<1>1. PICK c : c = Commanded(h)
  OBVIOUS
<1>2. LiveMatch /\ ~rt.paused /\ rt.phase = "wait_route"
  BY DEF SelectRoute
<1>3. rt' \in FlushAll(ApplySelectedMove(c, Up)) \/ rt' \in ApplySelectedMoveFails(c)
  BY <1>1 DEF SelectRoute
<1>4. /\ Running(c, Up) /\ SamePauseState(rt, c) /\ RuntimeOK(c) /\ ~c.finishMatch /\ c.phase = "wait_route"
      /\ ~c.lateActed => Fit(c) /\ CpuDue(c) /\ OneDriver(c) /\ Armed(c)
  BY <1>1, <1>2, CommandedIsFit, FitIsArmed DEF Fit
<1>5. ASSUME NEW t \in ApplySelectedMove(c, Up)
      PROVE  Sound(t, Up) /\ SamePauseState(rt, t)
  <2>1. Advanced(c, t)
    BY <1>4, ApplySelectedMoveFacts
  <2>2. Moved(c, t) /\ (~c.lateActed => Ran(c, t))
    BY <1>4, <2>1 DEF Advanced, Moved, Ran
  <2> QED BY <1>4, <2>2, MovedSettles
<1>6. ASSUME rt' \in ApplySelectedMoveFails(c) PROVE Settles(rt, rt', Up)
  <2>1. rt' \in ApplySelectedMove(c, Up)
    BY <1>6, FailuresAreOutcomes
  <2>2. Sound(rt', Up) /\ SamePauseState(rt, rt') /\ ~rt'.finishMatch
    BY <1>4, <1>5, <1>6, <2>1, FailureIsNoEnd
  <2> QED BY <2>2, RestSettles
<1> QED BY <1>3, <1>5, <1>6, FlushAllSettles

\* The runtime a match starts from.
Fresh(m, n, due) ==
  /\ RuntimeOK(m) /\ ~m.finishMatch /\ Frozen(m) /\ m.matchNo = n /\ m.lapse = {}
  /\ ~m.paused /\ ~m.pauseUsed /\ ~m.pauseTimer /\ m.pauseDue = due /\ "pause" \notin m.stale
  /\ ~m.allDisconnected /\ ~m.storagePaused /\ m.preservedKind = "none"

\* A new runtime has every field.
LEMMA NewRuntimeShape ==
  ASSUME NEW room, NEW n, NEW order, NEW due, NEW ended, NEW saved,
         NEW m, m = NewRuntime(room, n, order, due, ended, saved)
  PROVE  Shape(m)
<1>1. DOMAIN m = Fields
  BY SMT DEF NewRuntime, Fields
<1>2. m = [f \in DOMAIN m |-> m[f]]
  BY Zenon DEF NewRuntime
<1> QED BY <1>1, <1>2 DEF Shape

\* newMatchRuntime builds that.
LEMMA NewRuntimeFacts ==
  ASSUME NEW room \in {"lobby", "in_match", "post_match", "closed"}, NEW n \in 0 .. MaxMatches,
         NEW order \in Orders, NEW due \in SUBSET (1 .. MaxMatches),
         NEW m, m = NewRuntime(room, n, order, due, {}, FALSE)
  PROVE  Fresh(m, n, due) /\ ~m.live
<1>1. Shape(m)
  BY NewRuntimeShape
<1>2. Typed(m)
  BY SMT DEF NewRuntime, Typed, TimerKinds, Phases, Callbacks, Lapses, StorageRetries
<1>3. m.cur = 1 /\ m.order = order
  BY SMT DEF NewRuntime
<1>4. order # <<>> /\ order \in Seq(Humans \union Lobby_CPUs)
  BY ConfigAssumption
<1>5. 1 \in 1 .. Len(order)
  BY <1>4
<1>6. RuntimeOK(m)
  BY <1>1, <1>2, <1>3, <1>5 DEF RuntimeOK
<1>7. /\ ~m.finishMatch /\ Frozen(m) /\ m.matchNo = n /\ ~m.live /\ m.lapse = {}
      /\ ~m.paused /\ ~m.pauseUsed /\ ~m.pauseTimer /\ m.pauseDue = due /\ "pause" \notin m.stale
      /\ ~m.allDisconnected /\ ~m.storagePaused /\ m.preservedKind = "none"
  BY SMT DEF NewRuntime, Frozen
<1> QED BY <1>6, <1>7 DEF Fresh

\* The match is live; a host who is gone left a mark.
Started(m, gone) == [m EXCEPT !.live = TRUE, !.lateActed = gone]

\* Starting changes nothing else.
LEMMA StartedFacts ==
  ASSUME NEW m, NEW n, NEW due, Fresh(m, n, due), NEW gone \in BOOLEAN, NEW t, t = Started(m, gone)
  PROVE  Fresh(t, n, due) /\ t.live /\ t.lateActed = gone
<1> USE DEF Started
<1>0. RuntimeOK(m)
  BY DEF Fresh
<1>1. Shape(t)
  BY <1>0, Zenon DEF Shape, RuntimeOK
<1>2. Typed(t)
  BY <1>0, SMT DEF RuntimeOK, Shape, Fields, Typed
<1>3. SameTurn(m, t) /\ SameTimers(m, t)
  BY <1>0, SMT DEF RuntimeOK, Shape, Fields, SameTurn, SameTimers
<1>4. /\ t.matchNo = m.matchNo /\ t.pauseDue = m.pauseDue /\ t.stale = m.stale
      /\ t.preservedKind = m.preservedKind /\ t.live /\ t.lateActed = gone
  BY <1>0, SMT DEF RuntimeOK, Shape, Fields
<1>5. /\ t.paused = m.paused /\ t.pauseUsed = m.pauseUsed /\ t.pauseTimer = m.pauseTimer
      /\ t.allDisconnected = m.allDisconnected /\ t.storagePaused = m.storagePaused
  BY <1>0, SMT DEF RuntimeOK, Shape, Fields
<1>6. RuntimeOK(t)
  BY <1>0, <1>1, <1>2, <1>3 DEF RuntimeOK, SameTurn
<1> QED BY <1>3, <1>4, <1>5, <1>6 DEF Fresh, SameTurn, SameTimers, Frozen

\* What StartMatch hands to beginTurnLocked.
LEMMA StartMatchFacts ==
  ASSUME Rest(rt, Up), StartMatch
  PROVE  \E m : /\ rt' \in FlushAll(BeginTurn(m, Up)) /\ Fresh(m, rt.matchNo + 1, rt.pauseDue)
                /\ m.live /\ m.lateActed = (Host \notin Up)
<1>1. PICK order \in Orders :
        rt' \in FlushAll(BeginTurn(
          [NewRuntime("in_match", rt.matchNo + 1, order, rt.pauseDue, {}, FALSE)
            EXCEPT !.live = TRUE, !.lateActed = Host \notin Up], Up))
  BY DEF StartMatch
<1>2. PICK f : f = NewRuntime("in_match", rt.matchNo + 1, order, rt.pauseDue, {}, FALSE)
  OBVIOUS
<1>3. PICK gone \in BOOLEAN : gone = (Host \notin Up)
  OBVIOUS
<1>4. PICK m : m = Started(f, gone)
  OBVIOUS
<1>5. rt' \in FlushAll(BeginTurn(m, Up))
  BY <1>1, <1>2, <1>3, <1>4 DEF Started
<1>6. rt.matchNo + 1 \in 0 .. MaxMatches /\ rt.pauseDue \in SUBSET (1 .. MaxMatches)
  <2>1. rt.matchNo \in 0 .. MaxMatches /\ rt.pauseDue \in SUBSET (1 .. MaxMatches)
    BY DEF Rest, RuntimeOK, Typed
  <2>2. rt.matchNo < MaxMatches /\ MaxMatches \in Nat
    BY ConfigAssumption DEF StartMatch
  <2> QED
    BY <2>1, <2>2
<1>7. PICK n : n = rt.matchNo + 1
  OBVIOUS
<1>8. Fresh(f, n, rt.pauseDue)
  BY <1>2, <1>6, <1>7, NewRuntimeFacts
<1>9. Fresh(m, n, rt.pauseDue) /\ m.live /\ m.lateActed = gone
  BY <1>4, <1>8, StartedFacts
<1> QED BY <1>3, <1>5, <1>7, <1>9

\* START_GAME leaves the first turn driven.
LEMMA StartMatchSettles ==
  ASSUME Rest(rt, Up), StartMatch
  PROVE  \E m : Fresh(m, rt.matchNo + 1, rt.pauseDue) /\ m.live /\ Settles(m, rt', Up)
<1>1. PICK m : /\ rt' \in FlushAll(BeginTurn(m, Up)) /\ Fresh(m, rt.matchNo + 1, rt.pauseDue)
               /\ m.live /\ m.lateActed = (Host \notin Up)
  BY StartMatchFacts
<1>2. rt.matchNo + 1 # 0
  BY ConfigAssumption DEF Rest, RuntimeOK, Typed
<1>3. Running(m, Up)
  BY <1>1, <1>2 DEF Fresh, Running, Ending
<1>4. ASSUME NEW t \in BeginTurn(m, Up) PROVE Sound(t, Up) /\ SamePauseState(m, t)
  <2>1. Ran(m, t)
    BY <1>1, BeginTurnFacts DEF Fresh
  <2> QED BY <1>3, <2>1, MovedSettles, SamePauseReflexive DEF Ran, Moved
<1> QED BY <1>1, <1>4, FlushAllSettles

\* The host's pause takes the window with it.
Paused(m, t) ==
  /\ RuntimeOK(t) /\ SameTurn(m, t) /\ SameTimers(m, t)
  /\ t.live = m.live /\ t.matchNo = m.matchNo /\ t.lateActed = m.lateActed
  /\ t.preservedKind = m.timerKind /\ t.paused /\ t.pauseUsed /\ t.pauseTimer
  /\ t.pauseDue = m.pauseDue \union {m.matchNo} /\ t.stale = m.stale
  /\ t.allDisconnected = m.allDisconnected /\ t.presenceTimer = m.presenceTimer
  /\ t.presenceKind = m.presenceKind
  /\ t.storagePaused = m.storagePaused /\ t.finishAfterSave = m.finishAfterSave

\* Staging the pause does that.
LEMMA PausedFacts ==
  ASSUME NEW m, RuntimeOK(m), m.matchNo # 0, NEW left \in 0 .. 1,
         NEW n, n = m.matchNo, NEW kind, kind = m.timerKind,
         NEW t, t = [m EXCEPT !.pauseUsed = TRUE, !.paused = TRUE, !.pauseTimer = TRUE,
                              !.pauseDue = @ \union {n}, !.pauseOver = FALSE,
                              !.preservedKind = kind, !.preservedRemaining = left]
  PROVE  Paused(m, t)
<1>0. n \in 1 .. MaxMatches /\ kind \in TimerKinds
  BY ConfigAssumption DEF RuntimeOK, Typed
<1>1. Shape(t)
  BY Zenon DEF Shape, RuntimeOK
<1>2. Typed(t)
  BY <1>0, SMT DEF RuntimeOK, Shape, Fields, Typed
<1>3. SameTurn(m, t) /\ SameTimers(m, t)
  BY SMT DEF RuntimeOK, Shape, Fields, SameTurn, SameTimers
<1>4. /\ t.live = m.live /\ t.matchNo = m.matchNo /\ t.lateActed = m.lateActed
      /\ t.preservedKind = kind /\ t.paused /\ t.pauseUsed /\ t.pauseTimer
      /\ t.pauseDue = m.pauseDue \union {n} /\ t.stale = m.stale
  BY SMT DEF RuntimeOK, Shape, Fields
<1>5. /\ t.allDisconnected = m.allDisconnected /\ t.presenceTimer = m.presenceTimer
      /\ t.presenceKind = m.presenceKind
      /\ t.storagePaused = m.storagePaused /\ t.finishAfterSave = m.finishAfterSave
  BY SMT DEF RuntimeOK, Shape, Fields
<1> QED BY <1>1, <1>2, <1>3, <1>4, <1>5 DEF RuntimeOK, SameTurn, Paused

\* PAUSE_GAME stages the pause, cancels the turn's timers and saves.
LEMMA PauseGameFacts ==
  ASSUME Rest(rt, Up), PauseGame
  PROVE  \E c, p, t : /\ c = Commanded(Host) /\ Paused(c, p) /\ t = CancelTimer(p) /\ rt' \in Flush(t)
<1>1. PICK left \in Remaining(rt) :
        rt' \in Flush(CancelTimer(
          [Commanded(Host) EXCEPT !.pauseUsed = TRUE, !.paused = TRUE, !.pauseTimer = TRUE,
                            !.pauseDue = @ \union {rt.matchNo}, !.pauseOver = FALSE,
                            !.preservedKind = rt.timerKind, !.preservedRemaining = left]))
  BY DEF PauseGame
<1>2. PICK c : c = Commanded(Host)
  OBVIOUS
<1>3. PICK p : p = [c EXCEPT !.pauseUsed = TRUE, !.paused = TRUE, !.pauseTimer = TRUE,
                             !.pauseDue = @ \union {rt.matchNo}, !.pauseOver = FALSE,
                             !.preservedKind = rt.timerKind, !.preservedRemaining = left]
  OBVIOUS
<1>4. PICK t : t = CancelTimer(p)
  OBVIOUS
<1>5. rt' \in Flush(t)
  BY <1>1, <1>2, <1>3, <1>4
<1>6. Marked(rt, c) /\ RuntimeOK(c) /\ Sound(c, Up)
  BY <1>2, ConfigAssumption, CommandedFacts DEF PauseGame
<1>7. left \in 0 .. 1 /\ rt.matchNo = c.matchNo /\ rt.timerKind = c.timerKind /\ c.matchNo # 0
  BY <1>6 DEF Remaining, Marked, SamePause, SameTimers, Sound, Base
<1>8. Paused(c, p)
  BY <1>3, <1>6, <1>7, PausedFacts
<1> QED BY <1>2, <1>4, <1>5, <1>8

\* PAUSE_GAME leaves a sound match: the window it cancels is preserved.
LEMMA PauseGameSettles ==
  ASSUME Rest(rt, Up), PauseGame
  PROVE  \E c, p : Marked(rt, c) /\ Paused(c, p) /\ Settles(p, rt', Up)
<1>1. PICK c, p, t : /\ c = Commanded(Host) /\ Paused(c, p) /\ t = CancelTimer(p) /\ rt' \in Flush(t)
  BY PauseGameFacts
<1>2. LiveMatch /\ ~rt.paused /\ Host \in Humans
  BY ConfigAssumption DEF PauseGame
<1>3. /\ Sound(c, Up) /\ RuntimeOK(c) /\ ~c.finishMatch /\ ~c.storagePaused
      /\ c.lateActed \/ (Host \in Up /\ ~c.allDisconnected)
  BY <1>1, <1>2, CommandedFacts
<1>4. ~c.paused
  BY <1>1, <1>2, CommandedFacts DEF Marked
<1>5. RuntimeOK(t) /\ SameSuspension(p, t) /\ SameTurn(p, t) /\ Frozen(t)
  BY <1>1, CancelTimerFacts DEF Paused
<1>6. SameTurn(c, t)
  BY <1>1, <1>5 DEF Paused, SameTurn
<1>7. /\ t.live = c.live /\ t.matchNo = c.matchNo /\ t.lateActed = c.lateActed
      /\ t.preservedKind = c.timerKind /\ t.paused
      /\ t.allDisconnected = c.allDisconnected /\ t.presenceTimer = c.presenceTimer
      /\ t.presenceKind = c.presenceKind
      /\ t.storagePaused = c.storagePaused /\ t.finishAfterSave = c.finishAfterSave
  BY <1>1, <1>5 DEF Paused, SameSuspension
<1>8. Base(t, Up)
  BY <1>3, <1>5, <1>6, <1>7 DEF Sound, Base, Ending, Watched, SameTurn
<1>9. ASSUME ~t.lateActed PROVE Good(t, Up)
  <2>1. Good(c, Up) /\ ~Suspended(c) /\ Host \in Up
    BY <1>3, <1>4, <1>7, <1>9 DEF Sound, Suspended
  <2>2. Suspended(t) /\ OneDriver(t)
    BY <1>5, <1>7 DEF Suspended, OneDriver, Frozen
  <2>3. t.cpuControlled \/ t.phase = "match_end" => t.preservedKind = "none"
    BY <1>6, <1>7, <2>1 DEF Good, OneDriver, Frozen, SameTurn
  <2>4. ASSUME ~t.cpuControlled, t.phase # "match_end"
        PROVE  Held(t, t.preservedKind) /\ (WindowGone(t) \/ Window(t) # "none")
    <3>1. (Owed(c) => Driven(c)) /\ ~c.cpuControlled
      BY <1>6, <2>1, <2>4 DEF Good, SameTurn
    <3>2. Window(t) = c.timerKind /\ t.preservedKind = c.timerKind
      BY <1>3, <1>7, <1>9 DEF Window
    <3> QED BY <1>6, <3>1, <3>2 DEF Owed, WindowGone, Held, Driven, WindowKind, SameTurn
  <2>5. Kept(t)
    BY <1>3, <1>7, <1>9, <2>2, <2>3, <2>4 DEF Kept
  <2> QED BY <1>5, <1>6, <1>7, <2>1, <2>2, <2>5 DEF Good, SameTurn
<1>10. Sound(t, Up)
  BY <1>5, <1>8, <1>9 DEF Sound
<1>11. SamePauseState(p, t) /\ Marked(rt, c)
  BY <1>1, <1>2, <1>5, SuspensionFrame, CommandedFacts
<1> QED BY <1>1, <1>10, <1>11, FlushSettles

\* RESUME_GAME.
LEMMA ResumeGameIsRest ==
  ASSUME Rest(rt, Up), ResumeGame
  PROVE  Rest(rt', Up)
<1>1. PICK c : c = Commanded(Host)
  OBVIOUS
<1>2. PICK s : s = StopPauseTimer(c)
  OBVIOUS
<1>3. LiveMatch /\ rt.paused /\ rt' \in FlushAll(ResumeMatch(s, Up))
  BY <1>1, <1>2 DEF ResumeGame
<1>4. Sound(c, Up) /\ RuntimeOK(c) /\ c.paused
  BY <1>1, <1>3, ConfigAssumption, CommandedFacts DEF Marked
<1>5. Sound(s, Up) /\ s.paused
  BY <1>2, <1>4, StopPauseTimerIsSound, StopPauseTimerFacts DEF SameWatch, SameButRetry
<1>6. \A t \in ResumeMatch(s, Up) : Sound(t, Up)
  BY <1>5, ResumeMatchIsSound
<1> QED BY <1>3, <1>6, FlushAllIsRest
-----------------------------------------------------------------------------
\* The inductive invariant.
RuntimeInv ==
  /\ Rest(rt, Up)
  /\ conn \in [Humans -> 0 .. MaxSockets]
  /\ late \subseteq Humans

\* The invariant holds of a lobby.
LEMMA InitInv ==
  ASSUME Init
  PROVE  RuntimeInv
<1>1. PICK order \in Orders : rt = NewRuntime("lobby", 0, order, {}, {}, FALSE)
  BY DEF Init
<1>2. 0 \in 0 .. MaxMatches /\ {} \in SUBSET (1 .. MaxMatches)
      /\ "lobby" \in {"lobby", "in_match", "post_match", "closed"}
  BY ConfigAssumption
<1>3. Fresh(rt, 0, {}) /\ ~rt.live
  BY <1>1, <1>2, NewRuntimeFacts
<1>4. Rest(rt, Up)
  BY <1>3 DEF Fresh, Rest
<1>5. conn \in [Humans -> 0 .. MaxSockets] /\ late \subseteq Humans
  BY ConfigAssumption DEF Init
<1> QED BY <1>4, <1>5 DEF RuntimeInv

\* A socket that opens connects its player.
LEMMA OpenedUp ==
  ASSUME NEW h \in Humans, conn \in [Humans -> 0 .. MaxSockets], conn[h] < MaxSockets,
         conn' = [conn EXCEPT ![h] = @ + 1]
  PROVE  /\ conn' \in [Humans -> 0 .. MaxSockets]
         /\ Up' = Up \union {h} /\ (conn[h] # 0 => h \in Up)
<1>1. MaxSockets \in Nat
  BY ConfigAssumption
<1>2. conn[h] + 1 \in 0 .. MaxSockets
  BY <1>1
<1>3. conn' \in [Humans -> 0 .. MaxSockets]
  BY <1>2
<1>4. \A g \in Humans : conn'[g] = IF g = h THEN conn[h] + 1 ELSE conn[g]
  OBVIOUS
<1>5. Up' = {g \in Humans : conn'[g] > 0}
  BY DEF Up
<1>6. Up' = Up \union {h}
  BY <1>1, <1>4, <1>5 DEF Up
<1> QED BY <1>3, <1>6 DEF Up

\* The last socket that closes disconnects its player, another does not.
LEMMA ClosedUp ==
  ASSUME NEW h \in Humans, conn \in [Humans -> 0 .. MaxSockets], conn[h] > 0,
         conn' = [conn EXCEPT ![h] = @ - 1]
  PROVE  /\ conn' \in [Humans -> 0 .. MaxSockets] /\ h \in Up
         /\ Up' = IF conn[h] = 1 THEN Up \ {h} ELSE Up
<1>1. MaxSockets \in Nat
  BY ConfigAssumption
<1>2. conn[h] - 1 \in 0 .. MaxSockets
  BY <1>1
<1>3. conn' \in [Humans -> 0 .. MaxSockets]
  BY <1>2
<1>4. \A g \in Humans : conn'[g] = IF g = h THEN conn[h] - 1 ELSE conn[g]
  OBVIOUS
<1>5. Up' = {g \in Humans : conn'[g] > 0}
  BY DEF Up
<1>6. Up' = IF conn[h] = 1 THEN Up \ {h} ELSE Up
  BY <1>1, <1>4, <1>5 DEF Up
<1> QED BY <1>3, <1>6 DEF Up

\* A socket that opens preserves the invariant.
LEMMA ConnectionOpenedInv ==
  ASSUME RuntimeInv, NEW h \in Humans, ConnectionOpened(h)
  PROVE  RuntimeInv'
<1>1. /\ conn' \in [Humans -> 0 .. MaxSockets]
      /\ Up' = Up \union {h} /\ (conn[h] # 0 => h \in Up)
  BY OpenedUp DEF RuntimeInv, ConnectionOpened
<1>2. late' \subseteq Humans
  BY DEF RuntimeInv, ConnectionOpened
<1>3. Rest(rt, Up)
  BY DEF RuntimeInv
<1>4. Rest(rt', Up')
  <2>1. CASE conn[h] = 0 /\ rt.live
    <3>1. rt' \in PlayerReconnected(rt, Up \union {h})
      BY <2>1 DEF ConnectionOpened
    <3>2. Sound(rt, Up) /\ ~rt.finishMatch
      BY <1>3, <2>1 DEF Rest
    <3> QED BY <1>1, <3>1, <3>2, PlayerReconnectedSettles, SettlesIsRest
  <2>2. CASE ~(conn[h] = 0 /\ rt.live)
    <3>1. rt' = rt
      BY <2>2 DEF ConnectionOpened
    <3>2. CASE ~rt.live
      BY <1>3, <3>1, <3>2 DEF Rest
    <3>3. CASE rt.live
      <4>1. Up' = Up
        BY <1>1, <2>2, <3>3
      <4> QED BY <1>3, <3>1, <4>1
    <3> QED BY <3>2, <3>3
  <2> QED BY <2>1, <2>2
<1> QED BY <1>1, <1>2, <1>4 DEF RuntimeInv

\* So does one that closes.
LEMMA ConnectionClosedInv ==
  ASSUME RuntimeInv, NEW h \in Humans, ConnectionClosed(h)
  PROVE  RuntimeInv'
<1>1. /\ conn' \in [Humans -> 0 .. MaxSockets] /\ h \in Up
      /\ Up' = IF conn[h] = 1 THEN Up \ {h} ELSE Up
  BY ClosedUp DEF RuntimeInv, ConnectionClosed
<1>2. late' \subseteq Humans
  BY DEF RuntimeInv, ConnectionClosed
<1>3. Rest(rt, Up)
  BY DEF RuntimeInv
<1>4. Rest(rt', Up')
  <2>1. CASE conn[h] = 1 /\ rt.live
    <3>1. rt' \in PlayerDisconnected(rt, h, Up \ {h}) /\ Up' = Up \ {h}
      BY <1>1, <2>1 DEF ConnectionClosed
    <3>2. Sound(rt, Up) /\ ~rt.finishMatch
      BY <1>3, <2>1 DEF Rest
    <3> QED BY <1>1, <3>1, <3>2, PlayerDisconnectedSettles, SettlesIsRest
  <2>2. CASE ~(conn[h] = 1 /\ rt.live)
    <3>1. rt' = rt
      BY <2>2 DEF ConnectionClosed
    <3>2. CASE ~rt.live
      BY <1>3, <3>1, <3>2 DEF Rest
    <3>3. CASE rt.live
      <4>1. Up' = Up
        BY <1>1, <2>2, <3>3
      <4> QED BY <1>3, <3>1, <4>1
    <3> QED BY <3>2, <3>3
  <2> QED BY <2>1, <2>2
<1> QED BY <1>1, <1>2, <1>4 DEF RuntimeInv

\* Every other action leaves the sockets alone and the runtime at rest.
LEMMA HandlerInv ==
  ASSUME RuntimeInv, UNCHANGED conn, late' \subseteq late, Rest(rt', Up)
  PROVE  RuntimeInv'
<1>1. Up' = Up
  BY DEF Up
<1> QED BY <1>1 DEF RuntimeInv

\* What a callback left behind can come to. Its generation is never current.
LateOutcome(c, s, t, up) ==
  \/ t \in FireTurnTimeout(s, FALSE, up)
  \/ t \in FireCPUAction(s, FALSE, up)
  \/ c = "pause" /\ t \in FirePauseExpiry(s, s.matchNo, up)
  \/ t \in FireAllDisconnectedExpiry(s, FALSE, up)
  \/ c = "retry" /\ \E attempt \in 0 .. StorageRetries - 1 : t \in FireStorageRetry(s, attempt, up)

\* Every generation is incremented before the next timer of its kind can be
\* armed, so such a callback is never taken for the one that is due.
LEMMA StaleTimerOutcome ==
  ASSUME RuntimeOK(rt), NEW c \in Callbacks, StaleTimerFires(c), NEW s, s = [rt EXCEPT !.stale = @ \ {c}]
  PROVE  LateOutcome(c, s, rt', Up) /\ c \in rt.stale /\ UNCHANGED <<conn, late>>
<1>1. rt.fresh = {}
  BY DEF RuntimeOK, Typed
<1>2. c \in rt.stale /\ UNCHANGED <<conn, late>>
  BY <1>1 DEF StaleTimerFires
<1>3. rt' \in CASE c = "turn" -> FireTurnTimeout(s, FALSE, Up)
               [] c = "cpu" -> FireCPUAction(s, FALSE, Up)
               [] c = "pause" -> FirePauseExpiry(s, s.matchNo, Up)
               [] c = "presence" -> FireAllDisconnectedExpiry(s, FALSE, Up)
               [] c = "retry" ->
                    UNION {FireStorageRetry(s, attempt, Up) : attempt \in 0 .. StorageRetries - 1}
  BY <1>1 DEF StaleTimerFires
<1> QED BY <1>2, <1>3 DEF LateOutcome, Callbacks

\* Every action preserves the invariant.
LEMMA NextInv ==
  ASSUME RuntimeInv, [Next]_vars
  PROVE  RuntimeInv'
<1>0. /\ Rest(rt, Up) /\ RuntimeOK(rt) /\ (rt.live => Sound(rt, Up)) /\ ~rt.finishMatch
      /\ rt.live \in BOOLEAN
  BY DEF RuntimeInv, Rest, RuntimeOK, Typed
<1>1. CASE StartMatch
  BY <1>0, <1>1, StartMatchSettles, SettlesIsRest, HandlerInv DEF StartMatch, Sends
<1>2. ASSUME NEW h \in Humans, ThrowYut(h) PROVE RuntimeInv'
  BY <1>0, <1>2, ThrowYutSettles, SettlesIsRest, HandlerInv DEF ThrowYut, Sends
<1>3. ASSUME NEW h \in Humans, SelectMove(h) PROVE RuntimeInv'
  BY <1>0, <1>3, SelectMoveSettles, SettlesIsRest, HandlerInv DEF SelectMove, Sends
<1>4. ASSUME NEW h \in Humans, SelectRoute(h) PROVE RuntimeInv'
  BY <1>0, <1>4, SelectRouteSettles, SettlesIsRest, HandlerInv DEF SelectRoute, Sends
<1>5. CASE PauseGame
  BY <1>0, <1>5, PauseGameSettles, SettlesIsRest, HandlerInv DEF PauseGame, Sends
<1>6. CASE ResumeGame
  BY <1>0, <1>6, ResumeGameIsRest, HandlerInv DEF ResumeGame, Sends
<1>7. ASSUME NEW h \in Humans, ConnectionOpened(h) PROVE RuntimeInv'
  BY <1>7, ConnectionOpenedInv
<1>8. ASSUME NEW h \in Humans, ConnectionClosed(h) PROVE RuntimeInv'
  BY <1>8, ConnectionClosedInv
<1>9. CASE SpectatorJoins
  BY <1>0, <1>9, FlushIsRest, HandlerInv DEF SpectatorJoins
<1>10. CASE TurnTimerFires
  <2>1. Handled(rt, rt', Up)
    BY <1>0, <1>10, FireTurnTimeoutIsHandled DEF TurnTimerFires
  <2>2. Rest(rt', Up)
    BY <1>0, <2>1, HandledIsRest
  <2> QED BY <1>10, <2>2, HandlerInv DEF TurnTimerFires
<1>11. CASE CPUTimerFires
  <2>1. Handled(rt, rt', Up)
    BY <1>0, <1>11, FireCPUActionIsHandled DEF CPUTimerFires
  <2>2. Rest(rt', Up)
    BY <1>0, <2>1, HandledIsRest
  <2> QED BY <1>11, <2>2, HandlerInv DEF CPUTimerFires
<1>12. ASSUME NEW deadline \in 1 .. MaxMatches, PauseTimerFires(deadline) PROVE RuntimeInv'
  <2>1. PICK m : m = [rt EXCEPT !.pauseDue = @ \ {deadline},
                                !.pauseOver = @ \/ deadline = rt.matchNo]
    OBVIOUS
  <2>2. rt' \in FirePauseExpiry(m, deadline, Up) /\ UNCHANGED <<conn, late>>
    BY <1>12, <2>1 DEF PauseTimerFires
  <2>3. Rest(m, Up)
    BY <1>0, <2>1, PauseRunFacts, SameButPauseIsRest DEF PauseRun
  <2>4. Rest(rt', Up)
    BY <2>2, <2>3, FirePauseExpiryIsRest
  <2> QED BY <2>2, <2>4, HandlerInv
<1>13. CASE RetryTimerFires
  <2>1. PICK attempt \in rt.retryDue : rt' \in FireStorageRetry([rt EXCEPT !.retryDue = {}], attempt, Up)
    BY <1>13 DEF RetryTimerFires
  <2>2. PICK r : r = [rt EXCEPT !.retryDue = {}]
    OBVIOUS
  <2>3. Retried(rt, r) /\ r.retryAttempt = rt.retryAttempt /\ attempt \in 0 .. StorageRetries - 1
    BY <1>0, <2>2, RetryTakenFacts DEF RuntimeOK, Typed
  <2>4. r.live /\ r.retryAttempt # attempt => Watched(r)
    BY <1>0, <2>1, <2>3 DEF Sound, Base, Watched, Retried, SameButRetry
  <2>5. Rest(rt', Up)
    BY <1>0, <2>1, <2>2, <2>3, <2>4, FireStorageRetryIsRest
  <2> QED BY <1>13, <2>5, HandlerInv DEF RetryTimerFires
<1>14. CASE PresenceTimerFires
  BY <1>0, <1>14, PresenceExpiryIsRest, HandlerInv DEF PresenceTimerFires
<1>15. ASSUME NEW callback \in Callbacks, StaleTimerFires(callback) PROVE RuntimeInv'
  <2>1. PICK m : m = [rt EXCEPT !.stale = @ \ {callback}]
    OBVIOUS
  <2>2. LateOutcome(callback, m, rt', Up) /\ UNCHANGED <<conn, late>>
    BY <1>0, <1>15, <2>1, StaleTimerOutcome
  <2>3. Rest(rt', Up)
    BY <1>0, <1>15, <2>1, <2>2, StaleTimerIsRest DEF LateOutcome
  <2> QED BY <2>2, <2>3, HandlerInv
<1>16. CASE UNCHANGED vars
  <2>1. rt' = rt /\ conn' = conn /\ late' = late
    BY <1>16 DEF vars
  <2> QED BY <1>0, <2>1, HandlerInv
<1> QED BY <1>1, <1>2, <1>3, <1>4, <1>5, <1>6, <1>7, <1>8, <1>9, <1>10, <1>11, <1>12, <1>13,
           <1>14, <1>15, <1>16 DEF Next

\* Between any two actions, whatever timers, sockets, commands and outages did in
\* whatever order, the runtime is at rest: every handler of match_runtime.go,
\* match_flow.go and match_presence.go re-establishes Rest, the ones that return
\* an error half way included, and no callback that was left behind has the
\* generation that is current.
THEOREM RuntimeInvariance == Spec => []RuntimeInv
<1>1. Init => RuntimeInv
  BY InitInv
<1>2. RuntimeInv /\ [Next]_vars => RuntimeInv'
  BY NextInv
<1> QED BY <1>1, <1>2, PTL DEF Spec

\* The runtime record and the connection counts keep their types.
THEOREM TypeCorrect == Spec => []TypeOK
<1>1. RuntimeInv => TypeOK
  BY RuntimeIntro DEF RuntimeInv, Rest, RuntimeOK, TypeOK
<1> QED BY <1>1, RuntimeInvariance, PTL

\* A turn that nothing suspends has a window of its player or a due CPU action, for
\* any order of players, any number of sockets and matches and any outage. A CPU
\* turn lost it only to a cancelled action or a failed step of runCpuTurnLocked
\* since its last action was armed, a player's turn only to a window that expired
\* in a suspension, was dropped by a return or was never handed back.
THEOREM EveryTurnIsDriven == Spec => []TurnIsDriven
<1>1. ASSUME RuntimeInv PROVE TurnIsDriven
  <2>1. SUFFICES ASSUME rt.live, ~Suspended(rt), rt.lapse \intersect Excuses(rt) = {}, ~rt.lateActed
                 PROVE  Driven(rt)
    BY DEF TurnIsDriven
  <2>2. Good(rt, Up) /\ ~rt.finishMatch
    BY <1>1, <2>1 DEF RuntimeInv, Rest, Sound
  <2>3. rt.phase # "match_end"
    BY <2>1, <2>2 DEF Good, Suspended, Excuses
  <2>4. Owed(rt)
    BY <2>1, <2>3 DEF Excuses, Owed, ActionGone, WindowGone
  <2> QED BY <2>1, <2>2, <2>3, <2>4 DEF Good
<1> QED BY <1>1, RuntimeInvariance, PTL

\* A suspended turn of a player finds its window again, of the kind its phase needs:
\* no pause, outage or absence that begins during another overwrites it unrecorded.
THEOREM WindowsArePreserved == Spec => []WindowIsPreserved
<1>1. ASSUME RuntimeInv PROVE WindowIsPreserved
  <2>1. SUFFICES ASSUME rt.live, Suspended(rt), ~rt.cpuControlled, ~rt.lateActed, rt.lapse = {},
                        rt.phase # "match_end"
                 PROVE  WindowKind(rt) \in {rt.preservedKind, rt.presenceKind}
    BY DEF WindowIsPreserved
  <2>2. Good(rt, Up)
    BY <1>1, <2>1 DEF RuntimeInv, Rest, Sound
  <2>3. ~WindowGone(rt)
    BY <2>1 DEF WindowGone
  <2>4. /\ Window(rt) # "none" /\ Held(rt, rt.preservedKind)
        /\ rt.allDisconnected => Held(rt, rt.presenceKind)
    BY <2>1, <2>2, <2>3 DEF Good, Kept
  <2> QED BY <2>4 DEF Window, Held
<1> QED BY <1>1, RuntimeInvariance, PTL

\* applyPresenceTransitionLocked and the suspensions agree with the sockets: the
\* match counts as abandoned exactly when no human is connected.
THEOREM PresenceIsKnown == Spec => []PresenceMatchesSockets
<1>1. ASSUME RuntimeInv PROVE PresenceMatchesSockets
  <2>1. SUFFICES ASSUME rt.live, ~rt.lateActed PROVE rt.allDisconnected <=> Up = {}
    BY DEF PresenceMatchesSockets
  <2>2. Good(rt, Up)
    BY <1>1, <2>1 DEF RuntimeInv, Rest, Sound
  <2> QED BY <2>2 DEF Good
<1> QED BY <1>1, RuntimeInvariance, PTL

\* While a match is paused, in an outage or abandoned, neither a window nor a CPU
\* action is due: no handler that runs meanwhile arms one.
THEOREM SuspensionFreezes == Spec => []SuspendedTurnIsFrozen
<1>1. ASSUME RuntimeInv PROVE SuspendedTurnIsFrozen
  <2>1. SUFFICES ASSUME rt.live, Suspended(rt), rt.lateActed => rt.paused \/ rt.storagePaused
                 PROVE  ~rt.turnTimer /\ rt.cpuTimer # "pending"
    BY DEF SuspendedTurnIsFrozen
  <2>2. Base(rt, Up) /\ (~rt.lateActed => Good(rt, Up))
    BY <1>1, <2>1 DEF RuntimeInv, Rest, Sound
  <2>3. Frozen(rt)
    BY <2>1, <2>2 DEF Base, Good
  <2> QED BY <2>3 DEF Frozen
<1> QED BY <1>1, RuntimeInvariance, PTL

\* An outage always has its next retry due with the attempt fireStorageRetry
\* expects, or the watchdog that closes the abandoned room.
THEOREM OutagesAreWatched == Spec => []OutageIsWatched
<1>1. ASSUME RuntimeInv PROVE OutageIsWatched
  <2>1. SUFFICES ASSUME rt.live, rt.storagePaused
                 PROVE  \/ rt.retryDue = {rt.retryAttempt}
                        \/ rt.retryDue = {} /\ rt.allDisconnected /\ rt.presenceTimer
    BY DEF OutageIsWatched
  <2>2. Base(rt, Up)
    BY <1>1, <2>1 DEF RuntimeInv, Rest, Sound
  <2> QED BY <2>1, <2>2 DEF Base, Watched
<1> QED BY <1>1, RuntimeInvariance, PTL
-----------------------------------------------------------------------------
(* The host's pause *)

\* What makes the pause's expiry its own: only the current match has one due, at
\* most while it is paused and with its handle kept; a callback that outlived its
\* timer belongs to a pause that is over and used up; a room that can start
\* another match has none due.
PauseSafe(m) ==
  /\ \A d \in m.pauseDue : d = m.matchNo
  /\ ~m.live /\ m.matchNo < MaxMatches => m.pauseDue = {}
  /\ m.live =>
       /\ m.matchNo \in m.pauseDue => m.paused /\ m.pauseTimer
       /\ m.paused => m.pauseUsed /\ "pause" \notin m.stale
       /\ m.paused => m.matchNo \in m.pauseDue \/ m.storagePaused
       /\ "pause" \in m.stale => m.pauseUsed
       /\ ~StoreFails => ~m.storagePaused

\* The two rooms in which no expiry of an ended match is left over.
NoLeftover == MaxMatches = 1 \/ ~StoreFails

\* That depends on the pause's bookkeeping only.
LEMMA PauseFrame ==
  ASSUME NEW m, NEW t, PauseSafe(m), SamePauseState(m, t)
  PROVE  PauseSafe(t)
BY DEF PauseSafe, SamePauseState, SamePause

\* Without a pause nothing is due.
LEMMA UnpausedIsSafe ==
  ASSUME NEW m, m.live, ~m.paused, m.pauseDue = {}, m.pauseUsed, ~StoreFails => ~m.storagePaused
  PROVE  PauseSafe(m)
BY DEF PauseSafe

\* Without a pause no expiry is due.
LEMMA NothingDue ==
  ASSUME NEW m, PauseSafe(m), m.live, ~m.paused
  PROVE  m.pauseDue = {}
BY DEF PauseSafe

\* The end of a match leaves nothing due, unless no other match can follow.
LEMMA GoneIsSafe ==
  ASSUME NEW m, NEW t, Gone(m, t), PauseSafe(m), m.pauseDue = {} \/ ~(m.matchNo < MaxMatches)
  PROVE  PauseSafe(t)
BY DEF Gone, PauseSafe

\* Numbers taken during an outage do not concern the pause.
LEMMA TakenFacts ==
  ASSUME NEW m, RuntimeOK(m), NEW t, t = [m EXCEPT !.taken = @ \/ m.storagePaused]
  PROVE  SameSuspension(m, t)
BY SMT DEF RuntimeOK, Shape, Fields, SameSuspension

\* Saving keeps the pause safe: an outage leaves its expiry alone and a match
\* that ends has none.
LEMMA FlushIsSafe ==
  ASSUME NEW m, NEW up, Sound(m, up), PauseSafe(m), NEW t \in Flush(m)
  PROVE  PauseSafe(t)
<1>1. RuntimeOK(m) /\ m.live /\ (m.finishMatch => ~m.paused)
  BY DEF Sound, Base
<1>2. \/ m.finishMatch /\ t = DetachFinishedMatch(m)
      \/ ~m.finishMatch /\ t = [m EXCEPT !.taken = @ \/ m.storagePaused]
      \/ StoreFails /\ t \in EnterStoragePause(m)
  BY DEF Flush
<1>3. CASE m.finishMatch /\ t = DetachFinishedMatch(m)
  BY <1>1, <1>3, DetachFinishedMatchFacts, NothingDue, GoneIsSafe
<1>4. CASE ~m.finishMatch /\ t = [m EXCEPT !.taken = @ \/ m.storagePaused]
  <2>1. SameSuspension(m, t)
    BY <1>1, <1>4, TakenFacts
  <2> QED BY <2>1, SuspensionFrame, PauseFrame
<1>5. CASE StoreFails /\ t \in EnterStoragePause(m)
  <2>1. StoragePaused(m, t)
    BY <1>1, <1>5, EnterStoragePauseFacts
  <2> QED BY <1>1, <1>5, <2>1 DEF StoragePaused, PauseSafe
<1> QED BY <1>2, <1>3, <1>4, <1>5

\* The same for each outcome of a handler.
LEMMA FlushAllIsSafe ==
  ASSUME NEW ms, NEW up, \A m \in ms : Sound(m, up) /\ PauseSafe(m), NEW t \in FlushAll(ms)
  PROVE  PauseSafe(t)
<1>1. PICK m \in ms : t \in Flush(m)
  BY DEF FlushAll
<1> QED BY <1>1, FlushIsSafe

\* stopPauseTimerLocked leaves nothing due.
LEMMA StopPauseTimerIsSafe ==
  ASSUME NEW m, RuntimeOK(m), PauseSafe(m), m.live, NEW t, t = StopPauseTimer(m)
  PROVE  /\ RuntimeOK(t) /\ t.live /\ t.pauseDue = {} /\ t.paused = m.paused
         /\ t.matchNo = m.matchNo /\ t.storagePaused = m.storagePaused
         /\ t.pauseUsed = m.pauseUsed
         /\ ~m.paused => PauseSafe(t)
<1>1. /\ RuntimeOK(t) /\ SameWatch(m, t)
      /\ t.matchNo = m.matchNo /\ t.pauseUsed = m.pauseUsed /\ ~t.pauseTimer
      /\ t.pauseDue = IF m.pauseTimer THEN m.pauseDue \ {m.matchNo} ELSE m.pauseDue
      /\ "pause" \in t.stale =>
           "pause" \in m.stale \/ (m.pauseTimer /\ m.matchNo \in m.pauseDue)
  BY StopPauseTimerFacts
<1>2. t.live /\ t.paused = m.paused /\ t.storagePaused = m.storagePaused
  BY <1>1 DEF SameWatch, SameButRetry
<1>3. t.pauseDue = {}
  BY <1>1 DEF PauseSafe
<1>4. ~m.paused => PauseSafe(t)
  BY <1>1, <1>2, <1>3 DEF PauseSafe
<1> QED BY <1>1, <1>2, <1>3, <1>4

\* Ready to resume: the pause is the only thing left to end.
Resumable(m) ==
  /\ RuntimeOK(m) /\ m.live /\ ~m.finishMatch /\ m.pauseDue = {} /\ m.pauseUsed
  /\ ~m.turnTimer /\ (~StoreFails => ~m.storagePaused)

\* Resuming during an outage only clears the flag.
LEMMA UnpausedDuringOutage ==
  ASSUME NEW m, RuntimeOK(m), NEW t, t = [m EXCEPT !.paused = FALSE]
  PROVE  /\ ~t.paused /\ t.live = m.live /\ t.pauseDue = m.pauseDue /\ t.pauseUsed = m.pauseUsed
         /\ t.storagePaused = m.storagePaused
BY SMT DEF RuntimeOK, Shape, Fields

\* Resuming after the timer was stopped.
LEMMA ResumeMatchIsSafe ==
  ASSUME NEW m, Resumable(m), NEW now, NEW t \in ResumeMatch(m, now)
  PROVE  PauseSafe(t)
<1>1. CASE m.storagePaused
  <2>1. t = [m EXCEPT !.paused = FALSE]
    BY <1>1 DEF ResumeMatch
  <2>2. /\ ~t.paused /\ t.live = m.live /\ t.pauseDue = m.pauseDue /\ t.pauseUsed = m.pauseUsed
        /\ t.storagePaused = m.storagePaused
    BY <2>1, UnpausedDuringOutage DEF Resumable
  <2> QED BY <2>2, UnpausedIsSafe DEF Resumable
<1>2. CASE ~m.storagePaused
  <2>1. PICK c : t \in RunCpuTurn(c, now) /\ Unpaused(m, c)
    BY <1>2, UnpauseFacts DEF Resumable
  <2>2. RuntimeOK(c) /\ Ending(c)
    BY <2>1 DEF Unpaused, Resumable, Ending
  <2>3. Moved(c, t)
    BY <2>1, <2>2, RunCpuTurnFacts
  <2>4. t.live /\ ~t.paused /\ t.pauseDue = {} /\ t.pauseUsed /\ ~t.storagePaused
    BY <1>2, <2>1, <2>3 DEF Moved, SameSuspension, Unpaused, Resumable
  <2> QED BY <2>4, UnpausedIsSafe
<1> QED BY <1>1, <1>2 DEF Resumable, RuntimeOK, Typed

\* Stopping the timer of a paused match makes it ready to resume.
LEMMA PausedIsResumable ==
  ASSUME NEW m, NEW up, Sound(m, up), PauseSafe(m), m.paused, NEW t, t = StopPauseTimer(m)
  PROVE  Resumable(t) /\ t.paused
<1>1. RuntimeOK(m) /\ m.live /\ ~m.finishMatch /\ ~m.turnTimer
  BY DEF Sound, Base, Frozen
<1>2. /\ RuntimeOK(t) /\ t.live /\ t.pauseDue = {} /\ t.paused = m.paused
      /\ t.storagePaused = m.storagePaused /\ t.pauseUsed = m.pauseUsed
  BY <1>1, StopPauseTimerIsSafe
<1>3. SameTurn(m, t) /\ SameTimers(m, t)
  BY <1>1, StopPauseTimerFacts
<1> QED BY <1>1, <1>2, <1>3 DEF PauseSafe, Resumable, SameTurn, SameTimers

\* Resuming and saving, from a stopped pause timer.
LEMMA ResumedIsSafe ==
  ASSUME NEW s, NEW up, Sound(s, up), s.paused, Resumable(s), NEW t \in FlushAll(ResumeMatch(s, up))
  PROVE  PauseSafe(t)
<1>1. \A r \in ResumeMatch(s, up) : Sound(r, up) /\ PauseSafe(r)
  BY ResumeMatchIsSound, ResumeMatchIsSafe
<1> QED BY <1>1, FlushAllIsSafe

\* firePauseExpiry of a due deadline ends the pause, or leaves it to the recovery.
LEMMA PauseExpiryIsSafe ==
  ASSUME NEW r, NEW up, Rest(r, up), PauseSafe(r), NEW d \in r.pauseDue,
         NEW m, PauseRun(r, m, d), NEW t \in FirePauseExpiry(m, d, up)
  PROVE  PauseSafe(t)
<1>1. RuntimeOK(r)
  BY DEF Rest
<1>2. /\ SameButPause(r, m) /\ m.pauseUsed = r.pauseUsed /\ m.pauseTimer = r.pauseTimer
      /\ m.pauseDue = r.pauseDue \ {d} /\ m.stale = r.stale
  BY DEF PauseRun
<1>3. /\ m.live = r.live /\ m.matchNo = r.matchNo /\ m.paused = r.paused
      /\ m.storagePaused = r.storagePaused /\ RuntimeOK(m) /\ d = m.matchNo /\ m.pauseDue = {}
  BY <1>2 DEF SameButPause, SameWatch, SameButRetry, PauseSafe
<1>4. CASE ~m.live
  <2>1. t = m
    BY <1>4 DEF FirePauseExpiry
  <2> QED BY <1>3, <1>4, <2>1 DEF PauseSafe
<1>5. CASE m.live
  <2>1. PICK s : s = StopPauseTimer(m)
    OBVIOUS
  <2>2. Rest(m, up)
    BY <1>2, SameButPauseIsRest
  <2>3. Sound(s, up)
    BY <1>5, <2>1, <2>2, StopPauseTimerIsSound DEF Rest
  <2>4. /\ RuntimeOK(s) /\ SameWatch(m, s) /\ SameTurn(m, s)
        /\ s.pauseUsed = m.pauseUsed
        /\ s.pauseDue = IF m.pauseTimer THEN m.pauseDue \ {m.matchNo} ELSE m.pauseDue
        /\ "pause" \in s.stale =>
             "pause" \in m.stale \/ (m.pauseTimer /\ m.matchNo \in m.pauseDue)
    BY <1>3, <2>1, StopPauseTimerFacts
  <2>5. /\ s.live /\ s.matchNo = m.matchNo /\ s.paused = m.paused
        /\ s.storagePaused = m.storagePaused /\ s.pauseDue = {} /\ ~s.finishMatch
        /\ "pause" \in s.stale => "pause" \in r.stale
    BY <1>2, <1>3, <1>5, <2>2, <2>4 DEF SameWatch, SameButRetry, SameTurn, Rest
  <2>6. CASE m.storagePaused \/ ~m.paused
    <3>1. t = s
      BY <1>5, <2>1, <2>6 DEF FirePauseExpiry
    <3>2. PauseSafe(s)
      BY <1>2, <1>3, <1>5, <2>4, <2>5, <2>6 DEF PauseSafe
    <3> QED BY <3>1, <3>2
  <2>7. CASE ~m.storagePaused /\ m.paused
    <3>1. t \in FlushAll(ResumeMatch(s, up))
      BY <1>3, <1>5, <2>1, <2>7 DEF FirePauseExpiry
    <3>2. Resumable(s) /\ s.paused
      BY <1>2, <1>3, <1>5, <2>3, <2>4, <2>5, <2>7 DEF PauseSafe, Resumable, Sound, Base, Frozen
    <3> QED BY <2>3, <3>1, <3>2, ResumedIsSafe
  <2> QED BY <1>3, <2>6, <2>7 DEF RuntimeOK, Typed
<1> QED BY <1>4, <1>5

\* settleUserPauseAfterRecoveryLocked ends the pause or arms its timer again.
LEMMA SettleUserPauseIsSafe ==
  ASSUME NEW m, NEW up, Sound(m, up), m.paused, ~m.storagePaused, m.pauseUsed,
         "pause" \notin m.stale, \A d \in m.pauseDue : d = m.matchNo,
         NEW t \in SettleUserPause(m, up)
  PROVE  PauseSafe(t)
<1>1. RuntimeOK(m) /\ ~m.finishMatch /\ m.matchNo # 0 /\ m.live
  BY DEF Sound, Base
<1>2. PICK S : S = Outliving(m, {"pause"})
  OBVIOUS
<1>3. PICK s : s = [m EXCEPT !.pauseOver = TRUE, !.pauseDue = @ \ {m.matchNo}, !.stale = @ \union S]
  OBVIOUS
<1>4. PICK w : w = [m EXCEPT !.pauseTimer = TRUE, !.pauseDue = @ \union {m.matchNo}]
  OBVIOUS
<1>5. t \in FlushAll(ResumeMatch(s, up)) \/ t = w
  BY <1>2, <1>3, <1>4 DEF SettleUserPause
<1>6. CASE t \in FlushAll(ResumeMatch(s, up))
  <2>1. /\ SameButPause(m, s) /\ s.pauseUsed = m.pauseUsed /\ s.pauseDue = m.pauseDue \ {m.matchNo}
    BY <1>1, <1>2, <1>3, OutlivingIsSubset, SettledFacts
  <2>2. Sound(s, up) /\ s.paused
    BY <2>1, SoundFrame DEF SameButPause, SameWatch, SameButRetry
  <2>3. Resumable(s)
    <3>1. ~s.turnTimer
      BY <2>2 DEF Sound, Base, Frozen
    <3> QED BY <1>1, <2>1, <3>1 DEF SameButPause, SameWatch, SameButRetry, SameTurn, Resumable
  <2> QED BY <1>6, <2>2, <2>3, ResumedIsSafe
<1>7. CASE t = w
  <2>1. /\ SameButPause(m, w) /\ w.pauseUsed = m.pauseUsed /\ w.pauseTimer
        /\ w.pauseDue = m.pauseDue \union {m.matchNo} /\ w.stale = m.stale
    BY <1>1, <1>4, RearmedFacts
  <2>2. PauseSafe(w)
    BY <1>1, <2>1 DEF SameButPause, SameWatch, SameButRetry, PauseSafe
  <2> QED BY <1>7, <2>2
<1> QED BY <1>5, <1>6, <1>7

\* The match goes on after an outage that no pause outlives.
LEMMA RecoveredIsSafe ==
  ASSUME NEW m, PauseSafe(m), m.live, ~m.paused, NEW t, SamePause(m, t), t.live, ~t.paused, ~t.storagePaused
  PROVE  PauseSafe(t)
BY DEF PauseSafe, SamePause

\* A handler that leaves the pause alone leaves it safe.
LEMMA SettlesIsSafe ==
  ASSUME NEW m, NEW up, PauseSafe(m), NEW t, Settles(m, t, up)
  PROVE  PauseSafe(t)
<1>1. PICK s : /\ Sound(s, up) /\ SamePauseState(m, s)
               /\ t \in Flush(s) \/ (t = s /\ ~s.finishMatch)
  BY DEF Settles
<1>2. PauseSafe(s)
  BY <1>1, PauseFrame
<1> QED BY <1>1, <1>2, FlushIsSafe

\* So does a callback that leaves the pause alone.
LEMMA HandledIsSafe ==
  ASSUME NEW m, NEW up, m.live \in BOOLEAN, PauseSafe(m), NEW t, Handled(m, t, up)
  PROVE  PauseSafe(t)
<1>1. CASE m.live
  BY <1>1, SettlesIsSafe DEF Handled
<1>2. CASE ~m.live
  BY <1>2, PauseFrame DEF Handled
<1> QED BY <1>1, <1>2

\* Closing an abandoned room stops the pause's timer.
LEMMA TerminateIsSafe ==
  ASSUME NEW m, RuntimeOK(m), PauseSafe(m), m.live, NEW t, t = TerminateDisconnectedMatch(m)
  PROVE  PauseSafe(t)
<1>1. PICK s : s = StopPauseTimer(m) /\ Gone(s, t)
  BY TerminateFacts
<1>2. s.pauseDue = {}
  BY <1>1, StopPauseTimerIsSafe
<1>3. ~t.live /\ t.pauseDue = {}
  BY <1>1, <1>2 DEF Gone
<1> QED BY <1>3 DEF PauseSafe

\* fireAllDisconnectedExpiry.
LEMMA PresenceExpiryIsSafe ==
  ASSUME NEW m, RuntimeOK(m), PauseSafe(m), NEW s, s = [m EXCEPT !.presenceTimer = FALSE],
         NEW up, NEW t \in FireAllDisconnectedExpiry(s, TRUE, up)
  PROVE  PauseSafe(t)
<1>1. Unwatched(m, s)
  BY UnwatchedFacts
<1>2. SamePauseState(m, s) /\ RuntimeOK(s)
  BY <1>1 DEF Unwatched, SameStorage, SamePauseState
<1>3. PauseSafe(s)
  BY <1>2, PauseFrame
<1>4. (s.live /\ t = TerminateDisconnectedMatch(s)) \/ t = s
  BY DEF FireAllDisconnectedExpiry
<1> QED BY <1>2, <1>3, <1>4, TerminateIsSafe

\* The tail of fireStorageRetry settles the pause that outlasted the outage.
LEMMA RecoverIsSafe ==
  ASSUME NEW m, NEW up, Sound(m, up), PauseSafe(m), m.storagePaused, ~m.finishAfterSave,
         NEW r, Retried(m, r), NEW t \in Recover(r, up)
  PROVE  PauseSafe(t)
<1>0. m.live
  BY DEF Sound, Base
<1>1. ASSUME m.paused, NEW q, Sound(q, up), Recovered(m, q), t \in SettleUserPause(q, up)
      PROVE  PauseSafe(t)
  <2>1. /\ q.paused /\ ~q.storagePaused /\ q.pauseUsed /\ "pause" \notin q.stale
        /\ \A d \in q.pauseDue : d = q.matchNo
    BY <1>0, <1>1 DEF Recovered, SamePause, PauseSafe
  <2> QED BY <1>1, <2>1, SettleUserPauseIsSafe
<1>2. ASSUME ~m.paused, NEW s, Sound(s, up), Resumed(m, s),
             t \in Flush(s) \/ (t = s /\ ~s.finishMatch)
      PROVE  PauseSafe(t)
  <2>1. PauseSafe(s)
    BY <1>0, <1>2, RecoveredIsSafe DEF Resumed
  <2> QED BY <1>2, <2>1, FlushIsSafe
<1> QED BY <1>1, <1>2, RecoverCases

\* A retry that ends the match leaves the pause's expiry due; then no other
\* match follows.
LEMMA StorageRetryIsSafe ==
  ASSUME NoLeftover, NEW m, NEW up, Rest(m, up), PauseSafe(m), NEW attempt \in 0 .. StorageRetries - 1,
         NEW r, Retried(m, r), NEW t \in FireStorageRetry(r, attempt, up)
  PROVE  PauseSafe(t)
<1>1. RuntimeOK(m)
  BY DEF Rest
<1>3. RuntimeOK(r) /\ SamePauseState(m, r) /\ r.finishAfterSave = m.finishAfterSave
  BY DEF Retried, SameButRetry, SamePauseState
<1>4. PauseSafe(r)
  BY <1>3, PauseFrame
<1>5. \/ t = r
      \/ Retried(r, t)
      \/ Gone(r, t) /\ r.live /\ r.storagePaused
      \/ /\ r.live /\ r.storagePaused /\ ~r.finishAfterSave
         /\ \E q : Retried(r, q) /\ t \in Recover(q, up)
  BY <1>1, <1>3, RetryOutcomes
<1>6. CASE Retried(r, t)
  <2>1. SamePauseState(r, t)
    BY <1>6 DEF Retried, SameButRetry, SamePauseState
  <2> QED BY <1>4, <2>1, PauseFrame
<1>7. ASSUME r.live PROVE Sound(m, up)
  BY <1>3, <1>7 DEF Rest, SamePauseState
<1>8. CASE Gone(r, t) /\ r.live /\ r.storagePaused
  <2>1. MaxMatches = 1
    BY <1>4, <1>8 DEF PauseSafe, NoLeftover
  <2>2. m.matchNo # 0 /\ m.matchNo = r.matchNo
    BY <1>3, <1>7, <1>8 DEF Sound, Base, SamePauseState, SamePause
  <2>3. ~(r.matchNo < MaxMatches)
    BY <1>1, <2>1, <2>2 DEF RuntimeOK, Typed
  <2> QED BY <1>4, <1>8, <2>3, GoneIsSafe
<1>9. ASSUME r.live, r.storagePaused, ~r.finishAfterSave, NEW q, Retried(r, q), t \in Recover(q, up)
      PROVE  PauseSafe(t)
  <2>1. m.storagePaused /\ ~m.finishAfterSave
    BY <1>3, <1>9 DEF SamePauseState
  <2>2. Retried(m, q)
    BY <1>9, RetriedTwice
  <2> QED BY <1>7, <1>9, <2>1, <2>2, RecoverIsSafe
<1> QED BY <1>4, <1>5, <1>6, <1>8, <1>9

\* A callback of the pause that Timer.Stop came too late for: the pause it
\* belongs to is over, and no other was started.
LEMMA StalePauseIsOver ==
  ASSUME NEW m, PauseSafe(m), "pause" \in m.stale, NEW s, SameButPause(m, s), NEW up,
         NEW t \in FirePauseExpiry(s, s.matchNo, up)
  PROVE  t = s \/ (s.live /\ ~s.paused /\ t = StopPauseTimer(s))
<1>2. s.live => ~s.paused
  BY DEF PauseSafe, SameButPause, SameWatch, SameButRetry
<1> QED BY <1>2 DEF FirePauseExpiry

\* A stale callback that starts to run.
LEMMA StaleRunIsSafe ==
  ASSUME NEW m, RuntimeOK(m), PauseSafe(m), NEW c, NEW s, s = [m EXCEPT !.stale = @ \ {c}]
  PROVE  PauseSafe(s) /\ RuntimeOK(s)
<1>1. /\ SameButPause(m, s) /\ s.pauseUsed = m.pauseUsed /\ s.pauseTimer = m.pauseTimer
      /\ s.pauseDue = m.pauseDue /\ s.stale = m.stale \ {c}
  BY StaleRunFacts
<1>2. /\ RuntimeOK(s) /\ s.live = m.live /\ s.matchNo = m.matchNo /\ s.paused = m.paused
      /\ s.storagePaused = m.storagePaused
  BY <1>1 DEF SameButPause, SameWatch, SameButRetry
<1> QED BY <1>1, <1>2 DEF PauseSafe

\* At most the handle of the pause timer goes, but for a retry in an outage.
LEMMA StaleTimerOutcomes ==
  ASSUME RuntimeOK(rt), PauseSafe(rt), NEW c \in Callbacks, StaleTimerFires(c),
         NEW m, m = [rt EXCEPT !.stale = @ \ {c}]
  PROVE  \/ rt' = m
         \/ m.live /\ ~m.paused /\ rt' = StopPauseTimer(m)
         \/ /\ c = "retry" /\ m.storagePaused
            /\ \E attempt \in 0 .. StorageRetries - 1 : rt' \in FireStorageRetry(m, attempt, Up)
<1>1. LateOutcome(c, m, rt', Up) /\ c \in rt.stale
  BY StaleTimerOutcome
<1>2. ASSUME c = "pause", rt' \in FirePauseExpiry(m, m.matchNo, Up)
      PROVE  rt' = m \/ (m.live /\ ~m.paused /\ rt' = StopPauseTimer(m))
  <2>1. SameButPause(rt, m)
    BY StaleRunFacts
  <2> QED BY <1>1, <1>2, <2>1, StalePauseIsOver
<1>3. ASSUME NEW attempt, rt' \in FireStorageRetry(m, attempt, Up), ~m.storagePaused PROVE rt' = m
  BY <1>3 DEF FireStorageRetry
<1>4. m.storagePaused \in BOOLEAN
  BY StaleRunFacts DEF SameButPause, RuntimeOK, Typed
<1> QED BY <1>1, <1>2, <1>3, <1>4
        DEF LateOutcome, FireTurnTimeout, FireCPUAction, FireAllDisconnectedExpiry

\* A stale callback leaves the pause safe.
LEMMA StaleTimerIsSafe ==
  ASSUME NoLeftover, Rest(rt, Up), PauseSafe(rt), NEW c \in Callbacks, StaleTimerFires(c)
  PROVE  PauseSafe(rt')
<1>0. RuntimeOK(rt)
  BY DEF Rest
<1>1. PICK m : m = [rt EXCEPT !.stale = @ \ {c}]
  OBVIOUS
<1>2. PauseSafe(m) /\ RuntimeOK(m)
  BY <1>0, <1>1, StaleRunIsSafe
<1>3. CASE rt' = m \/ (m.live /\ ~m.paused /\ rt' = StopPauseTimer(m))
  BY <1>2, <1>3, StopPauseTimerIsSafe
<1>4. ASSUME c = "retry", NEW attempt \in 0 .. StorageRetries - 1, rt' \in FireStorageRetry(m, attempt, Up)
      PROVE  PauseSafe(rt')
  <2>1. Retried(rt, m)
    BY <1>0, <1>1, <1>4, RetryStaleFacts
  <2> QED BY <1>4, <2>1, StorageRetryIsSafe
<1> QED BY <1>0, <1>1, <1>3, <1>4, StaleTimerOutcomes

\* A match starts without anything due.
LEMMA StartMatchIsSafe ==
  ASSUME Rest(rt, Up), PauseSafe(rt), StartMatch
  PROVE  PauseSafe(rt')
<1>1. PICK m : Fresh(m, rt.matchNo + 1, rt.pauseDue) /\ m.live /\ Settles(m, rt', Up)
  BY StartMatchSettles
<1>2. rt.pauseDue = {}
  BY DEF StartMatch, PauseSafe
<1>3. PauseSafe(m)
  BY <1>1, <1>2 DEF Fresh, PauseSafe
<1> QED BY <1>1, <1>3, SettlesIsSafe

\* PAUSE_GAME, once in a match, has its expiry due.
LEMMA PauseGameIsSafe ==
  ASSUME Rest(rt, Up), PauseSafe(rt), PauseGame
  PROVE  PauseSafe(rt')
<1>1. PICK c, p : Marked(rt, c) /\ Paused(c, p) /\ Settles(p, rt', Up)
  BY PauseGameSettles
<1>2. rt.live /\ ~rt.storagePaused /\ ~rt.paused /\ ~rt.pauseUsed
  BY DEF PauseGame, LiveMatch
<1>3. rt.pauseDue = {} /\ "pause" \notin rt.stale
  BY <1>2, NothingDue DEF PauseSafe
<1>4. /\ c.live /\ ~c.storagePaused /\ c.pauseDue = {} /\ "pause" \notin c.stale
  BY <1>1, <1>2, <1>3 DEF Marked, SamePause
<1>5. PauseSafe(p)
  BY <1>1, <1>4 DEF Paused, PauseSafe
<1> QED BY <1>1, <1>5, SettlesIsSafe

\* RESUME_GAME stops the expiry of the pause it ends.
LEMMA ResumeGameIsSafe ==
  ASSUME Rest(rt, Up), PauseSafe(rt), ResumeGame
  PROVE  PauseSafe(rt')
<1>1. PICK c : c = Commanded(Host)
  OBVIOUS
<1>2. PICK s : s = StopPauseTimer(c)
  OBVIOUS
<1>3. LiveMatch /\ rt.paused /\ rt' \in FlushAll(ResumeMatch(s, Up))
  BY <1>1, <1>2 DEF ResumeGame
<1>4. Sound(c, Up) /\ SamePauseState(rt, c)
  BY <1>1, <1>3, ConfigAssumption, CommandedFacts
<1>5. PauseSafe(c) /\ c.paused
  BY <1>3, <1>4, PauseFrame DEF SamePauseState
<1>6. Resumable(s) /\ s.paused
  BY <1>2, <1>4, <1>5, PausedIsResumable
<1>7. Sound(s, Up)
  BY <1>2, <1>4, StopPauseTimerIsSound
<1> QED BY <1>3, <1>6, <1>7, ResumedIsSafe

\* The host's disconnection ends the pause, another player's leaves it alone.
LEMMA PlayerDisconnectedIsSafe ==
  ASSUME NEW m, NEW old, Sound(m, old), PauseSafe(m), NEW player \in old, ~m.finishMatch,
         NEW up, up = old \ {player}, NEW t \in PlayerDisconnected(m, player, up)
  PROVE  PauseSafe(t)
<1>1. PICK e : /\ e = m \/ (m.paused /\ e \in ResumeMatch(StopPauseTimer(m), up))
               /\ Settles(e, t, up)
  BY PlayerDisconnectedSettles
<1>2. PauseSafe(e)
  BY <1>1, PausedIsResumable, ResumeMatchIsSafe
<1> QED BY <1>1, <1>2, SettlesIsSafe

\* The inductive invariant of the pause.
PauseInv == RuntimeInv /\ PauseSafe(rt)

\* It holds of a lobby.
LEMMA InitSafe ==
  ASSUME Init
  PROVE  PauseInv
<1>1. PICK order \in Orders : rt = NewRuntime("lobby", 0, order, {}, {}, FALSE)
  BY DEF Init
<1>2. ~rt.live /\ rt.pauseDue = {}
  BY <1>1 DEF NewRuntime
<1>3. PauseSafe(rt)
  BY <1>2 DEF PauseSafe
<1> QED BY <1>3, InitInv DEF PauseInv

\* Every action preserves it.
LEMMA NextSafe ==
  ASSUME NoLeftover, PauseInv, [Next]_vars
  PROVE  PauseInv'
<1>0. /\ Rest(rt, Up) /\ RuntimeOK(rt) /\ (rt.live => Sound(rt, Up)) /\ ~rt.finishMatch
      /\ rt.live \in BOOLEAN /\ PauseSafe(rt) /\ RuntimeInv
  BY DEF PauseInv, RuntimeInv, Rest, RuntimeOK, Typed
<1>a. RuntimeInv'
  BY <1>0, NextInv
<1>b. SUFFICES PauseSafe(rt')
  BY <1>a DEF PauseInv
<1>1. CASE StartMatch
  BY <1>0, <1>1, StartMatchIsSafe
<1>2. ASSUME NEW h \in Humans, ThrowYut(h) PROVE PauseSafe(rt')
  BY <1>0, <1>2, ThrowYutSettles, SettlesIsSafe
<1>3. ASSUME NEW h \in Humans, SelectMove(h) PROVE PauseSafe(rt')
  BY <1>0, <1>3, SelectMoveSettles, SettlesIsSafe
<1>4. ASSUME NEW h \in Humans, SelectRoute(h) PROVE PauseSafe(rt')
  BY <1>0, <1>4, SelectRouteSettles, SettlesIsSafe
<1>5. CASE PauseGame
  BY <1>0, <1>5, PauseGameIsSafe
<1>6. CASE ResumeGame
  BY <1>0, <1>6, ResumeGameIsSafe
<1>7. ASSUME NEW h \in Humans, ConnectionOpened(h) PROVE PauseSafe(rt')
  <2>1. CASE rt' = rt
    BY <1>0, <2>1
  <2>2. CASE rt.live /\ rt' \in PlayerReconnected(rt, Up \union {h})
    <3>1. Settles(rt, rt', Up \union {h})
      BY <1>0, <2>2, PlayerReconnectedSettles
    <3> QED BY <1>0, <3>1, SettlesIsSafe
  <2> QED BY <1>7, <2>1, <2>2 DEF ConnectionOpened
<1>8. ASSUME NEW h \in Humans, ConnectionClosed(h) PROVE PauseSafe(rt')
  <2>1. CASE rt' = rt
    BY <1>0, <2>1
  <2>2. CASE rt.live /\ rt' \in PlayerDisconnected(rt, h, Up \ {h})
    <3>1. h \in Up
      BY <1>8 DEF ConnectionClosed, Up
    <3> QED BY <1>0, <2>2, <3>1, PlayerDisconnectedIsSafe
  <2> QED BY <1>8, <2>1, <2>2 DEF ConnectionClosed
<1>9. CASE SpectatorJoins
  BY <1>0, <1>9, FlushIsSafe DEF SpectatorJoins
<1>10. CASE TurnTimerFires
  <2>1. Handled(rt, rt', Up)
    BY <1>0, <1>10, FireTurnTimeoutIsHandled DEF TurnTimerFires
  <2> QED BY <1>0, <2>1, HandledIsSafe
<1>11. CASE CPUTimerFires
  <2>1. Handled(rt, rt', Up)
    BY <1>0, <1>11, FireCPUActionIsHandled DEF CPUTimerFires
  <2> QED BY <1>0, <2>1, HandledIsSafe
<1>12. ASSUME NEW deadline \in 1 .. MaxMatches, PauseTimerFires(deadline) PROVE PauseSafe(rt')
  <2>1. PICK m : m = [rt EXCEPT !.pauseDue = @ \ {deadline},
                                !.pauseOver = @ \/ deadline = rt.matchNo]
    OBVIOUS
  <2>2. rt' \in FirePauseExpiry(m, deadline, Up) /\ deadline \in rt.pauseDue
    BY <1>12, <2>1 DEF PauseTimerFires
  <2>3. PauseRun(rt, m, deadline)
    BY <1>0, <2>1, PauseRunFacts
  <2> QED BY <1>0, <2>2, <2>3, PauseExpiryIsSafe
<1>13. CASE RetryTimerFires
  <2>1. PICK attempt \in rt.retryDue : rt' \in FireStorageRetry([rt EXCEPT !.retryDue = {}], attempt, Up)
    BY <1>13 DEF RetryTimerFires
  <2>2. PICK r : r = [rt EXCEPT !.retryDue = {}]
    OBVIOUS
  <2>3. Retried(rt, r) /\ attempt \in 0 .. StorageRetries - 1
    BY <1>0, <2>2, RetryTakenFacts DEF RuntimeOK, Typed
  <2> QED BY <1>0, <2>1, <2>2, <2>3, StorageRetryIsSafe
<1>14. CASE PresenceTimerFires
  BY <1>0, <1>14, PresenceExpiryIsSafe DEF PresenceTimerFires
<1>15. ASSUME NEW callback \in Callbacks, StaleTimerFires(callback) PROVE PauseSafe(rt')
  BY <1>0, <1>15, StaleTimerIsSafe
<1>16. CASE UNCHANGED vars
  BY <1>0, <1>16 DEF vars
<1> QED BY <1>1, <1>2, <1>3, <1>4, <1>5, <1>6, <1>7, <1>8, <1>9, <1>10, <1>11, <1>12, <1>13,
           <1>14, <1>15, <1>16 DEF Next

\* In a room that holds one match, or whose store never fails, the expiry of a
\* pause is its own through every outage, disconnection and late callback.
THEOREM PauseInvariance ==
  ASSUME NoLeftover
  PROVE  Spec => []PauseInv
<1>1. Init => PauseInv
  BY InitSafe
<1>2. PauseInv /\ [Next]_vars => PauseInv'
  BY NextSafe
<1> QED BY <1>1, <1>2, PTL DEF Spec

\* There a host pause ends by itself: its expiry is due, or an outage is on whose
\* recovery settles the pause (settleUserPauseAfterRecoveryLocked). With a second
\* match after an outage this is false: invalidateMatchLocked leaves the expiry of
\* the first match due, and firePauseExpiry then drops the timer of the second.
THEOREM EveryPauseExpires ==
  ASSUME NoLeftover
  PROVE  Spec => []PauseHasExpiry
<1>1. PauseInv => PauseHasExpiry
  BY DEF PauseInv, PauseSafe, PauseHasExpiry
<1> QED BY <1>1, PauseInvariance, PTL
-----------------------------------------------------------------------------
\* Two runtimes that agree on every field are the same.
LEMMA SameRecord ==
  ASSUME NEW a, NEW b, Shape(a), Shape(b), \A f \in Fields : a[f] = b[f]
  PROVE  a = b
<1>1. a = [f \in Fields |-> a[f]] /\ b = [f \in Fields |-> b[f]]
  BY Zenon DEF Shape
<1> QED BY <1>1

\* Stopping the pause timer when nothing is due drops its handle only.
LEMMA StoppedFields ==
  ASSUME NEW m, RuntimeOK(m), m.pauseDue = {}, NEW t, t = StopPauseTimer(m)
  PROVE  \A f \in Fields \ {"pauseTimer"} : t[f] = m[f]
<1>1. CASE ~m.pauseTimer
  BY <1>1 DEF StopPauseTimer
<1>2. CASE m.pauseTimer
  <2>1. Outliving(m, {"pause"}) = {}
    BY DEF Outliving
  <2>2. PICK D, S : D = m.pauseDue \ {m.matchNo} /\ S = m.stale \union Outliving(m, {"pause"})
    OBVIOUS
  <2>3. D = m.pauseDue /\ S = m.stale
    BY <2>1, <2>2
  <2>4. t = [m EXCEPT !.pauseTimer = FALSE, !.pauseDue = D, !.stale = S]
    BY <1>2, <2>2 DEF StopPauseTimer
  <2> QED BY <2>3, <2>4 DEF RuntimeOK, Shape
<1> QED BY <1>1, <1>2 DEF RuntimeOK, Typed

\* Only the callbacks left behind and the pause timer's handle differ.
Silenced(m, fresh, stale, timer) ==
  [m EXCEPT !.fresh = fresh, !.stale = stale, !.pauseTimer = timer]

\* A runtime that differs in these fields is that record.
LEMMA SilencedRecord ==
  ASSUME NEW m, RuntimeOK(m), NEW t, RuntimeOK(t),
         \A f \in Fields \ {"pauseTimer", "fresh", "stale"} : t[f] = m[f]
  PROVE  t = Silenced(m, t.fresh, t.stale, t.pauseTimer)
<1>1. PICK u : u = Silenced(m, t.fresh, t.stale, t.pauseTimer)
  OBVIOUS
<1>2. Shape(u) /\ Shape(t)
  BY <1>1, Zenon DEF Shape, RuntimeOK, Silenced
<1>3. \A f \in Fields : t[f] = u[f]
  BY <1>1 DEF RuntimeOK, Shape, Silenced
<1> QED BY <1>1, <1>2, <1>3, SameRecord

\* A callback left behind, whichever it is, changes these fields at most.
LEMMA StaleTimerIsInert ==
  ASSUME PauseInv, NEW c \in Callbacks, StaleTimerFires(c), ~(c = "retry" /\ rt.storagePaused)
  PROVE  rt' = [rt EXCEPT !.fresh = rt'.fresh, !.stale = rt'.stale, !.pauseTimer = rt'.pauseTimer]
<1>1. RuntimeOK(rt) /\ PauseSafe(rt)
  BY DEF PauseInv, RuntimeInv, Rest
<1>2. PICK m : m = [rt EXCEPT !.stale = @ \ {c}]
  OBVIOUS
<1>3. RuntimeOK(m) /\ PauseSafe(m)
  BY <1>1, <1>2, StaleRunIsSafe
<1>4. rt' = m \/ (m.live /\ ~m.paused /\ rt' = StopPauseTimer(m))
  <2>1. m.storagePaused = rt.storagePaused
    BY <1>1, <1>2, StaleRunFacts DEF SameButPause, SameWatch, SameButRetry
  <2> QED BY <1>1, <1>2, <2>1, StaleTimerOutcomes
<1>5. RuntimeOK(rt') /\ \A f \in Fields \ {"pauseTimer"} : rt'[f] = m[f]
  <2>1. CASE rt' = m
    BY <1>3, <2>1
  <2>2. CASE m.live /\ ~m.paused /\ rt' = StopPauseTimer(m)
    <3>1. m.pauseDue = {}
      BY <1>3, <2>2, NothingDue
    <3> QED BY <1>3, <2>2, <3>1, StoppedFields, StopPauseTimerFacts
  <2> QED BY <1>4, <2>1, <2>2
<1>6. \A f \in Fields \ {"pauseTimer", "fresh", "stale"} : rt'[f] = rt[f]
  <2>1. \A f \in Fields \ {"pauseTimer", "stale"} : m[f] = rt[f]
    BY <1>1, <1>2 DEF RuntimeOK, Shape
  <2> QED BY <1>5, <2>1
<1>7. rt' = Silenced(rt, rt'.fresh, rt'.stale, rt'.pauseTimer)
  BY <1>1, <1>5, <1>6, SilencedRecord
<1> QED BY <1>7, Zenon DEF Silenced

\* A callback that was left behind changes nothing. The window, the CPU action
\* and the watchdog owe it to the increments of timerGeneration,
\* cpuActionGeneration and presenceGeneration (match_flow.go, match_presence.go):
\* by the time such a callback runs its generation has been passed. For
\* firePauseExpiry it is the once-per-match pause. A storage retry has neither;
\* outside an outage it finds nothing to do.
THEOREM StaleCallbacksAreInert ==
  ASSUME NoLeftover
  PROVE  Spec => StaleCallbackIsInert
<1>1. PauseInv /\ [Next]_vars =>
        [\A c \in Callbacks :
           StaleTimerFires(c) /\ ~(c = "retry" /\ rt.storagePaused) =>
             rt' = [rt EXCEPT !.fresh = rt'.fresh, !.stale = rt'.stale,
                              !.pauseTimer = rt'.pauseTimer]]_vars
  BY StaleTimerIsInert
<1> QED BY <1>1, PauseInvariance, PTL DEF Spec, StaleCallbackIsInert
=============================================================================
