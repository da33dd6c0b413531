# Verification of the Buk Yutnori server

TLA+ specifications of the server in `src/` (a Go program in which rooms of
players play a variant of Yutnori), the TLC runs that check them and the
TLAPS proofs about them. `PROJECT.json` maps every definition to the lines it
models and lists runs, mutants, findings, hazards and theorems.

## The system

One process keeps all rooms in memory (`RoomRegistry`, one mutex) and appends
every event of a room to SQLite. Browsers connect by WebSocket, send commands
and receive events; matches are not recovered after a restart.

| Component | State | Operations | Hard part | Module |
|---|---|---|---|---|
| Turn machine, result queue (`domain/turn`) | phase, queue of result tokens, selection, seal | throw, resolve, select, route, move, discard, Buk | long legal call sequences, queue limit, tokens selected early and consumed late | `TurnMachine` |
| Board (`domain/board`) | a static graph read from a file | load, validate, forward, Backdo, distance | is validation strict enough for the movement functions | `Board`, `BoardWalk` |
| Match game (`domain/match`), CPU policy (`domain/cpu`) | position and history of every piece, winner | ordinary move, Backdo, Buk, decide | stacks, captures and victory over a whole turn; two computations of "legal move" | `MatchGame`, `MatchPlay` |
| Match runtime (`match_runtime.go`, `match_flow.go`, `match_presence.go`) | whose turn, who drives it, five kinds of timers, host pause, outage, absence | commands, timer callbacks, sockets opening and closing, storage retries | every pair of suspensions overlaps; callbacks outlive `Timer.Stop` | `MatchRuntime` |
| Event log (`event_tx.go`, `room_event_sequences.go`, the outage code, `sqlite_store.go`, `game_logs.go`) | boundary, rows, pending batch, retry state | flush, enter pause, retry, resume marker, deferred events, last save, derive logs | a store that fails between two appends, numbering before commit | `EventLog`, `RoomStream` |
| Event hub, snapshot (`room_event_hub.go`, `match_snapshot.go`) | bounded channel per session | subscribe, deliver, drop, `ReconnectBundle` | overflow in the middle of a batch; memory against committed boundary | `EventLog` |
| Lobby and start flow (`room_registry.go`, `room_start_flow.go`, `domain/room`) | members, teams, ready flags, host, confirmation and its timers | join, leave, kick, ready, CPU seats, start, confirm, expire | host hand-over, expiry against answers and later attempts, failed saves | `RoomLobby` |
| Command processor, room actor (`processor.go`, `room_actor*.go`, the router) | idempotency table, mailbox, closing state | process, execute, close, deadline, forget | duplicates in flight, closing against admission, panics | `CommandPath` |
| Lobby chat, sessions (`lobby_chat_room.go`, `wsapi/realtime_session.go`) | limits per user, subscribers, log queue, three goroutines per session | send, subscribe, drop, close, restart | slow subscribers, sliding windows, goroutines left behind | `LobbyChat` |
| Sampler, protocol, HTTP, auth, profiles, client | | | data, I/O | not modelled |

**Interaction.** A session reads a command; the processor looks for a duplicate
and the router sends chat to the actor's goroutine and everything else to an
executor, which calls one registry method. The method locks the mutex, asks the
turn machine, the game and the board, stages events in an `eventTx` and flushes
it: rows appended, numbers committed, events sent to the channels of members.
Timer callbacks and sockets opening and closing enter through the same mutex. A
failing append turns a live match into a storage pause with three retries, and
fences a room without a match.

Under the registry mutex a handler is one action; what is concurrent is the order
in which commands, sockets, timers and failures get the mutex, and what they had
captured before. The processor, the actor and the sessions have no common mutex:
there a step is what a goroutine does between two points where another may run.

## Modules

**`TurnMachine`** models `Machine` and `ResultQueue` call by call: one action
per method, guards from its checks, the error returns as disabledness. The
board's answers are inputs.

**`Board`** is a record for a graph with the functions of `domain/board` on it:
`Validate` in its named parts, `ForwardPlans`, `BackdoPlan`,
`RemainingForwardDistance`, and the canonical board of
`spec/board_graph.yaml`. **`BoardWalk`** edits the file, starts the server or sees
it refused, and moves one piece by every result the engine may ask for. Render
coordinates, the printed finish distances and decoding are left out, as is one
edit: `Validate` lets the home checkpoint pass as a Buk candidate when it is
tagged as one (`validate.go:296`).

**`MatchGame`** has the rules as operators on the function from pieces to
positions (moving pieces, captures, `ApplyMoveResolution`, Buk) and the CPU's
candidates and their order. **`MatchPlay`** composes it with an instance of
`TurnMachine`: every call of `match_flow.go` on the machine or the game is a step,
the throw's result is chosen freely, and human and CPU alternate in any way.

**`MatchRuntime`** keeps `matchRuntime` as one record, `conn` for
`registry.connections` and `late` for commands that outlive their socket. A
`...Locked` helper is an operator from a record to the set of records it may
leave; throws, moves and CPU decisions are that choice. Timers are untimed: a due
callback may run at any time, a remaining time is 0 or positive.

A callback can be left behind: `Timer.Stop` came too late for it, or its handle was
replaced without a `Stop`. What the code knows of it is the generation it captured.
Generations only grow, so the model keeps of one whether it is still the current one:
such a callback is in `fresh` until the code increments its generation (`Bump`, at
every line that does so) and in `stale` from then on. `StaleTimerFires` runs it with
that verdict, so a path that stops a timer and forgets the increment lets it act. The
pause expiry has no generation and is compared by its deadline; a storage retry is
compared by its attempt, so one that was left behind may run with any attempt, the
expected one included, and is then the retry of the outage.

Handlers fail half-way, and the code undoes nothing. `AdvanceFails` is the error of
`enterMoveSelectionLocked` (more than one unusable token); a player's command returns
it and saves nothing, and a step of the CPU that meets it schedules nothing
(`RunCpuStepFails`, `RunCpuTurn`). Whether the queue is in that state is `MatchPlay`'s
business (run `discard`); here every advance may fail. The other failing step is a
route decision that does not match the open selection (`match_flow.go:603-609`). A throw
does not fail (the sampler and the random source of production do not), and `Decide`
does not either: a head token without a candidate it discards. History fields (`lapse`,
`lateActed`, `ended`, `resultSaved`) serve the properties; `lapse` is emptied whenever
a window or a CPU action is armed.

Abstractions: one room; why the CPU has control (a label in events) is left out; a
callback of an earlier match is dropped when the runtime is detached, except the pause
expiry, which is keyed by its deadline; of the callbacks of one kind at most one is
left behind with either verdict; a flush with nothing staged may fail like any other,
except after a refused route decision; the member limit for spectators is left out.

**`EventLog`** keeps the room's log as one record and a subscription for every
session. Events are named in the order they are built and carry their number and
their kind. `MatchChange` stands for every match handler that goes on, with a
batch of one or two events. Sessions are members of the room all the time. Room,
store and hub share the registry's mutex, so saving and delivering is one step.
`DeriveGameLog` says which stored rows `deriveGameLogs` accepts.

**`RoomStream`** is what clients are promised: numbers 1, 2, 3, ... without a
gap or repetition. `EventLog` implements it with `stream` mapped to the numbers
of `log.published` (`KeepsStream`).

**`RoomLobby`** is one room outside its match, every registry operation an action.
A confirmation carries its attempt's number and every attempt has its own timer,
because the timer of an earlier attempt may still run; its callback is two actions
(`AwaitDeadlineAndExpire`, `ExpireStartConfirmation`), as it is two critical
sections. A failed save fences the room and keeps the change, as the code does.
`RequestStart` is only called directly: the public `START_GAME` is
`StartImmediately`.

**`CommandPath`** has a program counter per call of `Process` and per deadline and
one for the actor's loop. An execution is accepted, rejected, fails in a way the client
may repeat, or panics. `effects` records what took effect and how it was answered. A
command of a game room may take effect without being accepted: when the store refuses
its events the match keeps its new state and the batch stays pending, and the client is
told of a failure that may be repeated (`event_tx.go:117-130`,
`match_command_executor.go:142-143`); when the turn cannot go on after a recorded throw,
the answer is a rejection (`match_flow.go:168-173`). What such an effect does to the
match is in `MatchRuntime` and `EventLog`.

**`LobbyChat`** has the chat room, the log writer's goroutine and the three
goroutines of a session; `now` is a counter and the windows are constants. The
room events that the same session writes are in `EventLog`.

`MatchRuntime`, `EventLog`, `MatchPlay` and `RoomLobby` are views of the same
handlers: who drives the turn, what is saved and sent, what the rules do, and who
is in the room. They meet at the retry schedule, at "a match begins" and "a match
ends". The `MC...` modules give constants their values.

## Passing runs

| Run | Bounds | Properties | Shows |
|---|---|---|---|
| `turn` | limit 3, five tokens, five results, both orders | `ThrowIsRecordable`, `SelectedIsConsumable`, `SealedTurnAddsNothing`, `SealedTurnEnds` | The queue limit seals in time, selections stay consumable, a sealed turn adds nothing and ends. |
| `board` | the canonical board with up to one mistake; both policies | `PlannerIsTotal`, `DistanceIsExact`, `ForwardMovesFinish` | Whatever `Validate` accepts has a plan for every piece and result, exact distances, and forward moves that finish. |
| `play` | two pieces a team, board of six spaces with one shortcut, three turns of three throws | `NoHostileCoexistence`, `StackSharesHistory`, `WinnerEndsTurn`, `CpuDecisionIsCandidate`, `CpuFinishesItsRoute` | Captures are complete, stacks move as one, game and turn end together, the CPU's decisions are the runtime's candidates. |
| `runtime_safety` | two humans, two sockets each, one match, outages and joins in them, one callback left behind at a time | `TurnIsDriven`, `PauseHasExpiry`, `WindowIsPreserved`, `PresenceMatchesSockets`, `StaleCallbackIsInert` | A running turn has its driver unless that driver was lost in a recorded way; pauses expire; windows survive overlapping suspensions; absence is known exactly; callbacks that were left behind do nothing. |
| `runtime_liveness` | one human, one CPU, outages, pauses, late commands | `OutageEnds`, `PauseEnds`, `AbandonedMatchSettles` | Outages, pauses and abandonments end. |
| `log` | 8 events, two matches, one session with a channel of two | `LogIsContiguous`, `StoredBeforePublished`, `SnapshotMeetsStream`, `SubscriberMissesNothing`, `GameLogsAreReadable`, `KeepsStream` | Stored and pending rows are one gapless sequence, store before publish, readable game logs, refinement of `RoomStream`; the session misses nothing and its snapshots meet the live stream. |
| `lobby` | three users, one CPU seat, at most two members together, three confirmations, two matches | `HostIsPlayer`, `TeamsAreBalanced`, `ReturnResetsReady`, `OnlyLateAnswersExpel`, `ConfirmationEnds` | Somebody stays host, teams stay equal, nobody is drawn into a rematch, only late answers expel, confirmations end. |
| `commands` | three goroutines, one perhaps a deadline, one command id with two contents | `AcceptedOnce`, `DuplicatesAgree`, `RefusedHadNoEffect`, `ClosedRoomIsForgotten`, `NobodyWaits` | A command takes effect again only after a failure of its game room, equal answers, refusals of the actor without effect, forgetting, everybody answered. |
| `chat` | one user, one socket at a time, channels of one, three ticks, one restart | `NobodySeesAGap`, `BlockIsServedOnce`, `RowsAreFresh`, `DroppedSessionEnds` | No gaps, blocks served once, fresh row numbers, dropped sessions end and leave no reader. |

The modules state more than the configurations list: a `TypeOK` each, the parts
`StoreIsGapless` and `PendingContinuesLog` of `LogIsContiguous`, and plainer
invariants and action properties (`FifoConsumesOldest`; `SuspendedTurnIsFrozen`,
`OutageIsWatched`; `BukNeedsNoRoute`; `OnlyBackdoIsUnusable`, `OthersOnlyCaptured`;
`RateLimitHolds`, `NoEcho`; `ConfirmedRosterIsRoom`,
`StatusMatchesRoom`, `PeopleWithinCapacity`, `FencedRoomIsStill`). They hold on the
same instances: add them to the configuration to check them, as one does while
changing a module or preparing a proof. Those that a theorem states need no run.

*Why the bounds are enough.* Limit 3 lets the turn be sealed by an initial throw,
an extra throw and a capture throw; the proofs remove the bound. The board's run
uses the real graph; a second mistake can only repair or repeat the effect of the
first in another place. The small board of `play` has a ring, a shortcut that
rejoins it at the checkpoint, and room for a Yut that does not finish; two pieces
a team are a stack and its parts. Two humans are host and other player, present
and absent in every combination; a third adds no new suspension. Two sockets
distinguish "a socket closed" from "the last one closed". One callback left behind
(`MaxLate = 1`; the 1.25 million states take two to three minutes) meets every window,
pause and watchdog that is armed later; two of them are two kinds, which do not look at
each other's generation, and the proof has no such bound. Late commands make most of
the invariants' exemption `lateActed` true, so they are in `runtime_liveness`, whose
properties have no exemption, and in the proofs. Eight events hold a
start, an outage with deferred events and a flap, or an end and a rematch with an
outage. A channel of two fills up in the middle of a batch of two. `MarkerFits`
bounds the resume markers of a store that flaps for ever. Sessions do not affect
each other, so one is enough in `log` and `chat`. In `lobby` the combined limit is below
the number of users, and a CPU seat can fill the third place of the lobby; a third confirmation lets two old
timers be on their way. In `commands` three goroutines are a first call, its
duplicate and a conflicting or later one.

`OutageJoins` is TRUE in `runtime_safety` and FALSE in `log`: a spectator's join
during an outage breaks the numbering (below), so what `log` shows of outages
holds as long as nobody joins in one. It is FALSE in `runtime_liveness`, where
unbounded joins could restart the retries for ever; the program stops them at 20
members. `LastSaveFails` is FALSE in `log`: when the save that ends a match fails
too, the code knowingly publishes without saving and the next events repeat the
numbers, against `docs/11_test_plan.md:296`.

*Fairness.* `TurnMachine` assumes that the calls a turn needs are made: the runtime
arms a window or the CPU for every turn. `BoardWalk` assumes that moves go on.
`MatchRuntime` assumes weak fairness of due pause, retry and presence callbacks, as
`time.AfterFunc` and a fair `sync.Mutex` give (`PauseTimerIsFair` and
`RetryTimerIsFair` write it out: such a callback can run exactly while it is due), and
strong fairness of "a retry finds the store working for both of its appends", i.e. the
store does not flap between the two appends for ever (`StoreIsFair`, written out in the
same way). Callbacks that were left behind owe nothing. `RoomLobby` assumes that time passes and due
timers run. `CommandPath` and `LobbyChat` assume weak fairness of the steps of
goroutines that can run, as the Go scheduler gives. No fairness is assumed of
players, clients or sockets.

*Deadlock* is checked in the two runs of `MatchRuntime`, where somebody can always
connect or act. In the others a turn, a match, a closed room or a finished set of
calls stops for good, or the bounds stop it.

## Disagreements between documents and code

Three are runs that expect a violation; `PROJECT.json` quotes the sentences.

- `discard`: in free order a queue of Backdo, Yut or Mo, Backdo can come to hold two
  results that no piece can use; `enterMoveSelectionLocked` only discards a single
  one, returns an error and leaves the turn to its deadline. A turn the CPU plays has
  none: its step fails, nothing is scheduled, and the match stands still.
- `log_outage_join`: a spectator who joins during an outage takes a number of the
  pending batch, or replaces the batch.
- `resend`: a command of a game room whose events the store refused has taken effect and
  is forgotten by the processor, so the same `command_id` sent after the recovery may take
  effect again (a `THROW_YUT` that gave a Yut or Mo throws a second time). That the result
  is not retained is documented (`docs/06_network_reconnection.md:265-266`); that sending
  again changes nothing (`:267`, ADR-0002) is then not true. `AcceptedOnce` is what is left:
  never after an acceptance or a rejection, and never a chat message.

For the following the module states the document's sentence as a definition.
Making it the only INVARIANT (the first one: PROPERTY) of the named configuration,
for `MatchRuntime` that is `MCMatchRuntime_safety.cfg` with one match and all
switches FALSE unless said otherwise, makes TLC show the trace.

- `MatchRuntime!RecoveredTurnHasWindow` (`docs/03_turn_queue_state_machine.md:122`;
  `match_presence.go:203`): when the disconnection that empties the room also fails to
  be saved, the recovery rearms only the window of the outage, and the turn has none.
  `StoreFails = TRUE`.
- `MatchRuntime!CpuTurnHasDriver` (`docs/03_turn_queue_state_machine.md:93`;
  `match_flow.go:150`, `match_flow.go:523`): a step of the CPU fails and nothing is
  scheduled; or (with `step_failed` excepted) a throw of the timed-out player in a
  CPU-controlled turn cancels the CPU's next action and arms nothing.
- `MatchRuntime!ResultSavedWithGameEnded` (`event_tx.go:54-55`; `match_runtime.go:923`):
  a finished match whose retries run out, or whose players all leave in the outage, is
  stored and broadcast as ended without its result. `StoreFails = TRUE`.
- `MatchRuntime!PauseHasExpiry` over two matches (`match_runtime.go:456`;
  `match_runtime.go:469`): the pause expiry that `invalidateMatchLocked` left running
  stops the timer of the rematch's pause. `MaxMatches = 2`, `Pauses` and `StoreFails`
  TRUE.
- `EventLog!SnapshotIsAtItsBoundary` (`docs/06_network_reconnection.md:338`;
  `match_snapshot.go:588`): a snapshot taken in an outage shows events past the number it
  carries. `MCEventLog_log.cfg` with four events and one match.
- `MatchPlay!CpuCompletesTurn` (`docs/03_turn_queue_state_machine.md:93`;
  `match_flow.go:543`): the CPU takes over while a route choice is open that the human
  reached with another piece or token than the CPU would choose; deciding anew does not
  match, the step returns and nothing is scheduled. `MCMatchPlay_discard.cfg`.
- `EventLog!GameLogsAreReadable` without its exception (`match_runtime.go:906`): a match
  whose GAME_ENDED was pending when the retries ran out is stored with two of them, and
  `deriveGameLogs` refuses all logs of the room ("GAME_ENDED outside active match").

`TurnIsDriven` names the ways a turn can lose its driver in the field `lapse`, by the
driver it should have (`Excuses`), so that it shows there are no others. A turn of the
CPU may have lost its next action to a command (`cpu_cancelled`) or to a failed step of
its own (`step_failed`, the `discard` run and `CpuCompletesTurn`). A player's turn may
have no window because a pause or outage began at remaining time 0 (`window_expired`),
because of a return in a pause or outage (`window_lost`, `RecoveredTurnHasWindow`), or because
a CPU turn was handed to its returning owner (`handed_back`). `finish_lost` is a match
that ended in an outage and whose final batch a spectator's join replaced. The record is
emptied when a window or a CPU action is armed, so no loss excuses a later one, and the
window that is there must be of the kind the phase asks for. These losses are what the
code does: the property does not show them absent, it shows them to be all.
`lateActed` marks a command that acted after its socket was counted out. Dropping one of
these exemptions from `TurnIsDriven` makes TLC show the trace.

The lobby's definitions have three exceptions of the same kind. `HostIsPlayer`: an
expired confirmation may expel the host, and `ExpireStartConfirmation` appoints no
other. `FencedRoomIsStill`: `ConfirmStart` does not look at the fence
(`room_start_flow.go:122`, unlike `event_tx.go:66-70` says). `PeopleWithinCapacity`
counts people: `AddCPUPlayer` does not look at the combined limit of
`docs/05_room_match_lifecycle.md:32`.

Seen while modelling, without a definition: host hand-over ignores who is connected
(`docs/05_room_match_lifecycle.md:74`) and there is none at the end of a match
(`:84-86`); a player who leaves during a host pause is not replaced when it ends
(`match_presence.go:117`, `docs/05_room_match_lifecycle.md:106`); a recovery announces
every CPU-controlled human turn as disconnected (`match_runtime.go:808`); the last
human's `LeaveRoom` does not forget the room's boundary (`room_registry.go:752`); nothing
forgets a game room's idempotency records; numbers of chat messages that were broadcast
and not stored are used again after a restart, which the best-effort log accepts.

## Proofs

A module `XProofs` holds the theorems about `X` and extends it; `NumberLemmas` has
two facts they share. TLC shows a property on the instance of a run, a theorem shows
it for all values of the constants that the module's ASSUME allows: every queue
limit, any number of sessions, calls, users, matches and restarts, every buffer and
window, every turn order, every board that passes `Graph.Validate`. The bounds that only keep TLC's state space finite are ordinary constants
there, so they are not a restriction.

All proofs have one shape: an inductive invariant with a lemma per action, then one
short theorem per property. The properties are not inductive as they stand; what each
invariant adds, and why, is this.

**`TurnMachineProofs`** (`ThrowIsRecordable`, `SelectedIsConsumable`,
`SealedTurnAddsNothing`, and `BukResolvedFirst`, `FullQueueIsSealed`,
`ConsumedStaysConsumed`). That the next throw is recordable needs the queue limit; the
limit needs that a queue reaching it is sealed in the same call; that a seal is final
needs that the origin of an extra throw is set only in an unsealed turn; that a
selection stays consumable needs that no Buk is queued while a selection is open and
that queued identifiers are distinct and seen.

**`RoomLobbyProofs`** (`HostIsPlayer`, `TeamsAreBalanced`, `ReturnResetsReady`,
`OnlyLateAnswersExpel`, and `ConfirmedRosterIsRoom`, `StatusMatchesRoom`). Host, teams
and status hold one another up: the roster is frozen while a confirmation is open, so
the teams that were validated are those of the match, and a confirmation that opened a
match waits for nobody, so that no old timer can expel one of its players.

**`MatchRuntimeProofs`** (`TurnIsDriven`, `WindowIsPreserved`,
`PresenceMatchesSockets`, `PauseHasExpiry`, `StaleCallbackIsInert`, and
`SuspendedTurnIsFrozen`, `OutageIsWatched`). A handler is a composition of a dozen
record updates, and in the middle of one the properties are false: a match that has
just been resumed has no window yet. So there are two predicates: `Rest`, which every
action finds and leaves, and `Sound`, which holds inside a handler from the point where
the turn is consistent to the save of its events. A lemma for each update says which
fields it keeps (`Moved`, `Paused`, `Away`, ...); a lemma for each handler composes
them; `Settles` says that the save of a sound match leaves a match at rest, an outage
or no match. `Sound` says of every suspension (pause, outage, absence) what it took from
the turn and which of them will give it back, which is why overlapping ones neither lose
a window nor arm it twice; it includes the recorded lapses, so that the theorem states
that there are no others. A turn is `Owed` its driver unless a lapse of that driver is
on record; `Kept` says that a suspension remembers a window of the kind the phase asks
for (`Held`), or that its loss is on record. A failed step leaves what a step that goes
on could have left (`FailuresAreOutcomes`), without the next action. For the callbacks that were left behind, the invariant says
`fresh = {}`: whenever a handler is done, no callback that was left behind carries the
current generation, which is the work of the increments in `cancelTimerLocked`,
`armTimerLocked`, `scheduleCPUActionLocked` and the two presence handlers, and is false
in the middle of each of them. `Rest` alone does not give `PauseHasExpiry` and
`StaleCallbackIsInert`. They need `PauseSafe`: the only expiry due is that of the current match.
They are proved with `NoLeftover`, i.e. `MaxMatches = 1` or `StoreFails = FALSE`, and
without it they are false: `invalidateMatchLocked` leaves the expiry of a pause due,
which then hits the next match (see the disagreements above).

**`MatchPlayProofs`** (`NoHostileCoexistence`, `StackSharesHistory`, `WinnerEndsTurn`,
`CpuDecisionIsCandidate`, `CpuFinishesItsRoute`, and `OthersOnlyCaptured`,
`OnlyBackdoIsUnusable`). The argument goes from the board up. From the checks of
`Graph.Validate`, and from nothing else about the graph, the planner has one or two
plans for every piece that is not finished and every number of spaces
(`PlannerServesEveryPiece`); `ForwardPath`, the levels before the home and the
reachable spaces are recursive functions, and what they compute is shown by the least
argument at which it would go wrong. The distance by which a Buk picks its target and
the CPU its piece is then exact (`DistanceIsThePlanners`): no sequence of one-space
moves of the planner to the finish is shorter, and one is that short. It rests on
`RoutesAreWaysOn`: the routes the planner offers from a space enter exactly the spaces
the breadth-first search looks at, which needs the degree checks of `Validate`. A
resolved move and the chain of a Buk keep pieces placed (`Placed`), teams apart
(`Apart`) and stacks with one history (`Joined`), which have to be shown together: a
stack that is captured in part would separate what `Joined` compares. Every step of a
match is a step of its turn machine or begins a new one, so the invariant of
`TurnMachineProofs` holds in every turn (`TurnsKeepMachine`); with it a
winner and the phase `match_end` come and go together. For the CPU the invariant adds
that a move it selected and that waits for a route stays one of its best candidates:
nothing moves in between, so deciding again finds it.

**`EventLogProofs`**. `SubscriberMissesNothing` holds whatever the store does: every
subscription has read, or holds in its channel, the events broadcast since it began,
because events are only ever added to the stream. `LogIsContiguous`,
`StoredBeforePublished`, `SnapshotMeetsStream` and the refinement `KeepsStream` are
proved for a log that is `Orderly`, that is with `OutageJoins` and `LastSaveFails`
FALSE. They are the two cases in which the code does not keep the log whole: the
`log_outage_join` run shows the first, and in the second the code publishes knowingly
without saving. The invariant says that the broadcast events are the stored ones,
each numbered by its place in the stream, that the boundary of an open room is the
end of the stream, and that a pending batch goes on from there. `GameLogsAreReadable`
needs more (`TaleInv`): the number of an event is also its place among all events
built, so the stored rows are the first events in order; a match that goes on has no
GAME_ENDED; one whose GAME_ENDED is pending has no row behind it, so the save that gives
the match up can add only one more. A lemma per kind of batch (others, play, start, end)
says how it extends a history that is right so far.

**`CommandPathProofs`** (`AcceptedOnce`, `DuplicatesAgree`, `RefusedHadNoEffect`,
`ClosedRoomIsForgotten`). Nothing protects a command after the processor's mutex is
released except that the table has an open entry for it: the invariant says that a
running call owns the entry under its id, that the actor holds the one call that is
admitted, that every effect has an author whose answer, if it has one, is the one on record
with the effect, that what took effect is held by the entry of a decided call (or was
a game room's failure, or a chat message of an actor that is over), and that a decision, as long as anybody can still ask for it, is held by the entry or by a
waiter. Entries marked for removal belong to a closed lobby chat whose loop is done.

**`LobbyChatProofs`** (`NobodySeesAGap`, `BlockIsServedOnce`, `RowsAreFresh`, and
`RateLimitHolds`, `NoEcho`, which no run lists). Gaps: the channel of a served session
continues what it saw. Blocks: an attempt that is remembered was made a whole block
before the block's end or after it; with `AttemptWindow <= BlockDuration`, which the
code's constants satisfy, it no longer counts. Rows: the numbers in the queue, in the
writer's hand and in the store are different and at most the boundary, and the
greatest number of the store is what a restart begins with. The rate limit needs the
link between the list of accepted times, which `timestampsAfter` shortens, and the
messages: an injection from a user's messages of the last second to places in the list
that hold their times. `NoEcho` needs that `lastText` and `lastAt` are those of the
user's last accepted message.

The proofs changed the model in five places. `TimestampsAfter` selected the late times
of a list; the code drops the leading ones, and now so does the model (the two agree on
the increasing lists that occur). `Admission` and `Publish` were CASE expressions whose
guards overlap, which TLC reads in order and TLA+ does not. `CommandPath` assumes that
no content of a command is the placeholder `"none"`. `ResolveBuk` went through its groups
in a fold; it is now a recursive function (`BukMoves`) with a step of its own
(`BukMove`). And the constants of `MatchGame`, `MatchPlay` and `MatchRuntime` have their
assumptions written down: the board passes `Validate`'s checks and its fixed Buk space is
not the home, each team has a piece, token identifiers are counted up, a turn order is
not empty (`GameAssumption`, `PlayAssumption`, `TeamAssumption`, `ConfigAssumption`).

*Only model-checked.* Liveness under fairness (`SealedTurnEnds`, `ForwardMovesFinish`,
`OutageEnds`, `PauseEnds`, `AbandonedMatchSettles`, `ConfirmationEnds`, `NobodyWaits`,
`DroppedSessionEnds`), which the prover does not reach. `PlannerIsTotal` and
`DistanceIsExact` of `BoardWalk` as stated there, over edited board files and with
`Validate` evaluated on each: what they say of one accepted board is proved for the board
of a match, as `PlannerServesEveryPiece` and `DistanceIsThePlanners`, except that a
plan's list of traversed spaces ends in its destination. Every other invariant and action property of a passing run is stated by a
theorem. Where a proof needed induction over numbers, the least counterexample did
(`NumberLemmas`). No module declares a `RECURSIVE` operator.

## Plan

1. The modules and their runs (done).
2. `TurnMachineProofs`, `RoomLobbyProofs`, `EventLogProofs`, `CommandPathProofs`,
   `LobbyChatProofs`, `MatchRuntimeProofs`, `MatchPlayProofs` (done).
3. Open: the liveness properties, which only the runs check.

## Not modelled

Codecs, HTTP, authentication, profiles, statistics, the sampler's distribution and
the client: data transformation or I/O without shared state. Real time: timers are
untimed except for the chat's windows, so durations are not checked. A crash of the
process with matches in it: matches are not restored after one. The cached
GAME_STARTING of the hub, which only the confirmation path sets.

## Running

    tlc -config MCTurnMachine_turn.cfg MCTurnMachine
    tlapm TurnMachineProofs.tla      (each of the ...Proofs modules, up to about five minutes)
