------------------------------ MODULE LobbyChat ------------------------------
(***************************************************************************)
(* The lobby-wide chat: LobbyChatRoom with its limits, its subscribers and *)
(* its best-effort log (lobby_chat_room.go), and the websocket sessions    *)
(* that read commands and write events and results (realtime_session.go).  *)
(*                                                                         *)
(* Commands reach Execute through the room actor, one at a time, and are   *)
(* one step under the room's mutex (see CommandPath for the way there).    *)
(* A session is three goroutines: the reader, the watcher of dropped       *)
(* subscriptions, and the loop that writes. The room events the same loop  *)
(* writes are in EventLog. The clock is time.Now, which never goes back.   *)
(***************************************************************************)
EXTENDS Integers, Sequences, FiniteSets

CONSTANTS
  Sessions,          \* sockets that come and go
  UserOf,            \* session -> the user it belongs to
  Texts,             \* message texts
  SecondWindow,      \* chatSecondWindow
  PerSecondLimit,    \* chatPerSecondLimit
  AttemptWindow,     \* chatAttemptWindow
  AttemptLimit,      \* chatAttemptLimit
  DuplicateWindow,   \* chatDuplicateWindow
  BlockDuration,     \* chatBlockDuration
  SubscriberBuffer,  \* chatSubscriberBuffer
  LogBuffer,         \* lobbyChatLogBuffer
  MaxTime,           \* bound: the clock
  MaxMessages,       \* bound: the last sequence number
  MaxRestarts        \* bound: starts of the process after the first

Users == {UserOf[s] : s \in Sessions}
Numbers == 1 .. MaxMessages
None == 0   \* no message

\* As in the code, a block outlasts the attempts that led to it.
ASSUME ChatAssumption ==
  /\ {SecondWindow, AttemptWindow, DuplicateWindow, BlockDuration} \subseteq Nat \ {0}
  /\ {PerSecondLimit, AttemptLimit, SubscriberBuffer, LogBuffer} \subseteq Nat \ {0}
  /\ AttemptWindow <= BlockDuration
  /\ IsFiniteSet(Sessions)
  /\ MaxTime \in Nat \ {0} /\ MaxMessages \in Nat /\ MaxRestarts \in Nat

VARIABLES
  now,        \* the clock of this process
  open,       \* the actor admits commands: TRUE until the application closes
  boundary,   \* the last number of the lobby's event sequence
  users,      \* chatUserState of every user
  session,    \* the three goroutines of every session and its subscription
  logs,       \* room.logs: the queue of rows, its writer, and whether it is closed
  store,      \* the numbers of the rows in the event store
  sent,       \* history: the messages this process accepted
  restarts    \* how often the process was started again

vars == <<now, open, boundary, users, session, logs, store, sent, restarts>>

\* blockedUntil 0 is the zero time; so is lastAt 0, and the clock starts at 1.
NewUser == [attempts |-> <<>>, accepted |-> <<>>, blockedUntil |-> 0,
            lastText |-> "none", lastAt |-> 0]
NoSession == [serve |-> "none", reader |-> "none", text |-> "none",
              watcher |-> "none", connected |-> FALSE, cancelled |-> FALSE,
              subscribed |-> FALSE, events |-> <<>>, seen |-> None]
NewLogs == [queue |-> <<>>, row |-> None, closed |-> FALSE]

Init ==
  /\ now = 1 /\ open = TRUE /\ boundary = 0
  /\ users = [u \in Users |-> NewUser]
  /\ session = [s \in Sessions |-> NoSession]
  /\ logs = NewLogs
  /\ store = {} /\ sent = <<>> /\ restarts = 0

Serving(s) == session[s].serve = "serving"
SessionDone(s) == session[s].serve \in {"leaving", "ended"}   \* sessionContext has ended
Processing == {s \in Sessions : session[s].reader = "processing"}
-----------------------------------------------------------------------------
(* The room *)

\* timestampsAfter: the list without its first times that are not after the
\* cutoff.
TimestampsAfter(times, cutoff) ==
  LET first == CHOOSE n \in 0 .. Len(times) :
                 /\ \A i \in 1 .. n : times[i] <= cutoff
                 /\ n < Len(times) => times[n + 1] > cutoff
  IN SubSeq(times, first + 1, Len(times))

\* Mutant: attempts made during a block count towards the next one.
Admission_CountsBlocked(state, text, at) ==
  LET attempts == Append(TimestampsAfter(state.attempts, at - AttemptWindow), at)
      observed == [state EXCEPT !.attempts = attempts]
  IN IF at < state.blockedUntil THEN [verdict |-> "blocked", state |-> observed]
     ELSE IF Len(attempts) > AttemptLimit
     THEN [verdict |-> "blocked", state |-> [observed EXCEPT !.blockedUntil = at + BlockDuration]]
     ELSE [verdict |-> "limited", state |-> observed]

\* The limits of one user, in the order Execute applies them.
Admission(state, text, at) ==
  LET attempts == Append(TimestampsAfter(state.attempts, at - AttemptWindow), at)
      accepted == TimestampsAfter(state.accepted, at - SecondWindow)
      observed == [state EXCEPT !.attempts = attempts]
  IN IF at < state.blockedUntil THEN [verdict |-> "blocked", state |-> state]
     ELSE IF Len(attempts) > AttemptLimit
     THEN [verdict |-> "blocked", state |-> [observed EXCEPT !.blockedUntil = at + BlockDuration]]
     ELSE IF text = state.lastText /\ state.lastAt # 0 /\ at - state.lastAt < DuplicateWindow
     THEN [verdict |-> "duplicate", state |-> observed]
     ELSE IF Len(accepted) >= PerSecondLimit
     THEN [verdict |-> "limited", state |-> [observed EXCEPT !.accepted = accepted]]
     ELSE [verdict |-> "accepted",
           state |-> [observed EXCEPT !.accepted = Append(accepted, at),
                                      !.lastText = text, !.lastAt = at]]

\* Mutant: a full channel loses the event and keeps its subscriber.
Publish_Skips(sessions, number) ==
  [s \in Sessions |->
     IF sessions[s].subscribed /\ Len(sessions[s].events) < SubscriberBuffer
     THEN [sessions[s] EXCEPT !.events = Append(@, number)] ELSE sessions[s]]

\* publishLocked: a subscriber whose channel is full is dropped.
Publish(sessions, number) ==
  [s \in Sessions |->
     IF ~sessions[s].subscribed THEN sessions[s]
     ELSE IF Len(sessions[s].events) < SubscriberBuffer
     THEN [sessions[s] EXCEPT !.events = Append(@, number)]
     ELSE [sessions[s] EXCEPT !.subscribed = FALSE]]

\* persistBestEffort and Enqueue: a full queue loses the row, and a closed room
\* has no queue.
Enqueue(number) ==
  IF ~logs.closed /\ Len(logs.queue) < LogBuffer
  THEN [logs EXCEPT !.queue = Append(@, number)]
  ELSE logs

\* Execute, in the actor's goroutine, and the return of Process. A closed actor
\* refuses, and so does one whose caller is cancelled before its turn.
Execute(s) ==
  /\ s \in Processing
  /\ LET user == UserOf[s]
         admission == Admission(users[user], session[s].text, now)
         number == boundary + 1
         Return(sessions, reader) == [sessions EXCEPT ![s].reader = reader, ![s].text = "none"]
     IN \/ /\ ~open \/ session[s].cancelled
           /\ session' = Return(session, "refused")
           /\ UNCHANGED <<boundary, users, logs, sent>>
        \/ /\ open /\ admission.verdict # "accepted"
           /\ users' = [users EXCEPT ![user] = admission.state]
           /\ session' = Return(session, "answered")
           /\ UNCHANGED <<boundary, logs, sent>>
        \/ /\ open /\ admission.verdict = "accepted"
           /\ users' = [users EXCEPT ![user] = admission.state]
           /\ boundary' = number
           /\ sent' = Append(sent, [user |-> user, text |-> session[s].text, at |-> now])
           /\ session' = Return(Publish(session, number), "answered")
           /\ logs' = Enqueue(number)
  /\ UNCHANGED <<now, open, store, restarts>>

\* The log writer takes a row, and its append succeeds or fails.
TakeRow ==
  /\ logs.row = None /\ logs.queue # <<>>
  /\ logs' = [logs EXCEPT !.queue = Tail(@), !.row = Head(logs.queue)]
  /\ UNCHANGED <<now, open, boundary, users, session, store, sent, restarts>>

AppendRow ==
  /\ logs.row # None
  /\ \/ logs.row \notin store /\ store' = store \union {logs.row}
     \/ UNCHANGED store
  /\ logs' = [logs EXCEPT !.row = None]
  /\ UNCHANGED <<now, open, boundary, users, session, sent, restarts>>

\* RealtimeApplication.Close: the actor first, then the room, whose queue is
\* closed and drained by the writer.
CloseActor ==
  /\ open
  /\ open' = FALSE
  /\ UNCHANGED <<now, boundary, users, session, logs, store, sent, restarts>>

CloseRoom ==
  /\ ~open /\ ~logs.closed
  /\ logs' = [logs EXCEPT !.closed = TRUE]
  /\ UNCHANGED <<now, open, boundary, users, session, store, sent, restarts>>

\* Mutant: the boundary counts the rows instead of reading the last number.
RestoredBoundary_Counts == Cardinality(store)

\* restoreLobbyChatBoundary.
RestoredBoundary == IF store = {} THEN 0 ELSE CHOOSE n \in store : \A m \in store : m <= n

\* The process ends, after Close or in a crash, and starts again.
Restart ==
  /\ restarts < MaxRestarts
  /\ restarts' = restarts + 1
  /\ boundary' = RestoredBoundary
  /\ now' = 1 /\ open' = TRUE
  /\ users' = [u \in Users |-> NewUser]
  /\ session' = [s \in Sessions |-> NoSession]
  /\ logs' = NewLogs /\ sent' = <<>>
  /\ UNCHANGED store

Tick ==
  /\ now < MaxTime
  /\ now' = now + 1
  /\ UNCHANGED <<open, boundary, users, session, logs, store, sent, restarts>>
-----------------------------------------------------------------------------
(* A session *)

Change(s, new) ==
  /\ session' = [session EXCEPT ![s] = new]
  /\ UNCHANGED <<now, open, boundary, users, logs, store, sent, restarts>>

\* serve up to its loop, for a new socket: the subscription and the two other
\* goroutines.
Serve(s) ==
  /\ \/ session[s].serve = "none"
     \/ session[s].serve = "ended" /\ session[s].reader = "stopped"
  /\ Change(s, [NoSession EXCEPT !.serve = "serving", !.reader = "reading", !.watcher = "waiting",
                                 !.connected = TRUE, !.subscribed = TRUE, !.seen = boundary])

\* The client goes away.
Disconnect(s) ==
  /\ session[s].connected
  /\ Change(s, [session[s] EXCEPT !.connected = FALSE])

\* readCommands: a command is read; a cancelled command context ends the
\* reader.
ReadCommand(s) ==
  /\ session[s].reader = "reading" /\ session[s].connected
  /\ \/ /\ session[s].cancelled
        /\ Change(s, [session[s] EXCEPT !.reader = "stopped"])
     \/ /\ ~session[s].cancelled /\ boundary + Cardinality(Processing) < MaxMessages
        /\ \E text \in Texts :
             Change(s, [session[s] EXCEPT !.reader = "processing", !.text = text])

\* The read fails with the connection or with the session's context.
ReadFails(s) ==
  /\ session[s].reader = "reading" /\ (~session[s].connected \/ SessionDone(s))
  /\ Change(s, [session[s] EXCEPT !.reader = "failed"])

\* Mutant: the reader waits for the loop, whether or not it still runs.
StopReading_NoContext(s) ==
  /\ session[s].reader \in {"answered", "refused"} /\ session[s].cancelled /\ ~SessionDone(s)
  /\ Change(s, [session[s] EXCEPT !.reader = "stopped"])

\* The reader leaves: Process returned to a cancelled context, or the session
\* ended while sendProcessedCommand waited.
StopReading(s) ==
  /\ \/ session[s].reader \in {"answered", "refused"} /\ session[s].cancelled
     \/ session[s].reader \in {"answered", "refused", "failed"} /\ SessionDone(s)
  /\ Change(s, [session[s] EXCEPT !.reader = "stopped"])

\* The watcher: a dropped subscription cancels the commands and closes the
\* connection, unless the session has ended.
Watch(s) ==
  \/ /\ session[s].watcher = "waiting" /\ ~session[s].subscribed /\ ~SessionDone(s)
     /\ Change(s, [session[s] EXCEPT !.watcher = "closing", !.cancelled = TRUE])
  \/ /\ session[s].watcher = "closing"
     /\ Change(s, [session[s] EXCEPT !.watcher = "closed", !.connected = FALSE])
  \/ /\ session[s].watcher = "waiting" /\ session[s].serve = "leaving"
     /\ Change(s, [session[s] EXCEPT !.watcher = "done"])

\* The arms of the loop's select. An event or a result is written, or the
\* write fails because the connection is gone; then a dropped session waits
\* for the watcher and every other one ends.
Leave(s, state) == Change(s, [state EXCEPT !.serve = "leaving", !.cancelled = TRUE])

WriteEvent(s) ==
  /\ Serving(s) /\ session[s].events # <<>>
  /\ LET rest == [session[s] EXCEPT !.events = Tail(@)] IN
     \/ /\ session[s].connected
        /\ Change(s, [rest EXCEPT !.seen = Head(session[s].events)])
     \/ /\ ~session[s].connected
        /\ IF session[s].subscribed THEN Leave(s, rest)
           ELSE Change(s, [rest EXCEPT !.serve = "dropping"])

\* The channel is closed and empty.
EventsEnd(s) ==
  /\ Serving(s) /\ session[s].events = <<>> /\ ~session[s].subscribed
  /\ Change(s, [session[s] EXCEPT !.serve = "dropping"])

WriteResult(s) ==
  /\ Serving(s)
  /\ LET next == [session[s] EXCEPT !.reader = "reading"] IN
     \/ /\ session[s].reader \in {"refused", "failed"}
        /\ Leave(s, [session[s] EXCEPT !.reader = "stopped"])
     \/ session[s].reader = "answered" /\ session[s].connected /\ Change(s, next)
     \/ /\ session[s].reader = "answered" /\ ~session[s].connected
        /\ IF session[s].subscribed THEN Leave(s, next)
           ELSE Change(s, [next EXCEPT !.serve = "dropping"])

\* backpressureResult, in the loop or in waitForBackpressureClose.
Backpressure(s) ==
  /\ session[s].serve \in {"serving", "dropping"} /\ session[s].watcher = "closed"
  /\ Leave(s, [session[s] EXCEPT !.watcher = "done"])

\* The session's context ends: a missed heartbeat, the end of the server.
ContextEnds(s) ==
  /\ session[s].serve \in {"serving", "dropping"}
  /\ Leave(s, session[s])

\* The deferred calls: the watcher has returned, the subscription is closed.
Finish(s) ==
  /\ session[s].serve = "leaving" /\ session[s].watcher \in {"closed", "done"}
  /\ Change(s, [session[s] EXCEPT !.serve = "ended", !.watcher = "done", !.connected = FALSE,
                                  !.subscribed = FALSE, !.events = <<>>])

ServeStep(s) ==
  WriteEvent(s) \/ EventsEnd(s) \/ WriteResult(s) \/ Backpressure(s) \/ Finish(s)
ReaderStep(s) == Execute(s) \/ ReadFails(s) \/ StopReading(s)

Next ==
  \/ \E s \in Sessions :
       \/ Serve(s) \/ Disconnect(s) \/ ContextEnds(s)
       \/ ReadCommand(s) \/ ReaderStep(s) \/ Watch(s) \/ ServeStep(s)
  \/ TakeRow \/ AppendRow
  \/ CloseActor \/ CloseRoom \/ Restart \/ Tick

Spec == Init /\ [][Next]_vars

\* The goroutines of a session run when they can; clients owe nothing.
FairSpec ==
  /\ Spec
  /\ \A s \in Sessions : WF_vars(ServeStep(s)) /\ WF_vars(ReaderStep(s)) /\ WF_vars(Watch(s))
-----------------------------------------------------------------------------
(* Properties *)

\* Types; the two channels keep to their capacity.
TypeOK ==
  /\ now \in 1 .. MaxTime /\ boundary \in 0 .. MaxMessages /\ store \subseteq Numbers
  /\ logs.row \in Numbers \union {None} /\ Len(logs.queue) <= LogBuffer
  /\ \A s \in Sessions :
       /\ session[s].serve \in {"none", "serving", "dropping", "leaving", "ended"}
       /\ session[s].reader \in {"none", "reading", "processing", "answered", "refused",
                                "failed", "stopped"}
       /\ session[s].watcher \in {"none", "waiting", "closing", "closed", "done"}
       /\ Len(session[s].events) <= SubscriberBuffer

\* What a client has seen is continued by what its channel holds, up to the
\* last message while it is subscribed: publishLocked drops a slow subscriber
\* rather than an event, so nobody sees a gap.
NobodySeesAGap ==
  \A s \in Sessions : Serving(s) =>
    /\ \A i \in DOMAIN session[s].events : session[s].events[i] = session[s].seen + i
    /\ session[s].subscribed => session[s].seen + Len(session[s].events) = boundary

\* No window of chatSecondWindow holds more than chatPerSecondLimit accepted
\* messages of a user, however its attempts are spread over its sessions.
RateLimitHolds ==
  \A i \in DOMAIN sent :
    Cardinality({j \in 1 .. i : /\ sent[j].user = sent[i].user
                               /\ sent[j].at > sent[i].at - SecondWindow}) <= PerSecondLimit

\* A user is not heard twice in a row with one text within chatDuplicateWindow,
\* also when other attempts were rejected in between.
NoEcho ==
  \A i, j \in DOMAIN sent :
    /\ i < j /\ sent[i].user = sent[j].user /\ sent[i].text = sent[j].text
    /\ \A k \in i + 1 .. j - 1 : sent[k].user # sent[i].user
    => sent[j].at - sent[i].at >= DuplicateWindow

\* A block is served once: when it is over, no attempt made before its end
\* counts towards the next one.
BlockIsServedOnce ==
  \A u \in Users : users[u].blockedUntil # 0 /\ now >= users[u].blockedUntil =>
    \A t \in {users[u].attempts[i] : i \in DOMAIN users[u].attempts} :
      t > now - AttemptWindow => t >= users[u].blockedUntil

\* A row that waits to be written never has the number of a stored one, after
\* lost rows and restarts too, so the store never refuses it for its key.
RowsAreFresh ==
  LET waiting == logs.queue \o IF logs.row = None THEN <<>> ELSE <<logs.row>> IN
  /\ \A i, j \in DOMAIN waiting : waiting[i] = waiting[j] => i = j
  /\ \A i \in DOMAIN waiting : waiting[i] \notin store /\ waiting[i] <= boundary

\* A session that the room dropped comes to its end, although it may be in the
\* middle of a write, and its reader, although it may hold a result that
\* nobody takes any more, does not stay behind.
DroppedSessionEnds ==
  \A s \in Sessions :
    session[s].serve # "none" /\ ~session[s].subscribed
      ~> /\ session[s].serve \in {"none", "ended"}
         /\ session[s].reader \in {"none", "stopped"}
=============================================================================
