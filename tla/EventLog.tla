------------------------------ MODULE EventLog ------------------------------
(***************************************************************************)
(* The events of one room on their way from a handler to the clients:      *)
(* eventTx.flush (event_tx.go), the sequence boundary                      *)
(* (room_event_sequences.go), the append-only table of the event store     *)
(* (sqlite_store.go), the retries and the final saves of match_runtime.go  *)
(* and match_presence.go, the hub with its bounded subscriptions           *)
(* (room_event_hub.go), the snapshot of a RECONNECT and the game logs read *)
(* from the table (game_logs.go).                                          *)
(*                                                                         *)
(* What an event says is left out, but for its kind. Events are named by   *)
(* the order in which handlers build them; built maps that name to the     *)
(* number the event carries and its kind. Every handler holds the registry *)
(* mutex and is an action.                                                 *)
(***************************************************************************)
EXTENDS Integers, Sequences, FiniteSets

CONSTANTS
  Subscribers,     \* connections of members that may listen to the room
  Buffer,          \* capacity of a subscription (roomEventBuffer)
  MaxEvents,       \* bound: events handlers build by themselves
  MaxMatches,      \* bound: matches started
  StoreFails,      \* whether an append may fail
  OutageJoins,     \* whether a spectator may join a match while it waits
                   \* for the store
  LastSaveFails    \* whether the save that ends a match may fail too

ASSUME EventLogAssumption ==
  /\ Buffer \in Nat \ {0} /\ MaxEvents \in Nat /\ MaxMatches \in Nat
  /\ StoreFails \in BOOLEAN /\ LastSaveFails \in BOOLEAN
  /\ OutageJoins \in BOOLEAN

StorageRetries == 3   \* len(storageRetryDelays)

VARIABLES
  log,    \* the room's event state, a record (see Log)
  subs    \* the hub: a subscription for every connection

vars == <<log, subs>>

EventID == Nat \ {0}

\* ROOM_UPDATED, which the hub keeps for new subscribers; GAME_STARTED;
\* GAME_ENDED; the other events a game log reads; and those it skips.
Kinds == {"update", "start", "end", "play", "other"}

GameLogKinds == {"start", "play", "end"}

Log ==
  [room : {"none", "lobby", "match", "closed"},   \* match: started, runtime attached
   matches : 0 .. MaxMatches,
   away : BOOLEAN,               \* no human of the match has a socket
   poisoned : BOOLEAN,           \* an append outside a match failed
   boundary : Nat,               \* last committed number
   built : Seq([number : Nat \ {0}, kind : Kinds]),
   stored : SUBSET EventID,      \* rows of the store
   storagePaused : BOOLEAN, pending : Seq(EventID),
   finishAfterSave : BOOLEAN,
   retryAttempt : 0 .. StorageRetries,
   retryDue : BOOLEAN,
   published : Seq(EventID),     \* history: everything broadcast, in order
   lastRoomUpdated : Nat]        \* the hub's cached event, 0 for none

Subscription ==
  [open : BOOLEAN, queue : Seq(EventID),   \* the channel and its contents
   cached : Nat, start : Nat,              \* history: cache sent, Len(published) then
   seen : Seq(EventID),                    \* history: events read so far
   snapshot : Nat, applied : Nat]          \* the last snapshot: its number, its events

NoSubscription ==
  [open |-> FALSE, queue |-> <<>>, cached |-> 0, start |-> 0, seen |-> <<>>,
   snapshot |-> 0, applied |-> 0]
-----------------------------------------------------------------------------
(* Building, saving and publishing *)

Numbers(l, ids) == {l.built[ids[i]].number : i \in DOMAIN ids}

\* A batch is the sequence of its events' kinds; the builders number it from
\* base + 1.
Build(l, batch, base) ==
  [l EXCEPT !.built =
     @ \o [i \in 1 .. Len(batch) |-> [number |-> base + i, kind |-> batch[i]]]]

NewIDs(l, n) == [i \in 1 .. n |-> Len(l.built) + i]

\* AppendRoomEvents: one transaction, refused when a number is taken.
Accepts(l, ids) == Numbers(l, ids) \intersect {l.built[id].number : id \in l.stored} = {}

\* The rows are stored, then CommitNext runs once for every row.
Save(l, ids) ==
  [l EXCEPT !.stored = @ \union {ids[i] : i \in DOMAIN ids}, !.boundary = @ + Len(ids)]

\* publishCommittedLocked, the hub's cache included; Deliver feeds the hub.
Publish(l, ids) ==
  LET updates == {i \in DOMAIN ids : l.built[ids[i]].kind = "update"}
      last == CHOOSE i \in updates : \A j \in updates : j <= i
  IN [l EXCEPT !.published = @ \o ids,
               !.lastRoomUpdated = IF updates = {} THEN @ ELSE ids[last]]

\* detachFinishedMatchLocked and the teardown of invalidateMatchLocked.
Detach(l) ==
  [l EXCEPT !.room = "lobby", !.away = FALSE, !.storagePaused = FALSE, !.pending = <<>>,
            !.finishAfterSave = FALSE, !.retryAttempt = 0, !.retryDue = FALSE]

\* Mutant: the pause is announced behind a batch that ends the match too.
EnterStoragePause_AlwaysAnnounces(l, ids, finish) ==
  Build([l EXCEPT !.storagePaused = TRUE, !.retryAttempt = 0, !.retryDue = TRUE,
                  !.finishAfterSave = finish, !.pending = Append(ids, Len(l.built) + 1)],
        <<"play">>, l.boundary + Len(ids))

\* enterStoragePauseLocked keeps the batch and stages GAME_PAUSED behind it,
\* except behind a batch that ends the match.
EnterStoragePause(l, ids, finish) ==
  LET paused == [l EXCEPT !.storagePaused = TRUE, !.retryAttempt = 0, !.retryDue = TRUE,
                          !.finishAfterSave = finish]
  IN IF finish THEN [paused EXCEPT !.pending = ids]
     ELSE Build([paused EXCEPT !.pending = Append(ids, Len(l.built) + 1)],
                <<"play">>, l.boundary + Len(ids))

\* Mutant: the batch is broadcast although the append failed.
Flush_PublishesFirst(l, batch, finish) ==
  LET ids == NewIDs(l, Len(batch))
      b == Publish(Build(l, batch, l.boundary), ids)
      done == Save(b, ids)
  IN {IF finish THEN Detach(done) ELSE done}
     \union (IF StoreFails
             THEN {IF l.room = "match" THEN EnterStoragePause(b, ids, finish)
                   ELSE [b EXCEPT !.poisoned = TRUE]}
             ELSE {})

\* eventTx.flush of a batch: saved, committed and published, or nothing of
\* it is; a failure pauses a match and poisons a room without one.
Flush(l, batch, finish) ==
  LET ids == NewIDs(l, Len(batch))
      b == Build(l, batch, l.boundary)
      done == Publish(Save(b, ids), ids)
  IN (IF Accepts(b, ids) THEN {IF finish THEN Detach(done) ELSE done} ELSE {})
     \union (IF StoreFails \/ ~Accepts(b, ids)
             THEN {IF l.room = "match" THEN EnterStoragePause(b, ids, finish)
                   ELSE [b EXCEPT !.poisoned = TRUE]}
             ELSE {})

\* The save that ends a match: the pending batch and two more events are
\* stored if possible and published in any case.
SaveTerminal(l) ==
  LET ids == l.pending \o NewIDs(l, 2)
      b == Build(l, <<"end", "update">>, l.boundary + Len(l.pending))
  IN (IF Accepts(b, ids) THEN {Publish(Save(b, ids), ids)} ELSE {})
     \union (IF LastSaveFails \/ ~Accepts(b, ids) THEN {Publish(b, ids)} ELSE {})

\* invalidateMatchLocked returns to the waiting room.
InvalidateMatch(l) == {Detach(t) : t \in SaveTerminal(l)}

\* terminateDisconnectedMatchLocked closes the room and forgets its boundary.
TerminateDisconnectedMatch(l) ==
  {[Detach(t) EXCEPT !.room = "closed", !.boundary = 0] : t \in SaveTerminal(l)}
-----------------------------------------------------------------------------
(* The hub *)

\* Mutant: an event that does not fit is skipped and the stream goes on.
Deliver_SkipsOverflow(sub, ids) ==
  LET free == Buffer - Len(sub.queue) IN
  IF ~sub.open THEN sub
  ELSE [sub EXCEPT !.queue = @ \o SubSeq(ids, 1, IF Len(ids) <= free THEN Len(ids) ELSE free)]

\* deliverLocked for a batch: what fits is queued; the first event that does
\* not closes the subscription.
Deliver(sub, ids) ==
  LET free == Buffer - Len(sub.queue) IN
  IF ~sub.open THEN sub
  ELSE IF Len(ids) <= free THEN [sub EXCEPT !.queue = @ \o ids]
  ELSE [sub EXCEPT !.open = FALSE, !.queue = @ \o SubSeq(ids, 1, free)]

\* A handler leaves the log in newLog; the hub gets what it published.
Commit(newLog) ==
  /\ log' = newLog
  /\ subs' = [s \in Subscribers |->
       Deliver(subs[s], SubSeq(newLog.published, Len(log.published) + 1, Len(newLog.published)))]
-----------------------------------------------------------------------------
(* Actions *)

Init ==
  /\ log = [room |-> "none", matches |-> 0, away |-> FALSE, poisoned |-> FALSE,
            boundary |-> 0, built |-> <<>>, stored |-> {},
            storagePaused |-> FALSE, pending |-> <<>>, finishAfterSave |-> FALSE,
            retryAttempt |-> 0, retryDue |-> FALSE, published |-> <<>>,
            lastRoomUpdated |-> 0]
  /\ subs = [s \in Subscribers |-> NoSubscription]

Usable == ~log.poisoned /\ ~log.storagePaused

\* Bounds: what handlers build by themselves, and the GAME_RESUMED markers an
\* unlucky recovery may add (a store that fails between the two appends of
\* every retry would add one each time).
Fits(n) == Len(log.built) + n <= MaxEvents

MarkerFits == Len(log.built) <= MaxEvents + 1

Create ==
  /\ log.room = "none"
  /\ \E l \in Flush([log EXCEPT !.room = "lobby"], <<"update">>, FALSE) : Commit(l)

\* A lobby command that passed guardLobbyMutation; a kick adds PLAYER_KICKED.
LobbyChange ==
  /\ log.room = "lobby" /\ Usable
  /\ \E batch \in {<<"update">>, <<"other", "update">>} :
       Fits(Len(batch)) /\ \E l \in Flush(log, batch, FALSE) : Commit(l)

\* LeaveRoom of the last human deletes the room without an event.
LastHumanLeaves ==
  /\ log.room = "lobby" /\ Usable
  /\ Commit([log EXCEPT !.room = "closed"])

StartMatch ==
  /\ log.room = "lobby" /\ Usable /\ log.matches < MaxMatches /\ Fits(2)
  /\ \E l \in Flush([log EXCEPT !.room = "match", !.matches = @ + 1],
                    <<"update", "start">>, FALSE) : Commit(l)

\* Any match handler that goes on: commands, timeouts, presence, CPU steps.
MatchChange ==
  /\ log.room = "match" /\ Usable
  /\ \E n \in 1 .. 2, away \in BOOLEAN :
       /\ Fits(n)
       /\ \E l \in Flush([log EXCEPT !.away = away], [i \in 1 .. n |-> "play"], FALSE) :
            Commit(l)

\* Join of a spectator into a match asks only whether the room is poisoned; in
\* an outage its ROOM_UPDATED takes the first pending number, or a failed
\* append drops the pending batch.
SpectatorJoins ==
  /\ log.room = "match" /\ ~log.poisoned /\ Fits(1)
  /\ log.storagePaused => OutageJoins
  /\ \E l \in Flush(log, <<"update">>, FALSE) : Commit(l)

\* finishMatchLocked: GAME_ENDED and the return to the waiting room.
FinishMatch ==
  /\ log.room = "match" /\ Usable /\ Fits(2)
  /\ \E l \in Flush(log, <<"end", "update">>, TRUE) : Commit(l)

\* What a presence change emits in an outage: PLAYER_(DIS)RECONNECTED, and
\* GAME_RESUMED when the host leaves a paused match (not one that has ended).
PresenceBatches(l) ==
  {<<"other">>} \union (IF l.finishAfterSave THEN {} ELSE {<<"other", "play">>})

\* Mutant: deferred events are numbered from the boundary.
DeferPresence_AtBoundary ==
  /\ log.room = "match" /\ log.storagePaused
  /\ \E away \in BOOLEAN, batch \in PresenceBatches(log) :
       LET restart == ~away /\ ~log.retryDue IN
       /\ Fits(Len(batch))
       /\ Commit(Build([log EXCEPT !.away = away,
                                   !.pending = @ \o NewIDs(log, Len(batch)),
                                   !.retryDue = @ \/ restart,
                                   !.retryAttempt = IF restart THEN 0 ELSE @],
                       batch, log.boundary))

\* appendDeferredPresenceEventsLocked: during an outage presence events join
\* the pending batch; somebody's return restarts exhausted retries.
DeferPresence ==
  /\ log.room = "match" /\ log.storagePaused
  /\ \E away \in BOOLEAN, batch \in PresenceBatches(log) :
       LET restart == ~away /\ ~log.retryDue IN
       /\ Fits(Len(batch))
       /\ Commit(Build([log EXCEPT !.away = away,
                                   !.pending = @ \o NewIDs(log, Len(batch)),
                                   !.retryDue = @ \/ restart,
                                   !.retryAttempt = IF restart THEN 0 ELSE @],
                       batch, log.boundary + Len(log.pending)))

\* fireStorageRetry when the append fails: the next retry, the watchdog's
\* turn, or the end of the match.
RetryFails ==
  /\ log.retryDue /\ (StoreFails \/ ~Accepts(log, log.pending))
  /\ LET failed == [log EXCEPT !.retryAttempt = @ + 1, !.retryDue = FALSE] IN
     IF failed.retryAttempt < StorageRetries
     THEN Commit([failed EXCEPT !.retryDue = TRUE])
     ELSE IF log.away THEN Commit(failed)
     ELSE \E l \in InvalidateMatch(failed) : Commit(l)

\* The rest of fireStorageRetry: GAME_RESUMED is an append of its own; if the
\* store fails again the marker alone is pending.
Resume(l) ==
  LET marker == NewIDs(l, 1)
      b == Build(l, <<"play">>, l.boundary)
  IN {[Publish(Save(b, marker), marker) EXCEPT !.storagePaused = FALSE, !.pending = <<>>,
                                              !.retryAttempt = 0]}
     \union (IF StoreFails
             THEN {[b EXCEPT !.pending = marker, !.retryAttempt = 0, !.retryDue = TRUE]}
             ELSE {})

\* Mutant: the batch that was saved late is not broadcast.
RetrySucceeds_Silent ==
  /\ log.retryDue /\ Accepts(log, log.pending)
  /\ LET saved == [Save(log, log.pending) EXCEPT !.retryDue = FALSE] IN
     IF log.finishAfterSave THEN Commit(Detach(saved))
     ELSE MarkerFits /\ \E l \in Resume(saved) : Commit(l)

\* fireStorageRetry when the append succeeds. A recovered match may go on at
\* once: the CPU takes the turn, or a host pause that is over ends.
RetrySucceeds ==
  /\ log.retryDue /\ Accepts(log, log.pending)
  /\ LET saved == [Publish(Save(log, log.pending), log.pending) EXCEPT !.retryDue = FALSE] IN
     IF log.finishAfterSave THEN Commit(Detach(saved))
     ELSE /\ MarkerFits
          /\ \E l \in Resume(saved) :
               \/ Commit(l)
               \/ /\ ~l.storagePaused /\ Fits(3)
                  /\ \E t \in Flush(l, <<"play">>, FALSE) : Commit(t)

\* fireAllDisconnectedExpiry, outage or not.
PresenceExpires ==
  /\ log.room = "match" /\ log.away
  /\ \E l \in TerminateDisconnectedMatch(log) : Commit(l)

\* SubscribeEvents, at the start of a session: the cached ROOM_UPDATED of the
\* user's room comes first.
Subscribe(s) ==
  /\ subs[s] = NoSubscription /\ log.room # "closed"
  /\ subs' = [subs EXCEPT ![s] =
       [NoSubscription EXCEPT
          !.open = TRUE, !.cached = log.lastRoomUpdated, !.start = Len(log.published),
          !.queue = IF log.lastRoomUpdated = 0 THEN <<>> ELSE <<log.lastRoomUpdated>>]]
  /\ UNCHANGED log

\* The session reads the channel, and drains what is left of a closed one.
Receive(s) ==
  /\ subs[s].queue # <<>>
  /\ subs' = [subs EXCEPT ![s].queue = Tail(@), ![s].seen = Append(@, Head(subs[s].queue))]
  /\ UNCHANGED log

\* The session ends.
Unsubscribe(s) ==
  /\ subs[s] # NoSubscription
  /\ subs' = [subs EXCEPT ![s] = NoSubscription]
  /\ UNCHANGED log

\* Mutant: the snapshot takes the number of the next event.
ReconnectBundle_NextNumber(s) ==
  /\ subs[s].open /\ log.room = "match" /\ ~log.poisoned
  /\ subs' = [subs EXCEPT ![s].snapshot = log.boundary + 1, ![s].applied = Len(log.built)]
  /\ UNCHANGED log

\* ReconnectBundle for a session's RECONNECT: the memory reflects every event
\* built so far, the snapshot carries the committed boundary.
ReconnectBundle(s) ==
  /\ subs[s].open /\ log.room = "match" /\ ~log.poisoned
  /\ subs' = [subs EXCEPT ![s].snapshot = log.boundary, ![s].applied = Len(log.built)]
  /\ UNCHANGED log

Next ==
  \/ Create
  \/ LobbyChange
  \/ LastHumanLeaves
  \/ StartMatch
  \/ MatchChange
  \/ SpectatorJoins
  \/ FinishMatch
  \/ DeferPresence
  \/ RetryFails
  \/ RetrySucceeds
  \/ PresenceExpires
  \/ \E s \in Subscribers : Subscribe(s)
  \/ \E s \in Subscribers : Receive(s)
  \/ \E s \in Subscribers : Unsubscribe(s)
  \/ \E s \in Subscribers : ReconnectBundle(s)

Spec == Init /\ [][Next]_vars
-----------------------------------------------------------------------------
(* Game logs *)

\* The match an event belongs to: the number of GAME_STARTED built so far.
MatchOf(l, id) == Cardinality({j \in 1 .. id : l.built[j].kind = "start"})

\* The rows deriveGameLogs reads of a match; it scans them by number.
GameRows(l, match) ==
  {id \in l.stored : l.built[id].kind \in GameLogKinds /\ MatchOf(l, id) = match}

\* deriveGameLogs refuses the whole room when a match does not begin with its
\* only GAME_STARTED or has a row behind its GAME_ENDED.
DeriveGameLog(l, match) ==
  LET rows == GameRows(l, match)
      Kind(id) == l.built[id].kind
      Before(a, b) == l.built[a].number < l.built[b].number
  IN /\ \A id \in rows : Kind(id) = "start" <=> \A other \in rows \ {id} : Before(id, other)
     /\ \A id \in rows : Kind(id) = "end" => ~\E other \in rows : Before(id, other)
-----------------------------------------------------------------------------
(* Properties *)

\* Type correctness of the log and the subscriptions.
TypeOK ==
  /\ log \in Log
  /\ subs \in [Subscribers -> Subscription]

\* The store is a gapless log that ends at the boundary: every number up to
\* the boundary is stored exactly once, through outages, flaps and matches
\* ended without a save. ReadRoomEventsAfter then always yields a
\* contiguous tail, and no append ever meets a number that is taken.
StoreIsGapless ==
  log.room \notin {"none", "closed"} =>
    /\ {log.built[id].number : id \in log.stored} = 1 .. log.boundary
    /\ Cardinality(log.stored) = log.boundary

\* What waits for the store carries the numbers it will be committed under,
\* in order, although markers and deferred events were staged one by one and
\* the boundary moved in between.
PendingContinuesLog ==
  \A i \in DOMAIN log.pending : log.built[log.pending[i]].number = log.boundary + i

\* Stored and pending rows are one sequence without a gap: the store holds
\* 1 .. boundary and the pending batch goes on from there, whatever was
\* retried, deferred, half recovered or given up on the way.
LogIsContiguous == StoreIsGapless /\ PendingContinuesLog

\* An event is broadcast only after it is stored: only the events published
\* when a match ends without a save are exempt, so none without LastSaveFails.
StoredBeforePublished ==
  \A i \in DOMAIN log.published : log.published[i] \in log.stored

\* A subscription misses nothing: what was read and what is queued is the
\* cached ROOM_UPDATED and then every event broadcast since, up to the event
\* at which the subscription was closed.
SubscriberMissesNothing ==
  \A s \in Subscribers :
    LET cache == IF subs[s].cached = 0 THEN <<>> ELSE <<subs[s].cached>>
        got == subs[s].seen \o subs[s].queue
        sent == cache \o SubSeq(log.published, subs[s].start + 1, Len(log.published))
    IN /\ Len(got) <= Len(sent) /\ got = SubSeq(sent, 1, Len(got))
       /\ subs[s].open => got = sent

\* A session that applies its snapshot and then only the live events with a
\* higher number loses nothing: every event broadcast so far is part of the
\* snapshot's state or is one of those, also when the snapshot was taken in
\* an outage or events were already waiting in the channel.
SnapshotMeetsStream ==
  \A s \in Subscribers :
    LET got == subs[s].seen \o subs[s].queue
        later == {got[i] : i \in {k \in DOMAIN got : log.built[got[k]].number > subs[s].snapshot}}
    IN subs[s].open /\ subs[s].snapshot > 0 =>
         \A i \in DOMAIN log.published :
           log.published[i] \in 1 .. subs[s].applied \union later

\* The stored rows of a room always yield its game logs, whatever was pending,
\* deferred, retried or abandoned in between. The exception is a match stored
\* with two GAME_ENDED, because the first was still pending when the retries
\* ran out or everybody left and the last save added its own; even then one
\* of the two is all that is in the way.
GameLogsAreReadable ==
  \A match \in 1 .. log.matches :
    LET ends == {id \in GameRows(log, match) : log.built[id].kind = "end"} IN
    \/ DeriveGameLog(log, match)
    \/ /\ Cardinality(ends) = 2
       /\ \E id \in ends : DeriveGameLog([log EXCEPT !.stored = @ \ {id}], match)

Stream == INSTANCE RoomStream
            WITH stream <- [i \in DOMAIN log.published |-> log.built[log.published[i]].number]

\* The protocol keeps the promise of RoomStream, outages, flaps and deferred
\* events included.
KeepsStream == Stream!Spec
-----------------------------------------------------------------------------
(* What the documents say and the code does not do *)

\* match_runtime.go: a store that works never refuses the pending batch.
WorkingStoreAccepts == Accepts(log, log.pending)

\* docs/06: a snapshot holds the state up to its sequence, no more.
SnapshotIsAtItsBoundary ==
  \A s \in Subscribers : \A id \in 1 .. subs[s].applied :
    log.built[id].number <= subs[s].snapshot
=============================================================================
