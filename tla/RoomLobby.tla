------------------------------ MODULE RoomLobby ------------------------------
(***************************************************************************)
(* One room outside its match: the operations of RoomRegistry on           *)
(* membership, teams, ready states, CPU seats, kicks and the host          *)
(* (room_registry.go), the lobby they change (domain/room/lobby.go), both  *)
(* ways to start a match (room_start_flow.go), the start confirmation      *)
(* (domain/room/start_confirmation.go) and the return from a match.        *)
(*                                                                         *)
(* Every operation is one critical section of the registry mutex. An       *)
(* operation that is rejected changes nothing and is no step. Every change *)
(* is saved; a failed save fences the room (poisoned), but not the change. *)
(* The match itself is MatchRuntime's; here it only begins and ends. The   *)
(* room's password and title are left out.                                 *)
(***************************************************************************)
EXTENDS Integers, FiniteSets

CONSTANTS
  Users,                    \* people, who are players, spectators or neither
  Creator,                  \* the user who creates the room
  MaxPlayers,               \* settings.MaxPlayers
  CombinedMemberCapacity,   \* combinedMemberCapacity
  MaxCpus,                  \* bound: CPU players ever added
  MaxAttempts,              \* bound: start confirmations
  MaxMatches                \* bound: matches

Cpus == 1 .. MaxCpus   \* "cpu-1", "cpu-2", ...
PlayerIDs == Users \union Cpus
Teams == {"A", "B"}
Attempts == 1 .. MaxAttempts
NoHost == "no host"

ASSUME LobbyAssumption ==
  /\ Creator \in Users
  /\ Users \intersect Cpus = {} /\ NoHost \notin Users
  /\ MaxPlayers \in Nat \ {0} /\ CombinedMemberCapacity \in Nat \ {0}
  /\ {MaxCpus, MaxAttempts, MaxMatches} \subseteq Nat

VARIABLES
  exists,         \* the room: "no", "yes", "deleted"
  players,        \* player id -> team ("none" when absent) and ready state
  spectators,     \* users who watch
  host,           \* the room's owner
  cpuSequence,    \* entry.cpuSequence
  confirmation,   \* the open start confirmation
  started,        \* entry.started, with its runtime
  roomStatus,     \* entry.roomStatus
  poisoned,       \* entry.poisoned
  timers,         \* attempt -> the callback its timer scheduled
  matches,        \* matches started
  hostExpelled    \* history: a failed start expelled the host, who has not come back

vars == <<exists, players, spectators, host, cpuSequence, confirmation, started, roomStatus,
          poisoned, timers, matches, hostExpelled>>
membership == <<players, spectators, host, cpuSequence, hostExpelled>>
startState == <<confirmation, started, roomStatus, timers, matches>>

Absent == [team |-> "none", ready |-> FALSE]
NoConfirmation == [attempt |-> 0, pending |-> {}, roster |-> {}, due |-> FALSE]

Present == {id \in PlayerIDs : players[id].team # "none"}
HumanPlayers == Present \intersect Users
OnTeam(team) == {id \in PlayerIDs : players[id].team = team}
Confirming == confirmation # NoConfirmation

Init ==
  /\ exists = "no"
  /\ players = [id \in PlayerIDs |-> Absent]
  /\ spectators = {} /\ host = NoHost /\ cpuSequence = 0
  /\ confirmation = NoConfirmation
  /\ started = FALSE /\ roomStatus = "lobby" /\ poisoned = FALSE
  /\ timers = [n \in Attempts |-> "none"]
  /\ matches = 0 /\ hostExpelled = FALSE
-----------------------------------------------------------------------------
(* Membership *)

\* flush of a transaction of a room without a match.
Flush == poisoned' \in {poisoned, TRUE}

GuardLobbyMutation == exists = "yes" /\ ~poisoned /\ ~started /\ ~Confirming

Seat(id, team, ready) == players' = [players EXCEPT ![id] = [team |-> team, ready |-> ready]]
Unseat(ids) == players' = [id \in PlayerIDs |-> IF id \in ids THEN Absent ELSE players[id]]

Create(team) ==
  /\ exists = "no"
  /\ exists' = "yes" /\ host' = Creator
  /\ Seat(Creator, team, FALSE)
  /\ Flush
  /\ UNCHANGED <<spectators, cpuSequence, hostExpelled, startState>>

\* The combined limit of Join.
HasRoom == Cardinality(Present) + Cardinality(spectators) < CombinedMemberCapacity

JoinAsPlayer(user, team) ==
  /\ GuardLobbyMutation
  /\ user \notin spectators /\ user \notin Present
  /\ HasRoom /\ Cardinality(Present) < MaxPlayers
  /\ Seat(user, team, FALSE)
  /\ hostExpelled' = (hostExpelled /\ user # host)
  /\ Flush
  /\ UNCHANGED <<exists, spectators, host, cpuSequence, startState>>

\* A spectator may also enter a running match, whose store failures are the
\* match's (see EventLog).
JoinAsSpectator(user) ==
  /\ exists = "yes" /\ ~poisoned /\ (started \/ ~Confirming)
  /\ user \notin spectators /\ user \notin Present
  /\ HasRoom
  /\ spectators' = spectators \union {user}
  /\ IF started THEN UNCHANGED poisoned ELSE Flush
  /\ UNCHANGED <<exists, players, host, cpuSequence, hostExpelled, startState>>

ChangeTeam(user, team) ==
  /\ GuardLobbyMutation
  /\ user \in Present /\ (players[user].team = team \/ ~players[user].ready)
  /\ Seat(user, team, players[user].ready)
  /\ Flush
  /\ UNCHANGED <<exists, spectators, host, cpuSequence, hostExpelled, startState>>

SetReady(user, ready) ==
  /\ GuardLobbyMutation
  /\ user \in Present
  /\ Seat(user, players[user].team, ready)
  /\ Flush
  /\ UNCHANGED <<exists, spectators, host, cpuSequence, hostExpelled, startState>>

\* The number is taken before the lobby turns out to be full.
AddCPUPlayer(user, team) ==
  /\ GuardLobbyMutation
  /\ host = user /\ cpuSequence < MaxCpus
  /\ cpuSequence' = cpuSequence + 1
  /\ \/ /\ Cardinality(Present) < MaxPlayers
        /\ Seat(cpuSequence + 1, team, TRUE)
        /\ Flush
     \/ Cardinality(Present) >= MaxPlayers /\ UNCHANGED <<players, poisoned>>
  /\ UNCHANGED <<exists, spectators, host, hostExpelled, startState>>

RemoveCPUPlayer(user, cpu) ==
  /\ GuardLobbyMutation
  /\ host = user /\ cpu \in Present
  /\ Unseat({cpu})
  /\ Flush
  /\ UNCHANGED <<exists, spectators, host, cpuSequence, hostExpelled, startState>>

\* Mutant: anybody in the room may be the next host.
ChooseReplacementLobbyHost_Anyone(leaving) == (Present \union spectators) \ {leaving}

\* chooseReplacementLobbyHostLocked: the candidates.
ChooseReplacementLobbyHost(leaving) == HumanPlayers \ {leaving}

\* A room without human players is deleted, whoever still watches.
LeaveRoom(user) ==
  /\ GuardLobbyMutation
  /\ \/ /\ user \in spectators
        /\ spectators' = spectators \ {user}
        /\ UNCHANGED <<players, host>>
     \/ /\ user \in HumanPlayers
        /\ Unseat({user})
        /\ IF host = user /\ ChooseReplacementLobbyHost(user) # {}
           THEN host' \in ChooseReplacementLobbyHost(user) ELSE UNCHANGED host
        /\ UNCHANGED spectators
  /\ IF HumanPlayers \ {user} = {} THEN exists' = "deleted" /\ UNCHANGED poisoned
     ELSE UNCHANGED exists /\ Flush
  /\ UNCHANGED <<cpuSequence, hostExpelled, startState>>

KickPlayer(user, target) ==
  /\ GuardLobbyMutation
  /\ host = user /\ target # user /\ target \in HumanPlayers
  /\ Unseat({target})
  /\ Flush
  /\ UNCHANGED <<exists, spectators, host, cpuSequence, hostExpelled, startState>>
-----------------------------------------------------------------------------
(* Starting a match *)

\* Mutant: teams need not be of one size.
ValidateStart_AnyTeams ==
  /\ Cardinality(Present) >= 2
  /\ \A id \in HumanPlayers : players[id].ready

ValidateStart ==
  /\ Cardinality(Present) >= 2
  /\ OnTeam("A") # {} /\ Cardinality(OnTeam("A")) = Cardinality(OnTeam("B"))
  /\ \A id \in HumanPlayers : players[id].ready

\* What both ways to start ask first.
GuardStart(user) == exists = "yes" /\ ~poisoned /\ host = user /\ ~started /\ ~Confirming

\* startMatchBroadcastsLocked; a failed save pauses the match (see EventLog).
BeginMatch ==
  /\ matches < MaxMatches
  /\ matches' = matches + 1
  /\ started' = TRUE /\ roomStatus' = "in_match"
  /\ UNCHANGED <<exists, players, spectators, host, cpuSequence, hostExpelled, poisoned>>

StartImmediately(user) ==
  /\ GuardStart(user) /\ ValidateStart
  /\ BeginMatch
  /\ UNCHANGED <<confirmation, timers>>

\* RequestStart, the confirmation lifecycle for direct callers.
RequestStart(user) ==
  /\ GuardStart(user) /\ ValidateStart
  /\ \E n \in Attempts :
       /\ timers[n] = "none" /\ \A m \in 1 .. n - 1 : timers[m] # "none"
       /\ confirmation' = [attempt |-> n, pending |-> HumanPlayers, roster |-> Present,
                           due |-> FALSE]
       /\ timers' = [timers EXCEPT ![n] = "armed"]
  /\ roomStatus' = "starting"
  /\ Flush
  /\ UNCHANGED <<exists, started, matches, membership>>

\* stopExpiryTimer of the open attempt while callback n returns (0: no callback
\* runs). A callback that waits for the mutex, or that has armed a timer of its
\* own, is not stopped.
StopExpiryTimer(n) ==
  \E stopped \in BOOLEAN :
    timers' = [m \in Attempts |->
                 IF m = n \/ (stopped /\ m = confirmation.attempt /\ timers[m] = "armed")
                 THEN "over" ELSE timers[m]]

\* resetReadyStatesLocked: CPU players stay ready.
ResetReadyStates(kept) ==
  [id \in PlayerIDs |-> IF id \in kept THEN [players[id] EXCEPT !.ready = id \in Cpus] ELSE Absent]

\* compensateFailedStartLocked: everybody confirmed and the match could not be
\* assembled.
CompensateFailedStart ==
  /\ StopExpiryTimer(0)
  /\ confirmation' = NoConfirmation /\ roomStatus' = "lobby"
  /\ players' = ResetReadyStates(Present)
  /\ Flush
  /\ UNCHANGED <<exists, spectators, host, cpuSequence, hostExpelled, started, matches>>

\* ConfirmStart: an answer for the open attempt, before its deadline. It does
\* not ask whether the room is fenced.
ConfirmStart(user, attempt) ==
  /\ exists = "yes" /\ Confirming /\ ~started
  /\ confirmation.attempt = attempt /\ ~confirmation.due /\ user \in confirmation.pending
  /\ \/ /\ confirmation.pending # {user}
        /\ confirmation' = [confirmation EXCEPT !.pending = @ \ {user}]
        /\ UNCHANGED <<exists, poisoned, started, roomStatus, timers, matches, membership>>
     \/ /\ confirmation.pending = {user}
        /\ BeginMatch /\ StopExpiryTimer(0)
        /\ confirmation' = [confirmation EXCEPT !.pending = {}]
     \/ confirmation.pending = {user} /\ CompensateFailedStart

\* MarkDisconnected: the last socket of a player closes while the confirmation
\* is open.
MarkDisconnected(user) ==
  /\ exists = "yes" /\ ~poisoned /\ Confirming /\ ~started
  /\ user \in confirmation.roster \intersect Users
  /\ confirmation' = [confirmation EXCEPT !.pending = @ \union {user}]
  /\ UNCHANGED <<exists, poisoned, started, roomStatus, timers, matches, membership>>

\* Time: the deadline of the open attempt passes.
DeadlinePasses ==
  /\ Confirming /\ ~started /\ ~confirmation.due
  /\ confirmation' = [confirmation EXCEPT !.due = TRUE]
  /\ UNCHANGED <<exists, poisoned, started, roomStatus, timers, matches, membership>>

Pending == exists = "yes" /\ Confirming /\ confirmation.pending # {}

\* Mutant: a timer that runs too early is not armed again.
AwaitDeadlineAndExpire_Once(n) ==
  /\ timers[n] = "armed"
  /\ timers' = [timers EXCEPT ![n] = IF Pending /\ confirmation.due THEN "expiring" ELSE "over"]
  /\ UNCHANGED <<exists, poisoned, confirmation, started, roomStatus, matches, membership>>

\* awaitDeadlineAndExpire: the callback knows the room, not the attempt. It
\* arms itself again while the deadline is ahead.
AwaitDeadlineAndExpire(n) ==
  /\ timers[n] = "armed"
  /\ timers' = [timers EXCEPT ![n] = CASE ~Pending -> "over"
                                       [] Pending /\ confirmation.due -> "expiring"
                                       [] OTHER -> "armed"]
  /\ UNCHANGED <<exists, poisoned, confirmation, started, roomStatus, matches, membership>>

\* Mutant: the deadline is not looked at again under the second lock.
ExpireStartConfirmation_NoRecheck(n) ==
  /\ timers[n] = "expiring"
  /\ IF Pending /\ ~poisoned
     THEN /\ players' = ResetReadyStates(Present \ confirmation.pending)
          /\ hostExpelled' = (hostExpelled \/ host \in confirmation.pending)
          /\ confirmation' = NoConfirmation /\ roomStatus' = "lobby"
          /\ StopExpiryTimer(n)
          /\ Flush
     ELSE /\ timers' = [timers EXCEPT ![n] = "over"]
          /\ UNCHANGED <<players, hostExpelled, confirmation, roomStatus, poisoned>>
  /\ UNCHANGED <<exists, spectators, host, cpuSequence, started, matches>>

\* ExpireStartConfirmation and FailStartConfirmation: those who did not answer
\* leave the lobby, the host included, and nobody is ready any more.
ExpireStartConfirmation(n) ==
  /\ timers[n] = "expiring"
  /\ IF Pending /\ ~poisoned /\ confirmation.due
     THEN /\ players' = ResetReadyStates(Present \ confirmation.pending)
          /\ hostExpelled' = (hostExpelled \/ host \in confirmation.pending)
          /\ confirmation' = NoConfirmation /\ roomStatus' = "lobby"
          /\ StopExpiryTimer(n)
          /\ Flush
     ELSE /\ timers' = [timers EXCEPT ![n] = "over"]
          /\ UNCHANGED <<players, hostExpelled, confirmation, roomStatus, poisoned>>
  /\ UNCHANGED <<exists, spectators, host, cpuSequence, started, matches>>
-----------------------------------------------------------------------------
(* The end of a match *)

\* Mutant: whoever was ready before the match is ready after it.
FinishMatch_KeepsReady ==
  /\ exists = "yes" /\ ~poisoned /\ started /\ roomStatus = "in_match"
  /\ confirmation' = NoConfirmation /\ roomStatus' = "post_match"
  /\ started' \in BOOLEAN
  /\ UNCHANGED <<exists, players, spectators, host, cpuSequence, hostExpelled, timers, matches,
                 poisoned>>

\* finishMatchLocked: the match is detached with its last save, or later when
\* that save is retried.
FinishMatch ==
  /\ exists = "yes" /\ ~poisoned /\ started /\ roomStatus = "in_match"
  /\ confirmation' = NoConfirmation /\ roomStatus' = "post_match"
  /\ players' = ResetReadyStates(Present)
  /\ started' \in BOOLEAN
  /\ UNCHANGED <<exists, spectators, host, cpuSequence, hostExpelled, timers, matches, poisoned>>

\* detachFinishedMatchLocked after a retry, or the end of invalidateMatchLocked.
DetachMatch ==
  /\ exists = "yes" /\ ~poisoned /\ started
  /\ confirmation' = NoConfirmation /\ roomStatus' = "post_match" /\ started' = FALSE
  /\ players' = ResetReadyStates(Present)
  /\ UNCHANGED <<exists, spectators, host, cpuSequence, hostExpelled, timers, matches, poisoned>>

\* terminateDisconnectedMatchLocked: the room goes with its match.
TerminateMatch ==
  /\ exists = "yes" /\ ~poisoned /\ started
  /\ exists' = "deleted"
  /\ UNCHANGED <<poisoned, startState, membership>>

UserStep(user) ==
  \/ \E team \in Teams : JoinAsPlayer(user, team) \/ ChangeTeam(user, team)
                         \/ AddCPUPlayer(user, team)
  \/ JoinAsSpectator(user) \/ LeaveRoom(user)
  \/ \E ready \in BOOLEAN : SetReady(user, ready)
  \/ \E cpu \in Cpus : RemoveCPUPlayer(user, cpu)
  \/ \E target \in Users : KickPlayer(user, target)
  \/ StartImmediately(user) \/ RequestStart(user)
  \/ \E n \in Attempts : ConfirmStart(user, n)
  \/ MarkDisconnected(user)

Next ==
  \/ \E team \in Teams : Create(team)
  \/ \E user \in Users : UserStep(user)
  \/ DeadlinePasses
  \/ \E n \in Attempts : AwaitDeadlineAndExpire(n) \/ ExpireStartConfirmation(n)
  \/ FinishMatch \/ DetachMatch \/ TerminateMatch

Spec == Init /\ [][Next]_vars

\* Time passes and due timers run; users and matches owe nothing.
FairSpec ==
  /\ Spec
  /\ WF_vars(DeadlinePasses)
  /\ \A n \in Attempts : WF_vars(AwaitDeadlineAndExpire(n)) /\ WF_vars(ExpireStartConfirmation(n))
-----------------------------------------------------------------------------
(* Properties *)

\* Every variable has its type; only players of the lobby are asked to confirm,
\* and no CPU has a number that cpuSequence has not reached.
TypeOK ==
  /\ exists \in {"no", "yes", "deleted"}
  /\ players \in [PlayerIDs -> [team : Teams \union {"none"}, ready : BOOLEAN]]
  /\ spectators \subseteq Users \ Present
  /\ host \in Users \union {NoHost}
  /\ cpuSequence \in 0 .. MaxCpus /\ \A cpu \in Present \intersect Cpus : cpu <= cpuSequence
  /\ confirmation.attempt \in 0 .. MaxAttempts
  /\ confirmation.pending \subseteq confirmation.roster \intersect Users
  /\ confirmation.roster \subseteq PlayerIDs /\ confirmation.due \in BOOLEAN
  /\ started \in BOOLEAN /\ poisoned \in BOOLEAN /\ hostExpelled \in BOOLEAN
  /\ roomStatus \in {"lobby", "starting", "in_match", "post_match"}
  /\ timers \in [Attempts -> {"none", "armed", "expiring", "over"}]
  /\ matches \in 0 .. MaxMatches

\* A room has a human player as its host, through every departure, kick and
\* match, so that somebody can start, pause and kick. The one exception is a
\* host whom a failed start expelled: ExpireStartConfirmation appoints no other.
HostIsPlayer == exists = "yes" /\ ~hostExpelled => host \in HumanPlayers

\* The roster that was asked to confirm is the lobby's until the attempt or the
\* match it opened is over: no join, kick, departure or CPU seat gets between.
ConfirmedRosterIsRoom == exists = "yes" /\ Confirming => confirmation.roster = Present

\* The teams a match was started with, or is about to be, are equal and not
\* empty as long as it lasts, whichever way it was started.
TeamsAreBalanced ==
  exists = "yes" /\ (started \/ Confirming) =>
    OnTeam("A") # {} /\ Cardinality(OnTeam("A")) = Cardinality(OnTeam("B"))

\* The status the room announces is the one it is in: starting exactly while a
\* confirmation is open, in_match only with a match, and never lobby with one.
StatusMatchesRoom ==
  /\ roomStatus = "starting" <=> Confirming /\ ~started
  /\ roomStatus = "in_match" => started
  /\ started => roomStatus \in {"in_match", "post_match"}

\* The people in a room, players and spectators, never exceed the combined
\* limit. CPU seats do not count: AddCPUPlayer does not look at that limit.
PeopleWithinCapacity ==
  Cardinality(HumanPlayers) + Cardinality(spectators) <= CombinedMemberCapacity

\* A room that comes back from a match or a failed start has no ready human
\* (nobody is drawn into a match that they did not ask for) and only ready CPUs
\* (no command could make a CPU ready again).
ReturnResetsReady ==
  [][(started \/ Confirming) /\ ~(started' \/ confirmation' # NoConfirmation)
       => \A id \in Present' : players'[id].ready <=> id \in Cpus]_vars

\* While a confirmation is open nobody leaves the lobby except, after its own
\* deadline, those who have not confirmed: neither a late timer of an earlier
\* attempt nor a callback overtaken between its two locks expels anybody.
OnlyLateAnswersExpel ==
  [][Confirming /\ ~started /\ Present' # Present
       => confirmation.due /\ Present \ Present' = confirmation.pending]_vars

\* A room whose events could not be saved keeps its membership, its host and
\* its match until the restart. ConfirmStart is the one operation that does not
\* look at the fence, so a room fenced with an open confirmation is excepted.
FencedRoomIsStill ==
  [][exists = "yes" /\ poisoned /\ ~Confirming
       => UNCHANGED <<exists, poisoned, confirmation, started, roomStatus, membership>>]_vars

\* An open confirmation ends: by its answers or by its deadline, although its
\* timer re-arms itself and earlier timers may do its work. A fenced room waits
\* for the restart.
ConfirmationEnds == Pending /\ ~started ~> (~Pending \/ poisoned)
=============================================================================
