-------------------------- MODULE RoomLobbyProofs --------------------------
(***************************************************************************)
(* Proofs about RoomLobby for every set of users and every limit.          *)
(***************************************************************************)
EXTENDS RoomLobby, TLAPS

PlayersType == players \in [PlayerIDs -> [team : Teams \union {"none"}, ready : BOOLEAN]]

\* A confirmation as a record; an open one has a number.
ConfirmationType ==
  /\ confirmation \in [attempt : 0 .. MaxAttempts, pending : SUBSET PlayerIDs,
                       roster : SUBSET PlayerIDs, due : BOOLEAN]
  /\ Confirming => confirmation.attempt # 0

\* A room that does not exist yet is empty, and nothing was started in it.
FreshRoom ==
  exists = "no" => spectators = {} /\ Present = {} /\ ~started /\ ~Confirming

\* A room that was created has an owner, expelled or not.
RoomHasOwner == exists # "no" => host \in Users

\* A confirmation that opened a match waits for nobody, so that no timer can
\* expel a player of the match.
MatchWaitsForNobody == Confirming /\ started => confirmation.pending = {}

\* The inductive invariant. The host, the teams and the status of the room
\* hold one another up: the roster is frozen while a confirmation is open,
\* so that the teams that were validated are those the match begins with.
IInv ==
  /\ TypeOK
  /\ ConfirmationType
  /\ FreshRoom
  /\ RoomHasOwner
  /\ MatchWaitsForNobody
  /\ HostIsPlayer
  /\ ConfirmedRosterIsRoom
  /\ TeamsAreBalanced
  /\ StatusMatchesRoom

LEMMA InitIInv == Init => IInv
<1> SUFFICES ASSUME Init PROVE IInv
  OBVIOUS
<1>1. Present = {}
  BY DEF Init, Present, Absent
<1>2. ~Confirming
  BY DEF Init, Confirming
<1>3. ConfirmationType
  BY <1>2, LobbyAssumption DEF Init, ConfirmationType, NoConfirmation, Attempts
<1>4. PlayersType
  BY DEF Init, PlayersType, Absent
<1>5. TypeOK
  <2>1. {MaxCpus, MaxAttempts, MaxMatches} \subseteq Nat
    BY LobbyAssumption
  <2>2. timers \in [Attempts -> {"none", "armed", "expiring", "over"}]
    BY DEF Init
  <2>3. started \in BOOLEAN /\ poisoned \in BOOLEAN /\ hostExpelled \in BOOLEAN
    BY DEF Init
  <2> QED
    BY <1>1, <1>4, <2>1, <2>2, <2>3 DEF Init, TypeOK, PlayersType, NoConfirmation
<1> QED
  BY <1>1, <1>2, <1>3, <1>5
     DEF Init, IInv, FreshRoom, RoomHasOwner, MatchWaitsForNobody, HostIsPlayer,
         ConfirmedRosterIsRoom, TeamsAreBalanced, StatusMatchesRoom
-----------------------------------------------------------------------------
(* The operators on the players *)

\* Seating somebody adds that player and leaves the others where they are.
LEMMA SeatFacts ==
  ASSUME PlayersType, NEW id \in PlayerIDs, NEW team \in Teams, NEW ready \in BOOLEAN,
         Seat(id, team, ready)
  PROVE  PlayersType' /\ Present' = Present \union {id}
BY DEF PlayersType, Seat, Present, Teams

\* Unseating takes exactly the named players away.
LEMMA UnseatFacts ==
  ASSUME PlayersType, NEW ids, Unseat(ids)
  PROVE  PlayersType' /\ Present' = Present \ ids
BY DEF PlayersType, Unseat, Present, Absent

\* A player whose ready state is set keeps the team.
LEMMA ReadyField ==
  ASSUME NEW r \in [team : Teams \union {"none"}, ready : BOOLEAN], NEW b \in BOOLEAN
  PROVE  /\ [r EXCEPT !.ready = b] \in [team : Teams \union {"none"}, ready : BOOLEAN]
         /\ [r EXCEPT !.ready = b].team = r.team
         /\ [r EXCEPT !.ready = b].ready = b
OBVIOUS

\* A reset of the ready states keeps those who stay, with their teams.
LEMMA ResetFacts ==
  ASSUME PlayersType, NEW kept \in SUBSET Present, players' = ResetReadyStates(kept)
  PROVE  /\ PlayersType'
         /\ Present' = kept
         /\ \A id \in kept : players'[id].team = players[id].team
         /\ \A id \in kept : players'[id].ready <=> id \in Cpus
<1>1. \A id \in PlayerIDs :
         players'[id] = IF id \in kept THEN [players[id] EXCEPT !.ready = id \in Cpus]
                        ELSE Absent
  BY DEF ResetReadyStates
<1>2. \A id \in kept : id \in PlayerIDs /\ players[id].team # "none"
  BY DEF Present
<1>3. \A id \in PlayerIDs : players[id] \in [team : Teams \union {"none"}, ready : BOOLEAN]
  BY DEF PlayersType
<1>4. \A id \in PlayerIDs : (id \in Cpus) \in BOOLEAN
  OBVIOUS
<1>5. \A id \in PlayerIDs :
         /\ [players[id] EXCEPT !.ready = id \in Cpus]
              \in [team : Teams \union {"none"}, ready : BOOLEAN]
         /\ [players[id] EXCEPT !.ready = id \in Cpus].team = players[id].team
         /\ [players[id] EXCEPT !.ready = id \in Cpus].ready = (id \in Cpus)
  BY <1>3, <1>4, ReadyField, Zenon
<1>6. \A id \in kept : players'[id].team = players[id].team
  BY <1>1, <1>2, <1>5, Zenon
<1>7. ASSUME NEW id \in kept
      PROVE  players'[id].ready <=> id \in Cpus
  <2>1. players'[id].ready = (id \in Cpus)
    BY <1>1, <1>2, <1>5, Zenon
  <2> QED
    BY <2>1
<1>8. \A id \in PlayerIDs \ kept : players'[id].team = "none"
  <2>1. \A id \in PlayerIDs \ kept : players'[id] = Absent
    BY <1>1, Zenon
  <2> QED
    BY <2>1 DEF Absent
<1>9. Present' = kept
  BY <1>2, <1>6, <1>8 DEF Present
<1>10. \A id \in PlayerIDs :
          players'[id] \in [team : Teams \union {"none"}, ready : BOOLEAN]
  <2>1. Absent \in [team : Teams \union {"none"}, ready : BOOLEAN]
    BY DEF Absent
  <2> QED
    BY <2>1, <1>1, <1>5, Zenon
<1>11. DOMAIN players' = PlayerIDs /\ players' = [id \in PlayerIDs |-> players'[id]]
  BY DEF ResetReadyStates
<1>12. PlayersType'
  BY <1>10, <1>11 DEF PlayersType
<1> QED
  BY <1>6, <1>7, <1>9, <1>12

\* When everybody stays, so do the teams.
LEMMA ResetKeepsTeams ==
  ASSUME PlayersType, players' = ResetReadyStates(Present)
  PROVE  \A team \in Teams : OnTeam(team)' = OnTeam(team)
<1>1. /\ \A id \in Present : players'[id].team = players[id].team
      /\ Present' = Present
  BY ResetFacts
<1>2. \A id \in PlayerIDs : id \notin Present => players[id].team = "none"
  BY DEF Present
<1>3. \A id \in PlayerIDs : id \notin Present => players'[id].team = "none"
  BY <1>1 DEF Present
<1> QED
  BY <1>1, <1>2, <1>3 DEF OnTeam, Teams
-----------------------------------------------------------------------------
(* Steps in the lobby *)

\* What every lobby operation leaves alone carries over; what is left to show
\* is the membership it makes, and that its host is one of the players.
LEMMA LobbyStep ==
  ASSUME IInv, exists \in {"no", "yes"}, exists' \in {"yes", "deleted"},
         ~started, ~Confirming, UNCHANGED startState,
         PlayersType', spectators' \subseteq Users \ Present', host' \in Users,
         cpuSequence' \in 0 .. MaxCpus, \A cpu \in Present' \intersect Cpus : cpu <= cpuSequence',
         poisoned' \in BOOLEAN, hostExpelled' \in BOOLEAN,
         exists' = "yes" => hostExpelled' \/ host' \in HumanPlayers'
  PROVE  IInv'
<1>1. /\ confirmation' = confirmation /\ started' = started /\ roomStatus' = roomStatus
      /\ timers' = timers /\ matches' = matches
  BY DEF startState
<1>2. ~Confirming' /\ ~started'
  BY <1>1 DEF Confirming
<1>3. TypeOK'
  BY <1>1 DEF IInv, TypeOK, PlayersType
<1>4. ConfirmationType'
  BY <1>1, <1>2 DEF IInv, ConfirmationType
<1>5. HostIsPlayer'
  BY DEF HostIsPlayer
<1>6. StatusMatchesRoom'
  BY <1>1, <1>2 DEF IInv, StatusMatchesRoom
<1> QED
  BY <1>2, <1>3, <1>4, <1>5, <1>6
     DEF IInv, FreshRoom, RoomHasOwner, MatchWaitsForNobody, ConfirmedRosterIsRoom,
         TeamsAreBalanced

LEMMA FlushType ==
  ASSUME poisoned \in BOOLEAN, Flush PROVE poisoned' \in BOOLEAN
BY DEF Flush

\* A user is no CPU.
LEMMA UserFacts ==
  ASSUME NEW user \in Users PROVE user \in PlayerIDs /\ user \notin Cpus
BY LobbyAssumption DEF PlayerIDs

LEMMA CreateIInv ==
  ASSUME IInv, NEW team \in Teams, Create(team) PROVE IInv'
<1>1. /\ PlayersType /\ poisoned \in BOOLEAN /\ hostExpelled \in BOOLEAN
      /\ cpuSequence \in 0 .. MaxCpus
  BY DEF IInv, TypeOK, PlayersType
<1>2. Creator \in Users /\ Creator \in PlayerIDs /\ Creator \notin Cpus
  BY UserFacts, LobbyAssumption
<1>3. Present = {} /\ spectators = {} /\ ~started /\ ~Confirming
  BY DEF IInv, FreshRoom, Create
<1>4. PlayersType' /\ Present' = {Creator}
  BY <1>1, <1>2, <1>3, SeatFacts DEF Create
<1>5. poisoned' \in BOOLEAN
  BY <1>1, FlushType DEF Create
<1>6. HumanPlayers' = {Creator}
  BY <1>2, <1>4 DEF HumanPlayers
<1> QED
  BY <1>1, <1>2, <1>3, <1>4, <1>5, <1>6, LobbyStep DEF Create

LEMMA JoinAsPlayerIInv ==
  ASSUME IInv, NEW user \in Users, NEW team \in Teams, JoinAsPlayer(user, team) PROVE IInv'
<1>1. /\ PlayersType /\ poisoned \in BOOLEAN /\ hostExpelled \in BOOLEAN
      /\ cpuSequence \in 0 .. MaxCpus /\ spectators \subseteq Users \ Present
      /\ \A cpu \in Present \intersect Cpus : cpu <= cpuSequence
  BY DEF IInv, TypeOK, PlayersType
<1>2. user \in PlayerIDs /\ user \notin Cpus
  BY UserFacts
<1>3. exists = "yes" /\ ~started /\ ~Confirming
  BY DEF JoinAsPlayer, GuardLobbyMutation
<1>4. PlayersType' /\ Present' = Present \union {user}
  BY <1>1, <1>2, SeatFacts DEF JoinAsPlayer
<1>5. poisoned' \in BOOLEAN
  BY <1>1, FlushType DEF JoinAsPlayer
<1>6. hostExpelled' \in BOOLEAN
  BY <1>1 DEF JoinAsPlayer
<1>7. hostExpelled' \/ host \in HumanPlayers'
  <2>1. hostExpelled \/ host \in HumanPlayers
    BY <1>3 DEF IInv, HostIsPlayer
  <2>2. HumanPlayers' = HumanPlayers \union {user}
    BY <1>4 DEF HumanPlayers
  <2>3. hostExpelled' = (hostExpelled /\ user # host)
    BY DEF JoinAsPlayer
  <2>4. hostExpelled /\ user # host => hostExpelled'
    BY <2>3
  <2> QED
    BY <2>1, <2>2, <2>4
<1>8. host \in Users
  BY <1>3 DEF IInv, RoomHasOwner
<1> QED
  BY <1>1, <1>2, <1>3, <1>4, <1>5, <1>6, <1>7, <1>8, LobbyStep DEF JoinAsPlayer

LEMMA JoinAsSpectatorIInv ==
  ASSUME IInv, NEW user \in Users, JoinAsSpectator(user) PROVE IInv'
<1>1. /\ players' = players /\ host' = host /\ cpuSequence' = cpuSequence
      /\ hostExpelled' = hostExpelled /\ exists' = exists
      /\ confirmation' = confirmation /\ started' = started /\ roomStatus' = roomStatus
      /\ timers' = timers /\ matches' = matches
  BY DEF JoinAsSpectator, startState
<1>2. /\ Present' = Present /\ HumanPlayers' = HumanPlayers /\ Confirming' = Confirming
      /\ OnTeam("A")' = OnTeam("A") /\ OnTeam("B")' = OnTeam("B")
  BY <1>1 DEF Present, HumanPlayers, OnTeam, Confirming
<1>3. poisoned' \in BOOLEAN
  BY FlushType DEF IInv, TypeOK, JoinAsSpectator
<1>4. spectators' \subseteq Users \ Present' /\ exists = "yes"
  BY <1>2 DEF IInv, TypeOK, JoinAsSpectator
<1>5. TypeOK'
  BY <1>1, <1>2, <1>3, <1>4 DEF IInv, TypeOK
<1> QED
  BY <1>1, <1>2, <1>4, <1>5
     DEF IInv, ConfirmationType, FreshRoom, RoomHasOwner, MatchWaitsForNobody, HostIsPlayer,
         ConfirmedRosterIsRoom, TeamsAreBalanced, StatusMatchesRoom

\* The operations that seat somebody again: the same people are present.
LEMMA ReseatIInv ==
  ASSUME IInv, NEW user \in Users, NEW team \in Teams, NEW ready \in BOOLEAN,
         GuardLobbyMutation, user \in Present, Seat(user, team, ready), Flush,
         UNCHANGED <<exists, spectators, host, cpuSequence, hostExpelled, startState>>
  PROVE  IInv'
<1>1. /\ PlayersType /\ poisoned \in BOOLEAN /\ hostExpelled \in BOOLEAN
      /\ cpuSequence \in 0 .. MaxCpus /\ spectators \subseteq Users \ Present
      /\ \A cpu \in Present \intersect Cpus : cpu <= cpuSequence
  BY DEF IInv, TypeOK, PlayersType
<1>2. exists = "yes" /\ ~started /\ ~Confirming
  BY DEF GuardLobbyMutation
<1>3. PlayersType' /\ Present' = Present
  BY <1>1, UserFacts, SeatFacts
<1>4. HumanPlayers' = HumanPlayers
  BY <1>3 DEF HumanPlayers
<1>5. poisoned' \in BOOLEAN
  BY <1>1, FlushType
<1>6. host \in Users /\ (hostExpelled \/ host \in HumanPlayers)
  BY <1>2 DEF IInv, RoomHasOwner, HostIsPlayer
<1> QED
  BY <1>1, <1>2, <1>3, <1>4, <1>5, <1>6, LobbyStep

LEMMA ChangeTeamIInv ==
  ASSUME IInv, NEW user \in Users, NEW team \in Teams, ChangeTeam(user, team) PROVE IInv'
<1>1. players[user].ready \in BOOLEAN
  BY UserFacts DEF IInv, TypeOK
<1> QED
  BY <1>1, ReseatIInv DEF ChangeTeam

LEMMA SetReadyIInv ==
  ASSUME IInv, NEW user \in Users, NEW ready \in BOOLEAN, SetReady(user, ready) PROVE IInv'
<1>1. players[user].team \in Teams
  BY UserFacts DEF IInv, TypeOK, SetReady, Present
<1> QED
  BY <1>1, ReseatIInv DEF SetReady

LEMMA AddCPUPlayerIInv ==
  ASSUME IInv, NEW user \in Users, NEW team \in Teams, AddCPUPlayer(user, team) PROVE IInv'
<1>1. /\ PlayersType /\ poisoned \in BOOLEAN /\ hostExpelled \in BOOLEAN
      /\ cpuSequence \in 0 .. MaxCpus /\ spectators \subseteq Users \ Present
      /\ \A cpu \in Present \intersect Cpus : cpu <= cpuSequence
  BY DEF IInv, TypeOK, PlayersType
<1>2. exists = "yes" /\ ~started /\ ~Confirming
  BY DEF AddCPUPlayer, GuardLobbyMutation
<1>3. host \in Users /\ (hostExpelled \/ host \in HumanPlayers)
  BY <1>2 DEF IInv, RoomHasOwner, HostIsPlayer
<1>4. MaxCpus \in Nat
  BY LobbyAssumption
<1>0. cpuSequence \in Nat
  <2>1. cpuSequence \in 0 .. MaxCpus
    BY <1>1
  <2> QED
    BY <2>1, <1>4
<1>5. cpuSequence' = cpuSequence + 1 /\ cpuSequence + 1 \in Cpus
  BY <1>1, <1>4 DEF AddCPUPlayer, Cpus
<1>6. cpuSequence' \in 0 .. MaxCpus
  BY <1>1, <1>4 DEF AddCPUPlayer
<1>7. cpuSequence + 1 \in PlayerIDs /\ cpuSequence + 1 \notin Users
  BY <1>5, LobbyAssumption DEF PlayerIDs
<1>8. Cpus \subseteq Nat
  BY <1>4 DEF Cpus
<1>9. /\ exists' = exists /\ spectators' = spectators /\ host' = host
       /\ hostExpelled' = hostExpelled /\ UNCHANGED startState
  BY DEF AddCPUPlayer
<1>10. CASE Seat(cpuSequence + 1, team, TRUE) /\ Flush
  <2>1. PlayersType' /\ Present' = Present \union {cpuSequence + 1}
    BY <1>1, <1>7, <1>10, SeatFacts
  <2>2. HumanPlayers' = HumanPlayers
    BY <1>7, <2>1 DEF HumanPlayers
  <2>3. poisoned' \in BOOLEAN
    BY <1>1, <1>10, FlushType
  <2>4. \A cpu \in Present' \intersect Cpus : cpu <= cpuSequence'
    <3> SUFFICES ASSUME NEW cpu \in Present' \intersect Cpus PROVE cpu <= cpuSequence'
      OBVIOUS
    <3>1. cpu \in Nat
      BY <1>8
    <3>2. cpu <= cpuSequence \/ cpu = cpuSequence + 1
      BY <1>1, <2>1
    <3> QED
      BY <1>0, <1>5, <3>1, <3>2
  <2>5. spectators' \subseteq Users \ Present'
    BY <1>1, <1>7, <2>1 DEF AddCPUPlayer
  <2> QED
    BY <1>1, <1>2, <1>3, <1>6, <2>1, <2>2, <2>3, <2>4, <2>5, <1>9, LobbyStep
<1>11. CASE UNCHANGED <<players, poisoned>>
  <2>1. PlayersType' /\ Present' = Present /\ HumanPlayers' = HumanPlayers
    BY <1>1, <1>11 DEF PlayersType, Present, HumanPlayers
  <2>2. \A cpu \in Present' \intersect Cpus : cpu <= cpuSequence'
    <3> SUFFICES ASSUME NEW cpu \in Present' \intersect Cpus PROVE cpu <= cpuSequence'
      OBVIOUS
    <3>1. cpu \in Nat
      BY <1>8
    <3>2. cpu <= cpuSequence
      BY <1>1, <2>1
    <3> QED
      BY <1>0, <1>5, <3>1, <3>2
  <2> QED
    BY <1>1, <1>2, <1>3, <1>6, <1>11, <1>9, <2>1, <2>2, LobbyStep
<1> QED
  BY <1>10, <1>11 DEF AddCPUPlayer

\* The operations that take one player away, who is not the host they leave.
LEMMA DepartureIInv ==
  ASSUME IInv, NEW id \in PlayerIDs, GuardLobbyMutation, Unseat({id}),
         exists' \in {"yes", "deleted"}, poisoned' \in BOOLEAN, host' \in Users,
         exists' = "yes" => hostExpelled \/ (host' \in HumanPlayers /\ host' # id),
         UNCHANGED <<spectators, cpuSequence, hostExpelled, startState>>
  PROVE  IInv'
<1>1. /\ PlayersType /\ hostExpelled \in BOOLEAN
      /\ cpuSequence \in 0 .. MaxCpus /\ spectators \subseteq Users \ Present
      /\ \A cpu \in Present \intersect Cpus : cpu <= cpuSequence
  BY DEF IInv, TypeOK, PlayersType
<1>2. exists = "yes" /\ ~started /\ ~Confirming
  BY DEF GuardLobbyMutation
<1>3. PlayersType' /\ Present' = Present \ {id}
  BY <1>1, UnseatFacts
<1>4. HumanPlayers' = HumanPlayers \ {id}
  BY <1>3 DEF HumanPlayers
<1>5. /\ spectators' \subseteq Users \ Present'
      /\ \A cpu \in Present' \intersect Cpus : cpu <= cpuSequence'
  BY <1>1, <1>3
<1> QED
  BY <1>1, <1>2, <1>3, <1>4, <1>5, LobbyStep

LEMMA RemoveCPUPlayerIInv ==
  ASSUME IInv, NEW user \in Users, NEW cpu \in Cpus, RemoveCPUPlayer(user, cpu) PROVE IInv'
<1>1. cpu \in PlayerIDs /\ cpu \notin Users
  BY LobbyAssumption DEF PlayerIDs
<1>2. exists = "yes"
  BY DEF RemoveCPUPlayer, GuardLobbyMutation
<1>3. host \in Users /\ (hostExpelled \/ host \in HumanPlayers)
  BY <1>2 DEF IInv, RoomHasOwner, HostIsPlayer
<1>4. poisoned' \in BOOLEAN
  BY FlushType DEF IInv, TypeOK, RemoveCPUPlayer
<1> QED
  BY <1>1, <1>2, <1>3, <1>4, DepartureIInv DEF RemoveCPUPlayer

LEMMA KickPlayerIInv ==
  ASSUME IInv, NEW user \in Users, NEW target \in Users, KickPlayer(user, target) PROVE IInv'
<1>1. exists = "yes"
  BY DEF KickPlayer, GuardLobbyMutation
<1>2. host \in Users /\ (hostExpelled \/ host \in HumanPlayers)
  BY <1>1 DEF IInv, RoomHasOwner, HostIsPlayer
<1>3. poisoned' \in BOOLEAN
  BY FlushType DEF IInv, TypeOK, KickPlayer
<1> QED
  BY <1>1, <1>2, <1>3, UserFacts, DepartureIInv DEF KickPlayer

\* The host of a room that is left is replaced, unless nobody could be and the
\* room goes too.
LEMMA LeaveRoomIInv ==
  ASSUME IInv, NEW user \in Users, LeaveRoom(user) PROVE IInv'
<1>1. exists = "yes" /\ ~started /\ ~Confirming /\ GuardLobbyMutation
  BY DEF LeaveRoom, GuardLobbyMutation
<1>2. host \in Users /\ (hostExpelled \/ host \in HumanPlayers)
  BY <1>1 DEF IInv, RoomHasOwner, HostIsPlayer
<1>3. /\ PlayersType /\ poisoned \in BOOLEAN /\ hostExpelled \in BOOLEAN
      /\ cpuSequence \in 0 .. MaxCpus /\ spectators \subseteq Users \ Present
      /\ \A cpu \in Present \intersect Cpus : cpu <= cpuSequence
  BY DEF IInv, TypeOK, PlayersType
<1>4. /\ exists' \in {"yes", "deleted"} /\ poisoned' \in BOOLEAN
      /\ exists' = "yes" => HumanPlayers \ {user} # {}
  BY <1>1, <1>3, FlushType DEF LeaveRoom
<1>5. UNCHANGED <<cpuSequence, hostExpelled, startState>>
  BY DEF LeaveRoom
<1>6. CASE user \in spectators /\ spectators' = spectators \ {user} /\ UNCHANGED <<players, host>>
  <2>1. PlayersType' /\ Present' = Present /\ HumanPlayers' = HumanPlayers
    BY <1>3, <1>6 DEF PlayersType, Present, HumanPlayers
  <2> QED
    BY <1>1, <1>2, <1>3, <1>4, <1>5, <1>6, <2>1, LobbyStep
<1>7. CASE /\ user \in HumanPlayers /\ Unseat({user}) /\ UNCHANGED spectators
           /\ IF host = user /\ ChooseReplacementLobbyHost(user) # {}
              THEN host' \in ChooseReplacementLobbyHost(user) ELSE UNCHANGED host
  <2>1. exists' = "yes" => hostExpelled \/ (host' \in HumanPlayers /\ host' # user)
    BY <1>2, <1>4, <1>7 DEF ChooseReplacementLobbyHost
  <2>2. host' \in Users
    BY <1>2, <1>7 DEF ChooseReplacementLobbyHost, HumanPlayers
  <2>3. user \in PlayerIDs
    BY UserFacts
  <2> QED
    BY <1>1, <1>4, <1>5, <1>7, <2>1, <2>2, <2>3, DepartureIInv
<1> QED
  BY <1>6, <1>7 DEF LeaveRoom
-----------------------------------------------------------------------------
(* Steps of the start flow *)

Balanced == OnTeam("A") # {} /\ Cardinality(OnTeam("A")) = Cardinality(OnTeam("B"))

\* A step that leaves the membership alone keeps the invariant if it leaves a
\* well-formed confirmation of the people who are present, and a status that
\* matches.
LEMMA StartStep ==
  ASSUME IInv, UNCHANGED <<membership>>, exists' \in {exists, "deleted"}, exists # "no",
         poisoned' \in BOOLEAN, started' \in BOOLEAN,
         roomStatus' \in {"lobby", "starting", "in_match", "post_match"},
         timers' \in [Attempts -> {"none", "armed", "expiring", "over"}],
         matches' \in 0 .. MaxMatches,
         ConfirmationType', confirmation'.pending \subseteq confirmation'.roster \intersect Users,
         exists = "yes" /\ Confirming' => confirmation'.roster = Present,
         exists = "yes" /\ (started' \/ Confirming') => Balanced,
         Confirming' /\ started' => confirmation'.pending = {},
         StatusMatchesRoom'
  PROVE  IInv'
<1>1. /\ players' = players /\ spectators' = spectators /\ host' = host
      /\ cpuSequence' = cpuSequence /\ hostExpelled' = hostExpelled
  BY DEF membership
<1>2. /\ Present' = Present /\ HumanPlayers' = HumanPlayers
      /\ OnTeam("A")' = OnTeam("A") /\ OnTeam("B")' = OnTeam("B")
  BY <1>1 DEF Present, HumanPlayers, OnTeam
<1>3. /\ confirmation'.attempt \in 0 .. MaxAttempts /\ confirmation'.due \in BOOLEAN
      /\ confirmation'.roster \subseteq PlayerIDs
  BY DEF ConfirmationType
<1>4. TypeOK'
  BY <1>1, <1>2, <1>3 DEF IInv, TypeOK
<1>5. ConfirmedRosterIsRoom'
  BY <1>2 DEF ConfirmedRosterIsRoom
<1>6. TeamsAreBalanced'
  BY <1>2 DEF TeamsAreBalanced, Balanced
<1>7. HostIsPlayer' /\ RoomHasOwner'
  BY <1>1, <1>2 DEF IInv, HostIsPlayer, RoomHasOwner
<1>8. FreshRoom' /\ MatchWaitsForNobody'
  BY DEF FreshRoom, MatchWaitsForNobody
<1> QED
  BY <1>4, <1>5, <1>6, <1>7, <1>8 DEF IInv

\* What the invariant says of an open confirmation.
LEMMA ConfirmingFacts ==
  ASSUME IInv
  PROVE  /\ poisoned \in BOOLEAN /\ started \in BOOLEAN
         /\ timers \in [Attempts -> {"none", "armed", "expiring", "over"}]
         /\ matches \in 0 .. MaxMatches /\ MaxMatches \in Nat /\ MaxAttempts \in Nat
         /\ roomStatus \in {"lobby", "starting", "in_match", "post_match"}
         /\ confirmation \in [attempt : 0 .. MaxAttempts, pending : SUBSET PlayerIDs,
                              roster : SUBSET PlayerIDs, due : BOOLEAN]
         /\ confirmation.pending \subseteq confirmation.roster \intersect Users
         /\ Confirming => confirmation.attempt # 0
         /\ exists = "yes" /\ Confirming => confirmation.roster = Present /\ Balanced
         /\ exists = "yes" /\ started => Balanced
BY LobbyAssumption
   DEF IInv, TypeOK, ConfirmationType, ConfirmedRosterIsRoom, TeamsAreBalanced, Balanced

\* The roster of an open confirmation may be asked again, answered or late:
\* it stays the open confirmation.
LEMMA OpenConfirmation ==
  ASSUME IInv, Confirming, NEW pending \in SUBSET (confirmation.roster \intersect Users),
         NEW due \in BOOLEAN,
         confirmation' = [confirmation EXCEPT !.pending = pending, !.due = due]
  PROVE  /\ ConfirmationType' /\ Confirming'
         /\ confirmation'.pending \subseteq confirmation'.roster \intersect Users
         /\ confirmation'.roster = confirmation.roster
<1>1. /\ confirmation \in [attempt : 0 .. MaxAttempts, pending : SUBSET PlayerIDs,
                           roster : SUBSET PlayerIDs, due : BOOLEAN]
      /\ confirmation.attempt # 0
  BY ConfirmingFacts
<1>2. /\ confirmation' \in [attempt : 0 .. MaxAttempts, pending : SUBSET PlayerIDs,
                            roster : SUBSET PlayerIDs, due : BOOLEAN]
      /\ confirmation'.attempt = confirmation.attempt /\ confirmation'.pending = pending
      /\ confirmation'.roster = confirmation.roster
  BY <1>1
<1>3. Confirming'
  BY <1>1, <1>2 DEF Confirming, NoConfirmation
<1> QED
  BY <1>1, <1>2, <1>3 DEF ConfirmationType

LEMMA NoConfirmationFacts ==
  ASSUME confirmation' = NoConfirmation
  PROVE  /\ ConfirmationType' /\ ~Confirming'
         /\ confirmation'.pending \subseteq confirmation'.roster \intersect Users
<1>1. MaxAttempts \in Nat
  BY LobbyAssumption
<1>2. ~Confirming'
  BY DEF Confirming
<1> QED
  BY <1>1, <1>2 DEF ConfirmationType, NoConfirmation

LEMMA StartImmediatelyIInv ==
  ASSUME IInv, NEW user \in Users, StartImmediately(user) PROVE IInv'
<1>1. exists = "yes" /\ ~started /\ ~Confirming /\ Balanced
  BY DEF StartImmediately, GuardStart, ValidateStart, Balanced
<1>2. /\ UNCHANGED <<membership>> /\ exists' = exists /\ poisoned' = poisoned
      /\ confirmation' = confirmation /\ timers' = timers
      /\ started' = TRUE /\ roomStatus' = "in_match"
  BY DEF StartImmediately, BeginMatch, membership
<1>3. matches' \in 0 .. MaxMatches
  BY ConfirmingFacts DEF StartImmediately, BeginMatch
<1>4. ~Confirming'
  BY <1>1, <1>2 DEF Confirming
<1>5. ConfirmationType' /\ confirmation'.pending \subseteq confirmation'.roster \intersect Users
  BY <1>1, <1>2, <1>4, ConfirmingFacts DEF ConfirmationType
<1>6. StatusMatchesRoom'
  BY <1>2, <1>4 DEF StatusMatchesRoom
<1> QED
  BY <1>1, <1>2, <1>3, <1>4, <1>5, <1>6, ConfirmingFacts, StartStep

LEMMA RequestStartIInv ==
  ASSUME IInv, NEW user \in Users, RequestStart(user) PROVE IInv'
<1>1. exists = "yes" /\ ~started /\ ~Confirming /\ Balanced
  BY DEF RequestStart, GuardStart, ValidateStart, Balanced
<1>2. /\ UNCHANGED <<membership>> /\ exists' = exists /\ started' = started
      /\ matches' = matches /\ roomStatus' = "starting"
  BY DEF RequestStart
<1>3. poisoned' \in BOOLEAN
  BY FlushType, ConfirmingFacts DEF RequestStart
<1>4. PICK n \in Attempts :
        /\ confirmation' = [attempt |-> n, pending |-> HumanPlayers, roster |-> Present,
                            due |-> FALSE]
        /\ timers' = [timers EXCEPT ![n] = "armed"]
  BY DEF RequestStart
<1>5. n \in 0 .. MaxAttempts /\ n # 0
  BY ConfirmingFacts DEF Attempts
<1>6. Present \subseteq PlayerIDs /\ HumanPlayers = Present \intersect Users
  BY DEF Present, HumanPlayers
<1>7. Confirming'
  BY <1>4, <1>5 DEF Confirming, NoConfirmation
<1>8. ConfirmationType'
  BY <1>4, <1>5, <1>6, <1>7 DEF ConfirmationType
<1>9. timers' \in [Attempts -> {"none", "armed", "expiring", "over"}]
  BY <1>4, ConfirmingFacts
<1>10. StatusMatchesRoom'
  BY <1>1, <1>2, <1>7 DEF StatusMatchesRoom
<1>11. /\ confirmation'.pending \subseteq confirmation'.roster \intersect Users
       /\ confirmation'.roster = Present
  BY <1>4, <1>6
<1> QED
  BY <1>1, <1>2, <1>3, <1>8, <1>9, <1>10, <1>11, ConfirmingFacts, StartStep

LEMMA StopExpiryTimerType ==
  ASSUME timers \in [Attempts -> {"none", "armed", "expiring", "over"}],
         NEW n, StopExpiryTimer(n)
  PROVE  timers' \in [Attempts -> {"none", "armed", "expiring", "over"}]
BY DEF StopExpiryTimer

\* A step that goes back to a lobby or on after a match, and asks everybody who
\* stays to be ready again.
LEMMA ResetStep ==
  ASSUME IInv, exists = "yes", NEW kept \in SUBSET Present, players' = ResetReadyStates(kept),
         confirmation' = NoConfirmation,
         UNCHANGED <<exists, spectators, host, cpuSequence, matches>>,
         poisoned' \in BOOLEAN, started' \in BOOLEAN, hostExpelled' \in BOOLEAN,
         timers' \in [Attempts -> {"none", "armed", "expiring", "over"}],
         hostExpelled' \/ host \in kept \intersect Users,
         started' => started /\ kept = Present,
         roomStatus' \in {"lobby", "post_match"}, started' => roomStatus' = "post_match"
  PROVE  IInv'
<1>1. PlayersType
  BY DEF IInv, TypeOK, PlayersType
<1>2. PlayersType' /\ Present' = kept
  BY <1>1, ResetFacts
<1>3. HumanPlayers' = kept \intersect Users
  BY <1>2 DEF HumanPlayers
<1>4. /\ ConfirmationType' /\ ~Confirming'
      /\ confirmation'.pending \subseteq confirmation'.roster \intersect Users
  BY NoConfirmationFacts
<1>5. /\ confirmation'.attempt \in 0 .. MaxAttempts /\ confirmation'.due \in BOOLEAN
      /\ confirmation'.roster \subseteq PlayerIDs
  BY <1>4 DEF ConfirmationType
<1>6. /\ spectators' \subseteq Users \ Present'
      /\ \A cpu \in Present' \intersect Cpus : cpu <= cpuSequence'
  BY <1>2 DEF IInv, TypeOK
<1>7. TypeOK'
  BY <1>2, <1>4, <1>5, <1>6 DEF IInv, TypeOK, PlayersType
<1>8. HostIsPlayer' /\ RoomHasOwner' /\ FreshRoom' /\ MatchWaitsForNobody'
  BY <1>3, <1>4 DEF IInv, HostIsPlayer, RoomHasOwner, FreshRoom, MatchWaitsForNobody
<1>9. ConfirmedRosterIsRoom'
  BY <1>4 DEF ConfirmedRosterIsRoom
<1>10. StatusMatchesRoom'
  BY <1>4 DEF StatusMatchesRoom
<1>11. TeamsAreBalanced'
  <2> SUFFICES ASSUME started'
               PROVE  Balanced'
    BY <1>4 DEF TeamsAreBalanced, Balanced
  <2>1. Balanced
    BY ConfirmingFacts
  <2>2. OnTeam("A")' = OnTeam("A") /\ OnTeam("B")' = OnTeam("B")
    BY <1>1, ResetKeepsTeams DEF Teams
  <2> QED
    BY <2>1, <2>2 DEF Balanced
<1> QED
  BY <1>4, <1>7, <1>8, <1>9, <1>10, <1>11 DEF IInv

\* The host is a player of the room, unless expelled before.
LEMMA HostFacts ==
  ASSUME IInv, exists = "yes" PROVE hostExpelled \/ host \in Present \intersect Users
BY DEF IInv, HostIsPlayer, HumanPlayers

LEMMA ConfirmStartIInv ==
  ASSUME IInv, NEW user \in Users, NEW n \in Attempts, ConfirmStart(user, n) PROVE IInv'
<1>1. exists = "yes" /\ Confirming /\ ~started /\ user \in confirmation.pending
  BY DEF ConfirmStart
<1>2. confirmation.roster = Present /\ Balanced
  BY <1>1, ConfirmingFacts
<1>3. confirmation.due \in BOOLEAN
  BY ConfirmingFacts
<1>4. ASSUME NEW pending \in SUBSET confirmation.pending,
             confirmation' = [confirmation EXCEPT !.pending = pending]
      PROVE  /\ ConfirmationType' /\ Confirming' /\ confirmation'.roster = Present
             /\ confirmation'.pending \subseteq confirmation'.roster \intersect Users
  <2>1. pending \in SUBSET (confirmation.roster \intersect Users)
    BY ConfirmingFacts
  <2>2. confirmation' = [confirmation EXCEPT !.pending = pending, !.due = confirmation.due]
    BY <1>4, ConfirmingFacts
  <2> QED
    BY <1>1, <1>2, <1>3, <2>1, <2>2, OpenConfirmation
<1>5. CASE /\ confirmation' = [confirmation EXCEPT !.pending = @ \ {user}]
           /\ UNCHANGED <<exists, poisoned, started, roomStatus, timers, matches, membership>>
  <2>1. confirmation' = [confirmation EXCEPT !.pending = confirmation.pending \ {user}]
    BY <1>5
  <2>2. /\ ConfirmationType' /\ Confirming' /\ confirmation'.roster = Present
        /\ confirmation'.pending \subseteq confirmation'.roster \intersect Users
    BY <1>4, <2>1
  <2>3. StatusMatchesRoom'
    BY <1>1, <1>5, <2>2 DEF IInv, StatusMatchesRoom
  <2> QED
    BY <1>1, <1>2, <1>5, <2>2, <2>3, ConfirmingFacts, StartStep
<1>6. CASE BeginMatch /\ StopExpiryTimer(0) /\ confirmation' = [confirmation EXCEPT !.pending = {}]
  <2>1. /\ ConfirmationType' /\ Confirming' /\ confirmation'.roster = Present
        /\ confirmation'.pending \subseteq confirmation'.roster \intersect Users
    BY <1>4, <1>6
  <2>2. /\ UNCHANGED <<membership>> /\ exists' = exists /\ poisoned' = poisoned
        /\ started' = TRUE /\ roomStatus' = "in_match"
    BY <1>6 DEF BeginMatch, membership
  <2>3. matches' \in 0 .. MaxMatches
    BY <1>6, ConfirmingFacts DEF BeginMatch
  <2>4. timers' \in [Attempts -> {"none", "armed", "expiring", "over"}]
    BY <1>6, ConfirmingFacts, StopExpiryTimerType
  <2>5. StatusMatchesRoom'
    BY <2>2 DEF StatusMatchesRoom
  <2>6. confirmation'.pending = {}
    BY <1>6, ConfirmingFacts
  <2> QED
    BY <1>1, <1>2, <2>1, <2>2, <2>3, <2>4, <2>5, <2>6, ConfirmingFacts, StartStep
<1>7. CASE CompensateFailedStart
  <2>1. timers' \in [Attempts -> {"none", "armed", "expiring", "over"}]
    BY <1>7, ConfirmingFacts, StopExpiryTimerType DEF CompensateFailedStart
  <2>2. poisoned' \in BOOLEAN
    BY <1>7, FlushType, ConfirmingFacts DEF CompensateFailedStart
  <2>3. hostExpelled \in BOOLEAN
    BY DEF IInv, TypeOK
  <2>4. /\ players' = ResetReadyStates(Present) /\ confirmation' = NoConfirmation
        /\ UNCHANGED <<exists, spectators, host, cpuSequence, matches>>
        /\ hostExpelled' = hostExpelled /\ started' = started /\ roomStatus' = "lobby"
    BY <1>7 DEF CompensateFailedStart
  <2>5. ~started' /\ started' \in BOOLEAN /\ hostExpelled' \in BOOLEAN
    BY <1>1, <2>3, <2>4, ConfirmingFacts
  <2>6. hostExpelled' \/ host \in Present \intersect Users
    BY <1>1, <2>4, HostFacts
  <2> QED
    BY <1>1, <2>1, <2>2, <2>4, <2>5, <2>6, ResetStep
<1> QED
  BY <1>5, <1>6, <1>7 DEF ConfirmStart

LEMMA MarkDisconnectedIInv ==
  ASSUME IInv, NEW user \in Users, MarkDisconnected(user) PROVE IInv'
<1>1. /\ exists = "yes" /\ Confirming /\ ~started
      /\ user \in confirmation.roster \intersect Users
      /\ UNCHANGED <<exists, poisoned, started, roomStatus, timers, matches, membership>>
  BY DEF MarkDisconnected
<1>2. confirmation.roster = Present /\ Balanced
  BY <1>1, ConfirmingFacts
<1>3. confirmation.due \in BOOLEAN
  BY ConfirmingFacts
<1>4. confirmation.pending \union {user} \in SUBSET (confirmation.roster \intersect Users)
  BY <1>1, ConfirmingFacts
<1>5. confirmation' = [confirmation EXCEPT !.pending = confirmation.pending \union {user},
                                           !.due = confirmation.due]
  BY ConfirmingFacts DEF MarkDisconnected
<1>6. /\ ConfirmationType' /\ Confirming' /\ confirmation'.roster = Present
      /\ confirmation'.pending \subseteq confirmation'.roster \intersect Users
  BY <1>1, <1>2, <1>3, <1>4, <1>5, OpenConfirmation
<1>7. StatusMatchesRoom'
  BY <1>1, <1>6 DEF IInv, StatusMatchesRoom
<1> QED
  BY <1>1, <1>2, <1>6, <1>7, ConfirmingFacts, StartStep

LEMMA DeadlinePassesIInv == ASSUME IInv, DeadlinePasses PROVE IInv'
<1>1. /\ Confirming /\ ~started
      /\ UNCHANGED <<exists, poisoned, started, roomStatus, timers, matches, membership>>
  BY DEF DeadlinePasses
<1>2. exists # "no"
  BY <1>1 DEF IInv, FreshRoom
<1>3. exists = "yes" => confirmation.roster = Present /\ Balanced
  BY <1>1, ConfirmingFacts
<1>4. confirmation.pending \in SUBSET (confirmation.roster \intersect Users)
  BY ConfirmingFacts
<1>5. confirmation' = [confirmation EXCEPT !.pending = confirmation.pending, !.due = TRUE]
  BY ConfirmingFacts DEF DeadlinePasses
<1>6. /\ ConfirmationType' /\ Confirming' /\ confirmation'.roster = confirmation.roster
      /\ confirmation'.pending \subseteq confirmation'.roster \intersect Users
  BY <1>1, <1>4, <1>5, OpenConfirmation
<1>7. StatusMatchesRoom'
  BY <1>1, <1>6 DEF IInv, StatusMatchesRoom
<1> QED
  BY <1>1, <1>2, <1>3, <1>6, <1>7, ConfirmingFacts, StartStep

\* Steps that change nothing but a timer, or delete the room.
LEMMA TimerStep ==
  ASSUME IInv, exists' \in {exists, "deleted"}, exists = "no" => exists' = "no",
         UNCHANGED <<poisoned, confirmation, started, roomStatus, matches, membership>>,
         timers' \in [Attempts -> {"none", "armed", "expiring", "over"}]
  PROVE  IInv'
<1>1. Confirming' = Confirming
  BY DEF Confirming
<1>2. /\ players' = players /\ spectators' = spectators /\ host' = host
      /\ cpuSequence' = cpuSequence /\ hostExpelled' = hostExpelled
  BY DEF membership
<1>3. /\ Present' = Present /\ HumanPlayers' = HumanPlayers
      /\ OnTeam("A")' = OnTeam("A") /\ OnTeam("B")' = OnTeam("B")
  BY <1>2 DEF Present, HumanPlayers, OnTeam
<1>4. TypeOK'
  BY <1>2, <1>3 DEF IInv, TypeOK
<1>5. ConfirmationType' /\ StatusMatchesRoom'
  BY <1>1 DEF IInv, ConfirmationType, StatusMatchesRoom
<1>6. exists' = "no" <=> exists = "no"
  BY DEF IInv, TypeOK
<1> QED
  BY <1>1, <1>2, <1>3, <1>4, <1>5, <1>6
     DEF IInv, FreshRoom, RoomHasOwner, MatchWaitsForNobody, HostIsPlayer,
         ConfirmedRosterIsRoom, TeamsAreBalanced

LEMMA AwaitDeadlineIInv ==
  ASSUME IInv, NEW n \in Attempts, AwaitDeadlineAndExpire(n) PROVE IInv'
<1>1. timers' \in [Attempts -> {"none", "armed", "expiring", "over"}]
  BY ConfirmingFacts DEF AwaitDeadlineAndExpire
<1> QED
  BY <1>1, TimerStep DEF AwaitDeadlineAndExpire

LEMMA ExpireIInv ==
  ASSUME IInv, NEW n \in Attempts, ExpireStartConfirmation(n) PROVE IInv'
<1>1. CASE Pending /\ ~poisoned /\ confirmation.due
  <2>1. exists = "yes" /\ Confirming /\ ~started
    BY <1>1 DEF IInv, MatchWaitsForNobody, Pending
  <2>2. /\ players' = ResetReadyStates(Present \ confirmation.pending)
        /\ hostExpelled' = (hostExpelled \/ host \in confirmation.pending)
        /\ confirmation' = NoConfirmation /\ roomStatus' = "lobby"
        /\ StopExpiryTimer(n) /\ Flush /\ started' = started
        /\ UNCHANGED <<exists, spectators, host, cpuSequence, matches>>
    BY <1>1 DEF ExpireStartConfirmation
  <2>3. timers' \in [Attempts -> {"none", "armed", "expiring", "over"}]
    BY <2>2, ConfirmingFacts, StopExpiryTimerType
  <2>4. poisoned' \in BOOLEAN /\ started' \in BOOLEAN
    BY <2>2, FlushType, ConfirmingFacts
  <2>5. hostExpelled \in BOOLEAN
    BY DEF IInv, TypeOK
  <2>6. hostExpelled' \in BOOLEAN
    BY <2>2, <2>5
  <2>7. hostExpelled' \/ host \in (Present \ confirmation.pending) \intersect Users
    BY <2>1, <2>2, HostFacts
  <2> QED
    BY <2>1, <2>2, <2>3, <2>4, <2>6, <2>7, ResetStep
<1>2. CASE ~(Pending /\ ~poisoned /\ confirmation.due)
  <2>1. /\ timers' = [timers EXCEPT ![n] = "over"]
        /\ UNCHANGED <<exists, poisoned, confirmation, started, roomStatus, matches, membership>>
    BY <1>2 DEF ExpireStartConfirmation, membership
  <2>2. timers' \in [Attempts -> {"none", "armed", "expiring", "over"}]
    BY <2>1, ConfirmingFacts
  <2> QED
    BY <2>1, <2>2, TimerStep
<1> QED
  BY <1>1, <1>2

LEMMA FinishIInv == ASSUME IInv, FinishMatch \/ DetachMatch PROVE IInv'
<1>1. /\ exists = "yes" /\ started
      /\ players' = ResetReadyStates(Present) /\ confirmation' = NoConfirmation
      /\ roomStatus' = "post_match" /\ started' \in BOOLEAN
      /\ poisoned' = poisoned /\ timers' = timers /\ hostExpelled' = hostExpelled
      /\ UNCHANGED <<exists, spectators, host, cpuSequence, matches>>
  BY DEF FinishMatch, DetachMatch
<1>2. hostExpelled \in BOOLEAN
  BY DEF IInv, TypeOK
<1>3. hostExpelled' \/ host \in Present \intersect Users
  BY <1>1, HostFacts
<1> QED
  BY <1>1, <1>2, <1>3, ConfirmingFacts, ResetStep

LEMMA TerminateIInv == ASSUME IInv, TerminateMatch PROVE IInv'
<1>1. /\ exists = "yes" /\ exists' = "deleted" /\ timers' = timers
      /\ UNCHANGED <<poisoned, confirmation, started, roomStatus, matches, membership>>
  BY DEF TerminateMatch, startState
<1> QED
  BY <1>1, ConfirmingFacts, TimerStep

LEMMA StutterIInv == ASSUME IInv, UNCHANGED vars PROVE IInv'
<1>1. /\ exists' = exists /\ timers' = timers
      /\ UNCHANGED <<poisoned, confirmation, started, roomStatus, matches, membership>>
  BY DEF vars, membership
<1> QED
  BY <1>1, ConfirmingFacts, TimerStep

LEMMA UserStepIInv == ASSUME IInv, NEW user \in Users, UserStep(user) PROVE IInv'
BY JoinAsPlayerIInv, ChangeTeamIInv, AddCPUPlayerIInv, JoinAsSpectatorIInv, LeaveRoomIInv,
   SetReadyIInv, RemoveCPUPlayerIInv, KickPlayerIInv, StartImmediatelyIInv, RequestStartIInv,
   ConfirmStartIInv, MarkDisconnectedIInv
   DEF UserStep

LEMMA NextIInv == IInv /\ [Next]_vars => IInv'
<1> SUFFICES ASSUME IInv, [Next]_vars PROVE IInv'
  OBVIOUS
<1>1. CASE Next
  BY <1>1, CreateIInv, UserStepIInv, DeadlinePassesIInv, AwaitDeadlineIInv, ExpireIInv,
     FinishIInv, TerminateIInv
     DEF Next
<1>2. CASE UNCHANGED vars
  BY <1>2, StutterIInv
<1> QED
  BY <1>1, <1>2
-----------------------------------------------------------------------------
(* Theorems *)

\* The inductive invariant holds in every reachable state of a room.
THEOREM InductiveInvariant == Spec => []IInv
BY InitIInv, NextIInv, PTL DEF Spec

\* The room keeps the types of its state; only players of the lobby are ever
\* asked to confirm a start.
THEOREM TypeCorrect == Spec => []TypeOK
<1>1. IInv => TypeOK
  BY DEF IInv
<1> QED
  BY <1>1, InductiveInvariant, PTL

\* chooseReplacementLobbyHostLocked, KickPlayer and LeaveRoom: a room whose
\* host was not expelled by a failed start has a human player as its host, for
\* any number of members and any limits.
THEOREM HostAlwaysPlays == Spec => []HostIsPlayer
<1>1. IInv => HostIsPlayer
  BY DEF IInv
<1> QED
  BY <1>1, InductiveInvariant, PTL

\* The teams validateStart accepted are the teams the match is played with: no
\* join, kick, departure, CPU seat or late timer changes them in between.
THEOREM MatchTeamsBalanced == Spec => []TeamsAreBalanced
<1>1. IInv => TeamsAreBalanced
  BY DEF IInv
<1> QED
  BY <1>1, InductiveInvariant, PTL

\* The roster of an open confirmation and the status the room announces are
\* those of the room.
THEOREM RosterAndStatus == Spec => [](ConfirmedRosterIsRoom /\ StatusMatchesRoom)
<1>1. IInv => ConfirmedRosterIsRoom /\ StatusMatchesRoom
  BY DEF IInv
<1> QED
  BY <1>1, InductiveInvariant, PTL
-----------------------------------------------------------------------------
(* Action properties *)

\* The steps that find no match and no confirmation, and those that leave
\* both as they are.
LobbyOnly == ~started /\ ~Confirming
SameStart == UNCHANGED <<confirmation, started, players>>

\* A step that finds a match or a confirmation is one of those that end it,
\* opens, answers or reopens one, or changes neither of them nor the players.
LEMMA StepsByEffect ==
  ASSUME IInv, [Next]_vars
  PROVE  \/ LobbyOnly
         \/ SameStart
         \/ /\ confirmation' # NoConfirmation /\ players' = players
         \/ \E n \in Attempts : /\ Pending /\ ~poisoned /\ confirmation.due
                               /\ ExpireStartConfirmation(n)
         \/ players' = ResetReadyStates(Present) /\ (started => confirmation' = NoConfirmation)
<1>1. CASE \E team \in Teams : Create(team)
  BY <1>1 DEF Create, IInv, FreshRoom, LobbyOnly
<1>2. ASSUME NEW user \in Users, UserStep(user)
      PROVE  LobbyOnly \/ SameStart \/ (confirmation' # NoConfirmation /\ players' = players)
             \/ (players' = ResetReadyStates(Present) /\ ~started)
  <2>1. CASE JoinAsSpectator(user)
    BY <2>1 DEF JoinAsSpectator, startState, SameStart
  <2>2. CASE MarkDisconnected(user)
    <3>1. IInv' /\ Confirming /\ ~started /\ players' = players
      BY <2>2, MarkDisconnectedIInv DEF MarkDisconnected, membership
    <3>2. roomStatus' = "starting"
      BY <2>2, <3>1 DEF MarkDisconnected, IInv, StatusMatchesRoom
    <3> QED
      BY <3>1, <3>2 DEF IInv, StatusMatchesRoom, Confirming
  <2>3. ASSUME NEW n \in Attempts, ConfirmStart(user, n)
        PROVE  \/ confirmation' # NoConfirmation /\ players' = players
               \/ players' = ResetReadyStates(Present) /\ ~started
    <3>1. /\ ~started /\ confirmation.attempt # 0
          /\ confirmation \in [attempt : 0 .. MaxAttempts, pending : SUBSET PlayerIDs,
                               roster : SUBSET PlayerIDs, due : BOOLEAN]
      BY <2>3, ConfirmingFacts DEF ConfirmStart
    <3>2. CASE /\ confirmation' = [confirmation EXCEPT !.pending = @ \ {user}]
               /\ UNCHANGED membership
      BY <3>1, <3>2 DEF NoConfirmation, membership
    <3>3. CASE confirmation' = [confirmation EXCEPT !.pending = {}] /\ BeginMatch
      BY <3>1, <3>3 DEF NoConfirmation, BeginMatch
    <3>4. CASE CompensateFailedStart
      BY <3>1, <3>4 DEF CompensateFailedStart
    <3> QED
      BY <2>3, <3>2, <3>3, <3>4 DEF ConfirmStart
  <2>4. CASE GuardLobbyMutation \/ GuardStart(user)
    BY <2>4 DEF GuardLobbyMutation, GuardStart, LobbyOnly
  <2> QED
    BY <1>2, <2>1, <2>2, <2>3, <2>4
       DEF UserStep, JoinAsPlayer, ChangeTeam, AddCPUPlayer, LeaveRoom, SetReady,
           RemoveCPUPlayer, KickPlayer, StartImmediately, RequestStart
<1>3. CASE DeadlinePasses
  <2>1. confirmation' # NoConfirmation
    BY <1>3, ConfirmingFacts DEF DeadlinePasses, NoConfirmation
  <2> QED
    BY <1>3, <2>1 DEF DeadlinePasses, membership
<1>4. ASSUME NEW n \in Attempts, AwaitDeadlineAndExpire(n)
      PROVE  SameStart
  BY <1>4 DEF AwaitDeadlineAndExpire, membership, SameStart
<1>5. ASSUME NEW n \in Attempts, ExpireStartConfirmation(n)
      PROVE  SameStart \/ (Pending /\ ~poisoned /\ confirmation.due)
  BY <1>5 DEF ExpireStartConfirmation, SameStart
<1>6. CASE FinishMatch \/ DetachMatch
  BY <1>6 DEF FinishMatch, DetachMatch
<1>7. CASE TerminateMatch \/ UNCHANGED vars
  BY <1>7 DEF TerminateMatch, vars, startState, membership, SameStart
<1> QED
  BY <1>1, <1>2, <1>3, <1>4, <1>5, <1>6, <1>7 DEF Next

\* finishMatchLocked, detachFinishedMatchLocked, compensateFailedStartLocked
\* and FailStartConfirmation: whoever comes back from a match or from a failed
\* start is not ready, unless it is a CPU.
THEOREM ReturnIsNotReady == Spec => ReturnResetsReady
<1> DEFINE A == (started \/ Confirming) /\ ~(started' \/ confirmation' # NoConfirmation)
                  => \A id \in Present' : players'[id].ready <=> id \in Cpus
<1>1. IInv /\ [Next]_vars => [A]_vars
  <2> SUFFICES ASSUME IInv, [Next]_vars, started \/ Confirming, ~started',
                      confirmation' = NoConfirmation
               PROVE  \A id \in Present' : players'[id].ready <=> id \in Cpus
    OBVIOUS
  <2>1. PlayersType
    BY DEF IInv, TypeOK, PlayersType
  <2>2. ~SameStart /\ ~LobbyOnly
    BY DEF SameStart, LobbyOnly, Confirming
  <2>3. \E kept \in SUBSET Present : players' = ResetReadyStates(kept)
    <3>1. CASE players' = ResetReadyStates(Present)
      BY <3>1
    <3>2. CASE \E n \in Attempts : /\ Pending /\ ~poisoned /\ confirmation.due
                                  /\ ExpireStartConfirmation(n)
      <4>1. players' = ResetReadyStates(Present \ confirmation.pending)
        BY <3>2 DEF ExpireStartConfirmation
      <4> QED
        BY <4>1
    <3> QED
      BY <2>2, <3>1, <3>2, StepsByEffect
  <2> QED
    BY <2>1, <2>3, ResetFacts
<1>2. ReturnResetsReady <=> [][A]_vars
  BY DEF ReturnResetsReady
<1> QED
  BY <1>1, <1>2, InductiveInvariant, PTL DEF Spec

\* ExpireStartConfirmation under its second lock: nobody leaves a lobby whose
\* confirmation is open, except those who have not answered by its deadline.
THEOREM OnlyLateLeave == Spec => OnlyLateAnswersExpel
<1> DEFINE A == Confirming /\ ~started /\ Present' # Present
                  => confirmation.due /\ Present \ Present' = confirmation.pending
<1>1. IInv /\ [Next]_vars => [A]_vars
  <2> SUFFICES ASSUME IInv, [Next]_vars, Confirming, ~started, Present' # Present
               PROVE  confirmation.due /\ Present \ Present' = confirmation.pending
    OBVIOUS
  <2>1. PlayersType
    BY DEF IInv, TypeOK, PlayersType
  <2>2. players' # players
    BY DEF Present
  <2>3. players' # ResetReadyStates(Present)
    BY <2>1, ResetFacts
  <2>4. PICK n \in Attempts : /\ Pending /\ ~poisoned /\ confirmation.due
                             /\ ExpireStartConfirmation(n)
    BY <2>2, <2>3, StepsByEffect DEF LobbyOnly, SameStart
  <2>5. Present' = Present \ confirmation.pending
    BY <2>1, <2>4, ResetFacts DEF ExpireStartConfirmation
  <2>6. confirmation.pending \subseteq Present
    BY <2>4, ConfirmingFacts DEF Pending
  <2> QED
    BY <2>4, <2>5, <2>6
<1>2. OnlyLateAnswersExpel <=> [][A]_vars
  BY DEF OnlyLateAnswersExpel
<1> QED
  BY <1>1, <1>2, InductiveInvariant, PTL DEF Spec
=============================================================================
