----------------------------- MODULE MatchGame -----------------------------
(***************************************************************************)
(* The rules of internal/domain/match on a board, and the choice the CPU   *)
(* of internal/domain/cpu makes under them. The methods of match.Game are  *)
(* operators from the pieces to the pieces they leave behind; MatchPlay    *)
(* keeps the state. Who owns a piece never changes and is a constant.      *)
(***************************************************************************)
EXTENDS Board, FiniteSetsExt, SequencesExt

CONSTANTS
  Graph,   \* the board, as Board describes it
  Pieces,  \* the pieces of both teams
  Team     \* the team of a piece

\* The board is one that Validate accepts, except that any number of its spaces
\* may be Buk spaces, and the Buk destination is not the home checkpoint (a
\* file that says otherwise passes Validate, but the planners refuse its
\* pieces). A space has a name, which is not one of the marks of the planner.
ASSUME GameAssumption ==
  /\ IsFiniteSet(Pieces) /\ IsFiniteSet(Graph.nodes)
  /\ Graph.nodes \intersect {NoSpace, Blocked, Finish} = {}
  /\ Graph.edges \subseteq Graph.nodes \X Graph.nodes
  /\ ValidateSpaces(Graph) /\ ValidateRouteChoices(Graph) /\ ValidateReachability(Graph)
  /\ Graph.fixedBuk \in Graph.nodes \ {Graph.home}

Waiting == [state |-> "waiting", space |-> NoSpace, previous |-> NoSpace]

TeamPieces(team) == {p \in Pieces : Team[p] = team}

\* OrdinaryMovementSpaces.
MovementSpaces == [do |-> 1, gae |-> 2, geol |-> 3, yut |-> 4, mo |-> 5]

CaptureSettings == {"always", "do_to_geol_plus_special", "none"}
-----------------------------------------------------------------------------
(* Moves *)

\* movingPieceIndicesLocked: with stacking the pieces of one team on one
\* space move together, pieces in the waiting area excepted.
MovingPieces(pieces, p, stacking) ==
  IF ~stacking \/ pieces[p].state = "waiting" THEN {p}
  ELSE {q \in TeamPieces(Team[p]) : /\ pieces[q].state = pieces[p].state
                                    /\ pieces[q].space = pieces[p].space}

\* The pieces of a set of owners that stand where a move ends.
PiecesAt(pieces, dest, owners) ==
  IF dest.state = "finished" THEN {}
  ELSE {q \in Pieces : /\ Team[q] \in owners
                       /\ pieces[q].state = dest.state /\ pieces[q].space = dest.space}

\* Mutant: nobody is captured on the home checkpoint.
Captured_NotAtHome(pieces, team, dest) ==
  IF dest.state = "home_checkpoint" THEN {}
  ELSE PiecesAt(pieces, dest, {Team[q] : q \in Pieces} \ {team})

\* capturedPieceIndicesLocked.
Captured(pieces, team, dest) ==
  PiecesAt(pieces, dest, {Team[q] : q \in Pieces} \ {team})

\* Mutant: the allies that wait at the destination keep their own path.
ApplyMoveResolution_AlliesKeepPath(pieces, team, moving, dest, stacking) ==
  [q \in Pieces |->
     IF q \in moving THEN [state |-> dest.state, space |-> dest.space, previous |-> dest.previous]
     ELSE IF q \in Captured(pieces, team, dest) THEN Waiting
     ELSE pieces[q]]

\* applyMoveResolutionLocked on the pieces: the enemies at the destination go
\* back to the waiting area; the moving pieces, and with stacking the allies
\* they join, take the path of the move.
ApplyMoveResolution(pieces, team, moving, dest, stacking) ==
  LET final == moving \union (IF stacking THEN PiecesAt(pieces, dest, {team}) ELSE {})
  IN [q \in Pieces |->
        IF q \in final THEN [state |-> dest.state, space |-> dest.space, previous |-> dest.previous]
        ELSE IF q \in Captured(pieces, team, dest) THEN Waiting
        ELSE pieces[q]]

\* allTeamPiecesFinishedLocked.
AllFinished(pieces, team) == \A q \in TeamPieces(team) : pieces[q].state = "finished"

\* captureGrantsExtraThrowLocked.
CaptureGrants(setting, result) ==
  \/ setting = "always"
  \/ setting = "do_to_geol_plus_special" /\ result \in {"do", "gae", "geol", "backdo", "buk"}

\* OrdinaryMovePlans and BackdoMovePlan: the plans of a piece, none when the
\* planner says that the movement is unavailable.
MovePlans(pieces, p, result, policy) ==
  IF result = "backdo"
  THEN IF BackdoAvailable(pieces[p]) THEN <<BackdoPlan(Graph, pieces[p])>> ELSE <<>>
  ELSE ForwardPlans(Graph, pieces[p], MovementSpaces[result], policy)

\* selectOrdinaryMovePlan: a route is named exactly when there is a choice.
SelectedPlans(plans, route) ==
  IF Len(plans) = 1 THEN {plans[1] : r \in {route} \intersect {NoSpace}}
  ELSE {plans[i] : i \in {j \in DOMAIN plans : plans[j].route = route}}
-----------------------------------------------------------------------------
(* Buk *)

\* bukPositionGroupsLocked: the team's pieces on the board, by space.
BukSpaces(pieces, team) ==
  {pieces[q].space : q \in {x \in TeamPieces(team) :
                              pieces[x].state \in {"on_board", "home_checkpoint"}}}

ClosestSpaces(pieces, team, policy) ==
  LET distance(s) == RemainingForwardDistance(Graph, [space |-> s], policy)
      spaces == BukSpaces(pieces, team)
  IN {s \in spaces : \A t \in spaces : distance(s) <= distance(t)}

\* What a Buk comes to: the pieces, whether one was captured and whether there
\* was nothing to move.
BukOutcome(pieces, captured, noCandidate) ==
  [pieces |-> pieces, captured |-> captured, noCandidate |-> noCandidate]

\* The body of ResolveBuk's loop: a group that stands on s moves to the
\* destination.
BukMove(before, team, group, s, destination, stacking) ==
  LET arrival == [state |-> "on_board", space |-> destination, previous |-> s]
  IN BukOutcome(ApplyMoveResolution(before.pieces, team, group, arrival, stacking),
                before.captured \/ Captured(before.pieces, team, arrival) # {}, FALSE)

\* The loop: the groups on the spaces of a sequence, one after the other. They
\* are the groups that stood there before the first of them moved.
BukMoves(pieces, team, order, destination, stacking) ==
  LET group(s) == {q \in TeamPieces(team) : pieces[q].space = s}
      after[k \in 0 .. Len(order)] ==
        IF k = 0 THEN BukOutcome(pieces, FALSE, FALSE)
        ELSE BukMove(after[k - 1], team, group(order[k]), order[k], destination, stacking)
  IN after[Len(order)]

\* ResolveBuk: every closest group moves to the destination, in the order of
\* their pieces (which the model leaves open), except the group that is there
\* already; a team with nothing on the board sends a waiting piece, drawn at
\* random.
ResolveBuk(pieces, team, destination, stacking, policy) ==
  LET closest == ClosestSpaces(pieces, team, policy)
      idle == {q \in TeamPieces(team) : pieces[q].state = "waiting"}
  IN IF closest # {}
     THEN {BukMoves(pieces, team, order, destination, stacking) :
             order \in SetToSeqs(closest \ {destination})}
     ELSE IF idle # {}
     THEN {BukMove(BukOutcome(pieces, FALSE, FALSE), team, {q}, NoSpace, destination, stacking) :
             q \in idle}
     ELSE {BukOutcome(pieces, FALSE, TRUE)}
-----------------------------------------------------------------------------
(* The CPU *)

\* Mutant: the route of the plan is named whether it was a choice or not.
CpuCandidate_AlwaysRoute(pieces, p, result, stacking, policy) ==
  LET plans == MovePlans(pieces, p, result, policy)
      plan == plans[Len(plans)]
      moving == MovingPieces(pieces, p, stacking)
      allies == PiecesAt(pieces, plan, {Team[p]}) \ moving
      merit(b) == IF b THEN 1 ELSE 0
      known == pieces[p].state # "waiting"
  IN [piece |-> p, moving |-> moving,
      route |-> IF result # "backdo" THEN plan.route ELSE NoSpace,
      merits |-> <<merit(plan.state = "finished"),
                   merit(Captured(pieces, Team[p], plan) # {}),
                   merit(stacking /\ allies # {}),
                   merit(result # "backdo" /\ plan.route = "shortcut"),
                   merit(known),
                   IF known THEN -RemainingForwardDistance(Graph, pieces[p], policy) ELSE 0>>]

\* candidateForPiece: what the CPU would do with one piece, and the merits it
\* is compared by, most important first.
CpuCandidate(pieces, p, result, stacking, policy) ==
  LET plans == MovePlans(pieces, p, result, policy)
      plan == plans[Len(plans)]
      moving == MovingPieces(pieces, p, stacking)
      allies == PiecesAt(pieces, plan, {Team[p]}) \ moving
      merit(b) == IF b THEN 1 ELSE 0
      known == pieces[p].state # "waiting"
  IN [piece |-> p, moving |-> moving,
      route |-> IF Len(plans) = 2 THEN plan.route ELSE NoSpace,
      merits |-> <<merit(plan.state = "finished"),
                   merit(Captured(pieces, Team[p], plan) # {}),
                   merit(stacking /\ allies # {}),
                   merit(result # "backdo" /\ plan.route = "shortcut"),
                   merit(known),
                   IF known THEN -RemainingForwardDistance(Graph, pieces[p], policy) ELSE 0>>]

\* moveCandidates of the policy, without the repetition of one moving group.
CpuCandidates(pieces, team, result, stacking, policy) ==
  {CpuCandidate(pieces, p, result, stacking, policy) :
     p \in {q \in TeamPieces(team) : /\ pieces[q].state # "finished"
                                     /\ MovePlans(pieces, q, result, policy) # <<>>}}

\* Mutant: entering a shortcut is not compared.
Better_NoShortcut(c, d) ==
  \E i \in DOMAIN c.merits \ {4} : /\ c.merits[i] > d.merits[i]
                                   /\ \A j \in (1 .. (i - 1)) \ {4} : c.merits[j] = d.merits[j]

\* compareCandidates.
Better(c, d) ==
  \E i \in DOMAIN c.merits : /\ c.merits[i] > d.merits[i]
                             /\ \A j \in 1 .. (i - 1) : c.merits[j] = d.merits[j]

\* bestCandidates, of which Decide takes one at random.
BestCandidates(pieces, team, result, stacking, policy) ==
  LET all == CpuCandidates(pieces, team, result, stacking, policy)
  IN {c \in all : \A d \in all : ~Better(d, c)}
=============================================================================
