----------------------------- MODULE MatchPlay -----------------------------
(***************************************************************************)
(* A match: the turn machine, the game and the CPU policy put together the *)
(* way match_flow.go puts them together. Each call the runtime makes on    *)
(* the machine or on the game is one step; the automatic ones follow each  *)
(* other under the registry mutex, so the runtime rests only where it      *)
(* waits for an input. Timers, pauses and presence are in MatchRuntime.    *)
(***************************************************************************)
EXTENDS MatchGame

CONSTANTS
  TokenIDs, Results, MaxResultQueueTokens,   \* of TurnMachine
  MovementOrders,   \* the movement orders a room may have
  Options,          \* the room settings the game reads
  MaxTurns          \* bound: turns played

ASSUME PlayAssumption ==
  /\ IsFiniteSet(TokenIDs) /\ TokenIDs = 1 .. Cardinality(TokenIDs)
  /\ Results \subseteq {"do", "gae", "geol", "yut", "mo", "backdo", "buk"}
  /\ MaxResultQueueTokens \in Nat \ {0}
  /\ MovementOrders \subseteq {"fifo", "free"}
  /\ MaxTurns \in Nat \ {0}
  /\ Options \subseteq [stacking : BOOLEAN, policy : Policies, capture : CaptureSettings]

Teams == {"A", "B"}

ASSUME TeamAssumption ==
  /\ Team \in [Pieces -> Teams]
  /\ \A t \in Teams : TeamPieces(t) # {}

VARIABLES
  movementOrder, yutMoExtra, phase, expectedOrigin, selectedID, tokens, seenIDs,
  throwingCapped,   \* the turn machine of the current turn
  pieces,           \* match.Game: the position of every piece
  winner,           \* winnerTeamID, or NoTeam
  options,          \* room.Settings as far as the game reads them
  team,             \* the team whose turn it is
  cpuControlled,    \* the CPU completes the current turn
  pending,          \* the piece and route of the move under way
  turns             \* turns begun so far

machine == <<phase, expectedOrigin, selectedID, tokens, seenIDs, throwingCapped>>
game == <<pieces, winner>>
flow == <<team, cpuControlled, turns>>
settings == <<movementOrder, yutMoExtra, options>>
vars == <<machine, game, flow, settings, pending>>

Turn == INSTANCE TurnMachine

NoTeam == "none"
NoMove == [piece |-> NoSpace, route |-> NoSpace, byCpu |-> FALSE]

\* The team that begins is called A.
Init ==
  /\ Turn!NewMachine
  /\ movementOrder \in MovementOrders /\ yutMoExtra = TRUE
  /\ pieces = [p \in Pieces |-> Waiting]
  /\ winner = NoTeam
  /\ options \in Options
  /\ team = "A"
  /\ cpuControlled \in BOOLEAN
  /\ pending = NoMove
  /\ turns = 1
-----------------------------------------------------------------------------
(* What the players are offered *)

ResultOf(id) == LET i == CHOOSE k \in DOMAIN tokens : tokens[k].id = id IN tokens[i].result

AvailableTokens == {tokens[i].id : i \in Turn!AvailableIndices}

PlansOf(id, p) == MovePlans(pieces, p, ResultOf(id), options.policy)

\* moveCandidates of the runtime: the exposed tokens and the pieces that can
\* use them.
Candidates ==
  {c \in AvailableTokens \X TeamPieces(team) :
     ResultOf(c[1]) # "buk" /\ pieces[c[2]].state # "finished" /\ PlansOf(c[1], c[2]) # <<>>}

UnusableTokens ==
  {id \in AvailableTokens : ResultOf(id) # "buk" /\ ~\E c \in Candidates : c[1] = id}

\* Decide: the head token, and a piece and a route unless no piece can use it.
Decisions ==
  LET head == tokens[1] IN
  {[id |-> head.id, piece |-> c.piece, route |-> c.route] :
     c \in BestCandidates(pieces, team, head.result, options.stacking, options.policy)}
-----------------------------------------------------------------------------
(* Steps of the runtime *)

\* beginTurnLocked, with a human or with the CPU.
BeginTurn ==
  /\ Turn!Start
  /\ UNCHANGED <<game, flow, options, pending>>

\* performThrowLocked, for a player or for the CPU.
BeginThrow ==
  /\ Cardinality(seenIDs) < Cardinality(TokenIDs)
  /\ Turn!BeginThrow
  /\ UNCHANGED <<game, flow, options, pending>>

RecordThrow ==
  /\ \E result \in Results : Turn!RecordThrow(Cardinality(seenIDs) + 1, result)
  /\ UNCHANGED <<game, flow, options, pending>>

ResolveQueue ==
  /\ Turn!ResolveQueue
  /\ UNCHANGED <<game, flow, options, pending>>

\* resolveBukHeadLocked.
ResolveBukHead ==
  /\ phase = "resolve_buk" /\ winner = NoTeam
  /\ \E outcome \in ResolveBuk(pieces, team, Graph.fixedBuk, options.stacking, options.policy),
        id \in selectedID :
       /\ Turn!CompleteBuk(id, outcome.noCandidate,
                           outcome.captured /\ CaptureGrants(options.capture, "buk"), FALSE)
       /\ pieces' = outcome.pieces
  /\ UNCHANGED <<winner, flow, options, pending>>

\* enterMoveSelectionLocked when there is no candidate: the one unusable token
\* is discarded. With more of them the handler fails instead: its events are
\* not published and the turn waits where it is.
EnterMoveSelection ==
  /\ phase = "wait_move_selection"
  /\ Candidates = {}
  /\ \E id \in UnusableTokens : UnusableTokens = {id} /\ Turn!DiscardUnusableResult(id)
  /\ UNCHANGED <<game, flow, options, pending>>

\* selectMoveInternalLocked: the move goes on at once unless a route has to be
\* chosen.
SelectMoveInternal(id, p, byCpu) ==
  /\ <<id, p>> \in Candidates
  /\ Turn!SelectMove(id, Len(PlansOf(id, p)) = 2)
  /\ pending' = [piece |-> p, route |-> NoSpace, byCpu |-> byCpu]
  /\ UNCHANGED <<game, flow, options>>

\* SelectMove, which the owner of the turn may call although the CPU has taken
\* the turn over.
SelectMove == \E c \in Candidates : SelectMoveInternal(c[1], c[2], FALSE)

\* SelectRoute.
SelectRoute ==
  /\ \E id \in selectedID : Turn!RouteSelected(id)
  /\ \E route \in {"normal", "shortcut"} : pending' = [pending EXCEPT !.route = route]
  /\ UNCHANGED <<game, flow, options>>

\* applySelectedMoveLocked finds a plan to apply, and MoveApplied. The pieces
\* move with CompleteMove; nothing looks at them in between.
ApplySelectedMove ==
  /\ phase = "apply_move"
  /\ \E id \in selectedID :
       /\ SelectedPlans(PlansOf(id, pending.piece), pending.route) # {}
       /\ Turn!MoveApplied(id)
  /\ UNCHANGED <<game, flow, options, pending>>

\* Mutant: the move that brings the last piece home does not end the match.
CompleteMove_ForgetsWinner ==
  /\ phase = "resolve_stack_capture_finish"
  /\ \E id \in selectedID :
       \E plan \in SelectedPlans(PlansOf(id, pending.piece), pending.route) :
         LET moving == MovingPieces(pieces, pending.piece, options.stacking)
             captured == Captured(pieces, team, plan)
         IN /\ pieces' = ApplyMoveResolution(pieces, team, moving, plan, options.stacking)
            /\ Turn!CompleteMove(id, captured # {} /\ CaptureGrants(options.capture, ResultOf(id)), FALSE)
            /\ pending' = NoMove
            /\ UNCHANGED <<winner, flow, options>>

\* applyMoveResolutionLocked and completeMoveLocked.
CompleteMove ==
  /\ phase = "resolve_stack_capture_finish"
  /\ \E id \in selectedID :
       \E plan \in SelectedPlans(PlansOf(id, pending.piece), pending.route) :
         LET moving == MovingPieces(pieces, pending.piece, options.stacking)
             captured == Captured(pieces, team, plan)
         IN /\ pieces' = ApplyMoveResolution(pieces, team, moving, plan, options.stacking)
            /\ winner' = IF AllFinished(pieces', team) THEN team ELSE winner
            /\ Turn!CompleteMove(id, /\ captured # {} /\ CaptureGrants(options.capture, ResultOf(id))
                                     /\ ~AllFinished(pieces', team),
                                 AllFinished(pieces', team))
            /\ pending' = NoMove
            /\ UNCHANGED <<flow, options>>

\* fireTurnTimeout, or a disconnection of the player.
TakeOver ==
  /\ ~cpuControlled
  /\ phase \in {"wait_throw", "wait_move_selection", "wait_route_selection"}
  /\ cpuControlled' = TRUE
  /\ UNCHANGED <<machine, game, settings, team, turns, pending>>

\* runCpuStepLocked where the CPU chooses a move, or discards its head token.
CpuChooseMove ==
  /\ cpuControlled /\ phase = "wait_move_selection"
  /\ \/ \E d \in Decisions : SelectMoveInternal(d.id, d.piece, TRUE)
     \/ /\ Decisions = {} /\ Turn!DiscardUnusableResult(tokens[1].id)
        /\ UNCHANGED <<game, flow, options, pending>>

\* What the CPU decides where a route has to be chosen is applied only when it
\* names the selected token and a route; otherwise its step fails.
RouteDecision(d) == d.route # NoSpace /\ selectedID = {d.id}

\* runCpuStepLocked where a route has to be chosen: it decides anew.
CpuChooseRoute ==
  /\ cpuControlled /\ phase = "wait_route_selection"
  /\ \E d \in Decisions : /\ RouteDecision(d)
                          /\ Turn!RouteSelected(d.id)
                          /\ pending' = [pending EXCEPT !.route = d.route]
  /\ UNCHANGED <<game, flow, options>>

\* endTurnLocked: the next turn has a machine of its own.
EndTurn ==
  /\ phase = "turn_end" /\ turns < MaxTurns
  /\ phase' = "turn_start" /\ expectedOrigin' = Turn!NoOrigin /\ selectedID' = {}
  /\ tokens' = <<>> /\ seenIDs' = {} /\ throwingCapped' = FALSE
  /\ \E next \in Teams \ {team} : team' = next
  /\ cpuControlled' \in BOOLEAN
  /\ turns' = turns + 1
  /\ UNCHANGED <<game, settings, pending>>

Next ==
  \/ BeginTurn \/ BeginThrow \/ RecordThrow \/ ResolveQueue \/ ResolveBukHead
  \/ EnterMoveSelection \/ SelectMove \/ SelectRoute \/ ApplySelectedMove \/ CompleteMove
  \/ TakeOver \/ CpuChooseMove \/ CpuChooseRoute \/ EndTurn

Spec == Init /\ [][Next]_vars
-----------------------------------------------------------------------------
(* Properties *)

\* Types; a piece is at the home checkpoint exactly when it stands on that
\* space and off the board exactly when it has none.
TypeOK ==
  /\ winner \in Teams \union {NoTeam}
  /\ team \in Teams /\ cpuControlled \in BOOLEAN /\ turns \in 1 .. MaxTurns
  /\ \A p \in Pieces :
       /\ pieces[p].state \in PieceStates
       /\ pieces[p].state \in {"waiting", "finished"} <=> pieces[p].space = NoSpace
       /\ pieces[p].state = "home_checkpoint" <=> pieces[p].space = Graph.home
       /\ pieces[p].space = NoSpace => pieces[p].previous = NoSpace

OnOneSpace(p, q) == pieces[p].space # NoSpace /\ pieces[p].space = pieces[q].space

\* Captures are complete: whatever moves, Backdo and Buk did, pieces of two
\* teams never stand on one space.
NoHostileCoexistence ==
  \A p, q \in Pieces : OnOneSpace(p, q) => Team[p] = Team[q]

\* A stack is one piece: with stacking, allied pieces on one space came the
\* same way, so that it does not matter which of them a player, the CPU or a
\* Backdo names.
StackSharesHistory ==
  options.stacking =>
    \A p, q \in Pieces : OnOneSpace(p, q) => pieces[p] = pieces[q]

\* Game and machine agree on the end: a team has all its pieces home exactly
\* when it is the winner, and then the turn is over and its team won it.
WinnerEndsTurn ==
  /\ \A t \in Teams : AllFinished(pieces, t) <=> winner = t
  /\ winner # NoTeam <=> phase = "match_end"
  /\ winner # NoTeam => winner = team

\* The CPU's own idea of a legal move is the runtime's: what it decides for
\* the head token is a candidate, it names a route exactly when one has to be
\* chosen, and it discards only a token the runtime calls unusable.
CpuDecisionIsCandidate ==
  phase = "wait_move_selection" =>
    /\ \A d \in Decisions : /\ <<d.id, d.piece>> \in Candidates
                            /\ d.route # NoSpace <=> Len(PlansOf(d.id, d.piece)) = 2
    /\ Decisions = {} => tokens[1].id \in UnusableTokens

\* Where the CPU chose a move that needs a route, deciding again gives it a
\* route for that very move, however the draw among equals ends: the CPU
\* never strands on its own choice.
CpuFinishesItsRoute ==
  phase = "wait_route_selection" /\ pending.byCpu =>
    \A d \in Decisions : /\ RouteDecision(d)
                         /\ SelectedPlans(PlansOf(d.id, pending.piece), d.route) # {}

\* A turn always offers a move while an ordinary forward result is exposed:
\* only Backdo can be without a piece.
OnlyBackdoIsUnusable ==
  phase = "wait_move_selection" => \A id \in UnusableTokens : ResultOf(id) = "backdo"

\* A step never touches the other team's pieces except to send home those it
\* lands on, and no step moves a finished piece.
OthersOnlyCaptured ==
  [][ \A p \in Pieces :
        pieces'[p] # pieces[p] =>
          /\ pieces[p].state # "finished"
          /\ Team[p] # team => /\ pieces'[p] = Waiting
                               /\ \E q \in TeamPieces(team) : pieces'[q].space = pieces[p].space
    ]_vars

\* spec/turn_state_machine.yaml: an unusable ordinary token is discarded, that
\* token only. A turn that waits for a move therefore offers one, or is about
\* to discard the single token that is in its way.
UnusableIsDiscarded ==
  phase = "wait_move_selection" => Candidates # {} \/ Cardinality(UnusableTokens) = 1

\* docs/03: once the CPU has the turn it completes it. Where it has to choose
\* a route, each of its decisions is one that can be applied.
CpuCompletesTurn ==
  cpuControlled /\ phase = "wait_route_selection" => \A d \in Decisions : RouteDecision(d)
=============================================================================
