---------------------------- MODULE TurnMachine ----------------------------
(***************************************************************************)
(* One turn of a Yutnori match: the phase machine of                       *)
(* internal/domain/turn/machine.go over the result queue of                *)
(* internal/domain/turn/queue.go.                                          *)
(*                                                                         *)
(* A Machine is driven by its caller: every exported method is an action,  *)
(* and a method that returns an error leaves the machine as it is, so a    *)
(* rejected call is a stuttering step and only its guard is written.       *)
(* Movement rules stay outside, as in the code: what a move or a Buk did   *)
(* (capture, match end, no candidate) is an input of the completing call.  *)
(***************************************************************************)
EXTENDS Integers, Sequences, FiniteSets

CONSTANTS
  TokenIDs,             \* the result token ids a caller may supply
  Results,              \* the throw results a caller may supply
  MaxResultQueueTokens  \* unresolved tokens one turn may hold (32 in the code)

ASSUME ConstantsAssumption ==
  /\ MaxResultQueueTokens \in Nat \ {0}
  /\ Results \subseteq {"do", "gae", "geol", "yut", "mo", "backdo", "buk"}

VARIABLES
  movementOrder,   \* "fifo" or "free", fixed by the room settings
  yutMoExtra,      \* whether yut and mo grant an extra throw
  phase,           \* domain.TurnPhase
  expectedOrigin,  \* cause of the throw that is pending, or NoOrigin
  selectedID,      \* {} or the singleton set of the selected token id
  tokens,          \* unresolved tokens in generation order
  seenIDs,         \* every id this queue has ever accepted
  throwingCapped   \* the queue reached its limit during this turn

settings == <<movementOrder, yutMoExtra>>
queue == <<tokens, seenIDs>>
vars == <<movementOrder, yutMoExtra, phase, expectedOrigin, selectedID,
          tokens, seenIDs, throwingCapped>>

Orders == {"fifo", "free"}
Origins == {"initial_throw", "yut_extra", "mo_extra", "capture_extra"}
NoOrigin == "none"   \* the zero ResultOrigin: no throw is pending
Phases == {"turn_start", "wait_throw", "throwing_chain", "resolve_queue",
           "wait_move_selection", "wait_route_selection", "apply_move",
           "resolve_stack_capture_finish", "resolve_buk", "turn_end",
           "match_end"}

ResultToken == [id : TokenIDs, result : Results, origin : Origins]
-----------------------------------------------------------------------------
(* The result queue *)

BukIndices == {i \in DOMAIN tokens : tokens[i].result = "buk"}

QueuedIDs == {tokens[i].id : i \in DOMAIN tokens}

\* Indices of the tokens the next resolution step may use: an unresolved Buk
\* alone, otherwise the head (fifo) or every token (free).
AvailableIndices ==
  IF BukIndices # {} THEN {i \in BukIndices : \A j \in BukIndices : i <= j}
  ELSE IF movementOrder = "fifo" THEN {i \in DOMAIN tokens : i = 1}
  ELSE DOMAIN tokens

\* Append rejects a known id, a full queue and a second unresolved Buk.
AppendAccepts(token) ==
  /\ token.id \notin seenIDs
  /\ Len(tokens) < MaxResultQueueTokens
  /\ token.result = "buk" => BukIndices = {}

\* The queue without the token at index i, the rest in order.
WithoutIndex(i) ==
  [j \in 1 .. (Len(tokens) - 1) |-> IF j < i THEN tokens[j] ELSE tokens[j + 1]]

\* Consume removes one available token; its id stays reserved in seenIDs.
Consume(id) ==
  /\ \E i \in AvailableIndices : tokens[i].id = id /\ tokens' = WithoutIndex(i)
  /\ UNCHANGED seenIDs
-----------------------------------------------------------------------------
(* The phase machine *)

\* setState replaces the phase, the throw origin and the selection at once;
\* the input the phase requires is a function of the phase and is left out.
SetState(newPhase, origin, selected) ==
  /\ phase' = newPhase
  /\ expectedOrigin' = origin
  /\ selectedID' = selected

NewMachine ==
  /\ movementOrder \in Orders
  /\ yutMoExtra \in BOOLEAN
  /\ phase = "turn_start"
  /\ expectedOrigin = NoOrigin
  /\ selectedID = {}
  /\ tokens = <<>>
  /\ seenIDs = {}
  /\ throwingCapped = FALSE

Init == NewMachine

Start ==
  /\ phase = "turn_start"
  /\ SetState("wait_throw", "initial_throw", {})
  /\ UNCHANGED <<settings, queue, throwingCapped>>

BeginThrow ==
  /\ phase = "wait_throw"
  /\ SetState("throwing_chain", expectedOrigin, {})
  /\ UNCHANGED <<settings, queue, throwingCapped>>

\* The token a caller builds for the throw in progress (performThrowLocked
\* passes on the origin that BeginThrow returned).
ThrownToken(id, result) ==
  [id |-> id, result |-> result, origin |-> expectedOrigin]

\* Mutant: the turn is sealed one token too late.
RecordThrow_SealsLate(id, result) ==
  /\ phase = "throwing_chain"
  /\ AppendAccepts(ThrownToken(id, result))
  /\ tokens' = Append(tokens, ThrownToken(id, result))
  /\ seenIDs' = seenIDs \union {id}
  /\ throwingCapped' = (throwingCapped \/ Len(tokens) + 1 > MaxResultQueueTokens)
  /\ \/ /\ ~throwingCapped' /\ yutMoExtra /\ result \in {"yut", "mo"}
        /\ SetState("wait_throw", "yut_extra", {})
     \/ /\ throwingCapped' \/ ~yutMoExtra \/ result \notin {"yut", "mo"}
        /\ SetState("resolve_queue", NoOrigin, {})
  /\ UNCHANGED settings

\* RecordThrow when the token is queued: the limit seals the turn, and only an
\* unsealed turn earns a yut or mo extra throw.
RecordThrow(id, result) ==
  /\ phase = "throwing_chain"
  /\ AppendAccepts(ThrownToken(id, result))
  /\ tokens' = Append(tokens, ThrownToken(id, result))
  /\ seenIDs' = seenIDs \union {id}
  /\ throwingCapped' = (throwingCapped \/ Len(tokens) + 1 >= MaxResultQueueTokens)
  /\ \/ /\ ~throwingCapped' /\ yutMoExtra /\ result = "yut"
        /\ SetState("wait_throw", "yut_extra", {})
     \/ /\ ~throwingCapped' /\ yutMoExtra /\ result = "mo"
        /\ SetState("wait_throw", "mo_extra", {})
     \/ /\ throwingCapped' \/ ~yutMoExtra \/ result \notin {"yut", "mo"}
        /\ SetState("resolve_queue", NoOrigin, {})
  /\ UNCHANGED settings

ResolveQueue ==
  /\ phase = "resolve_queue"
  /\ \/ /\ AvailableIndices = {}
        /\ SetState("turn_end", NoOrigin, {})
     \/ \E i \in AvailableIndices :
          /\ \A j \in AvailableIndices : i <= j
          /\ IF tokens[i].result = "buk"
             THEN SetState("resolve_buk", NoOrigin, {tokens[i].id})
             ELSE SetState("wait_move_selection", NoOrigin, {})
  /\ UNCHANGED <<settings, queue, throwingCapped>>

\* An exposed ordinary token, the only kind a player may select or discard.
OrdinaryAvailable(id) ==
  \E i \in AvailableIndices : tokens[i].id = id /\ tokens[i].result # "buk"

\* Mutant: any queued token may be selected, available or not.
SelectMove_AnyQueued(id, routeRequired) ==
  /\ phase = "wait_move_selection"
  /\ id \in QueuedIDs
  /\ SetState(IF routeRequired THEN "wait_route_selection" ELSE "apply_move",
              NoOrigin, {id})
  /\ UNCHANGED <<settings, queue, throwingCapped>>

SelectMove(id, routeRequired) ==
  /\ phase = "wait_move_selection"
  /\ OrdinaryAvailable(id)
  /\ SetState(IF routeRequired THEN "wait_route_selection" ELSE "apply_move",
              NoOrigin, {id})
  /\ UNCHANGED <<settings, queue, throwingCapped>>

RouteSelected(id) ==
  /\ phase = "wait_route_selection"
  /\ selectedID = {id}
  /\ SetState("apply_move", NoOrigin, {id})
  /\ UNCHANGED <<settings, queue, throwingCapped>>

MoveApplied(id) ==
  /\ phase = "apply_move"
  /\ selectedID = {id}
  /\ SetState("resolve_stack_capture_finish", NoOrigin, {id})
  /\ UNCHANGED <<settings, queue, throwingCapped>>

\* Mutant: a capture earns its throw even when the turn is sealed.
AdvanceAfterResolution_CaptureFirst(captureExtra, matchEnded) ==
  \/ matchEnded /\ SetState("match_end", NoOrigin, {})
  \/ ~matchEnded /\ ~captureExtra /\ SetState("resolve_queue", NoOrigin, {})
  \/ ~matchEnded /\ captureExtra /\ SetState("wait_throw", "capture_extra", {})

\* advanceAfterResolution: match end beats the seal, the seal beats a capture.
AdvanceAfterResolution(captureExtra, matchEnded) ==
  \/ matchEnded /\ SetState("match_end", NoOrigin, {})
  \/ ~matchEnded /\ (throwingCapped \/ ~captureExtra)
       /\ SetState("resolve_queue", NoOrigin, {})
  \/ ~matchEnded /\ ~throwingCapped /\ captureExtra
       /\ SetState("wait_throw", "capture_extra", {})

\* MoveOutcome.Validate rejects a capture throw after the match ended.
CompleteMove(id, captureExtra, matchEnded) ==
  /\ ~(captureExtra /\ matchEnded)
  /\ phase = "resolve_stack_capture_finish"
  /\ selectedID = {id}
  /\ Consume(id)
  /\ AdvanceAfterResolution(captureExtra, matchEnded)
  /\ UNCHANGED <<settings, throwingCapped>>

\* Mutant: the unusable token is skipped but stays in the queue.
DiscardUnusableResult_KeepsToken(id) ==
  /\ phase = "wait_move_selection"
  /\ OrdinaryAvailable(id)
  /\ SetState("resolve_queue", NoOrigin, {})
  /\ UNCHANGED <<settings, queue, throwingCapped>>

DiscardUnusableResult(id) ==
  /\ phase = "wait_move_selection"
  /\ OrdinaryAvailable(id)
  /\ Consume(id)
  /\ SetState("resolve_queue", NoOrigin, {})
  /\ UNCHANGED <<settings, throwingCapped>>

\* BukOutcome.Validate makes the three outcomes mutually exclusive.
CompleteBuk(id, noCandidate, captureExtra, matchEnded) ==
  /\ ~(noCandidate /\ (captureExtra \/ matchEnded))
  /\ ~(captureExtra /\ matchEnded)
  /\ phase = "resolve_buk"
  /\ selectedID = {id}
  /\ Consume(id)
  /\ IF noCandidate THEN SetState("turn_end", NoOrigin, {})
     ELSE AdvanceAfterResolution(captureExtra, matchEnded)
  /\ UNCHANGED <<settings, throwingCapped>>

Next ==
  \/ Start
  \/ BeginThrow
  \/ \E id \in TokenIDs, result \in Results : RecordThrow(id, result)
  \/ ResolveQueue
  \/ \E id \in TokenIDs, routeRequired \in BOOLEAN : SelectMove(id, routeRequired)
  \/ \E id \in TokenIDs : RouteSelected(id)
  \/ \E id \in TokenIDs : MoveApplied(id)
  \/ \E id \in TokenIDs, captureExtra, matchEnded \in BOOLEAN :
       CompleteMove(id, captureExtra, matchEnded)
  \/ \E id \in TokenIDs : DiscardUnusableResult(id)
  \/ \E id \in TokenIDs, noCandidate, captureExtra, matchEnded \in BOOLEAN :
       CompleteBuk(id, noCandidate, captureExtra, matchEnded)

Spec == Init /\ [][Next]_vars

\* The runtime never leaves a turn alone: whatever input is pending arrives
\* from the player or, at the deadline, from the CPU (fireTurnTimeout).
FairSpec == Spec /\ WF_vars(Next)
-----------------------------------------------------------------------------
(* Properties *)

\* Type correctness of the machine and its queue.
TypeOK ==
  /\ movementOrder \in Orders
  /\ yutMoExtra \in BOOLEAN
  /\ phase \in Phases
  /\ expectedOrigin \in Origins \union {NoOrigin}
  /\ selectedID \in SUBSET TokenIDs
  /\ tokens \in Seq(ResultToken)
  /\ seenIDs \in SUBSET TokenIDs
  /\ throwingCapped \in BOOLEAN

SelectionPhases ==
  {"wait_route_selection", "apply_move", "resolve_stack_capture_finish"}

\* Once a throw is awaited or under way, RecordThrow cannot reject a token
\* with a fresh id: the queue has room and holds no Buk that a second Buk
\* could stack on. A rejection would leave the turn in throwing_chain, a
\* phase that no command and no CPU step can leave.
ThrowIsRecordable ==
  phase \in {"wait_throw", "throwing_chain"} =>
    /\ Len(tokens) < MaxResultQueueTokens
    /\ BukIndices = {}

\* The token selected some calls ago is still there and still available when
\* the completing call consumes it, and only resolve_buk holds a Buk: so
\* CompleteMove and CompleteBuk never fail in Consume after the pieces of the
\* game have already been moved.
SelectedIsConsumable ==
  /\ phase \in SelectionPhases =>
       \E id \in TokenIDs : selectedID = {id} /\ OrdinaryAvailable(id)
  /\ phase = "resolve_buk" =>
       \E i \in AvailableIndices : /\ selectedID = {tokens[i].id}
                                   /\ tokens[i].result = "buk"

\* Buk is resolved before everything else: while a player chooses or moves,
\* no unresolved Buk waits in the queue, and there is never more than one.
BukResolvedFirst ==
  /\ phase \in SelectionPhases \union {"wait_move_selection"} => BukIndices = {}
  /\ \A i, j \in BukIndices : i = j

\* A sealed turn is recognisable by its limit: the queue is full only when the
\* turn is sealed, whatever was thrown, captured or discarded before.
FullQueueIsSealed ==
  /\ Len(tokens) <= MaxResultQueueTokens
  /\ Len(tokens) = MaxResultQueueTokens => throwingCapped

\* No token is used twice: an id that left the queue never enters it again,
\* and a token that entered the queue is one that was thrown.
ConsumedStaysConsumed ==
  [][(seenIDs \ QueuedIDs) \subseteq (seenIDs' \ QueuedIDs')]_vars

\* After the seal no step of the turn adds a token, captures included.
SealedTurnAddsNothing ==
  [][throwingCapped => seenIDs' = seenIDs /\ throwingCapped']_vars

\* Under fifo the tokens still queued are always the newest ones thrown, in
\* order, a Buk excepted: consumption never skips an older ordinary token.
FifoConsumesOldest ==
  [][ movementOrder = "fifo" /\ Len(tokens') < Len(tokens)
      => \/ tokens' = Tail(tokens)
         \/ tokens[Len(tokens)].result = "buk" /\ tokens' = SubSeq(tokens, 1, Len(tokens) - 1)
    ]_vars

\* A sealed turn comes to its end: once the seal is set the remaining tokens
\* are resolved one by one and the turn, or the match, ends.
SealedTurnEnds == throwingCapped ~> phase \in {"turn_end", "match_end"}
=============================================================================
