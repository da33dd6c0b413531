------------------------- MODULE TurnMachineProofs -------------------------
(***************************************************************************)
(* Proofs about TurnMachine for every set of token ids and results and     *)
(* every queue limit.                                                      *)
(***************************************************************************)
EXTENDS TurnMachine, TLAPS, SequenceTheorems

\* Queued ids are distinct and reserved, so an id names one token.
UniqueIDs ==
  /\ \A i, j \in DOMAIN tokens : tokens[i].id = tokens[j].id => i = j
  /\ QueuedIDs \subseteq seenIDs

\* A throw is only ever pending in an unsealed turn, and it has a cause.
PendingThrow ==
  phase \in {"wait_throw", "throwing_chain"} =>
    ~throwingCapped /\ expectedOrigin \in Origins

\* Nothing has been thrown before the turn starts.
FreshTurn ==
  phase = "turn_start" => ~throwingCapped /\ Len(tokens) = 0 /\ BukIndices = {}

\* The inductive invariant: the safety invariants of the machine together
\* with the facts about ids, pending throws and fresh turns they rest on.
IInv ==
  /\ TypeOK
  /\ FreshTurn
  /\ UniqueIDs
  /\ PendingThrow
  /\ ThrowIsRecordable
  /\ SelectedIsConsumable
  /\ BukResolvedFirst
  /\ FullQueueIsSealed
-----------------------------------------------------------------------------
(* The queue operators *)

\* Removing one index keeps every other token, in order.
LEMMA WithoutIndexFacts ==
  ASSUME tokens \in Seq(ResultToken), NEW i \in DOMAIN tokens
  PROVE  /\ WithoutIndex(i) \in Seq(ResultToken)
         /\ Len(WithoutIndex(i)) = Len(tokens) - 1
         /\ DOMAIN WithoutIndex(i) = 1 .. (Len(tokens) - 1)
         /\ \A j \in 1 .. (Len(tokens) - 1) :
              WithoutIndex(i)[j] = IF j < i THEN tokens[j] ELSE tokens[j + 1]
<1>1. Len(tokens) \in Nat /\ DOMAIN tokens = 1 .. Len(tokens)
  OBVIOUS
<1>2. Len(tokens) - 1 \in Nat
  BY <1>1
<1>3. \A j \in 1 .. (Len(tokens) - 1) :
         (IF j < i THEN tokens[j] ELSE tokens[j + 1]) \in ResultToken
  BY <1>1, <1>2
<1>4. WithoutIndex(i) \in [1 .. (Len(tokens) - 1) -> ResultToken]
  BY <1>3 DEF WithoutIndex
<1>5. WithoutIndex(i) \in Seq(ResultToken)
  BY <1>2, <1>4, SeqDef
<1> QED
  BY <1>2, <1>4, <1>5 DEF WithoutIndex

\* Available tokens are queued tokens.
LEMMA AvailableIsQueued ==
  ASSUME tokens \in Seq(ResultToken)
  PROVE  AvailableIndices \subseteq DOMAIN tokens
BY DEF AvailableIndices, BukIndices

\* Consume removes exactly the token it names: the queue gets one shorter, the
\* other ids stay queued and distinct, and no Buk appears.
LEMMA ConsumeFacts ==
  ASSUME TypeOK, UniqueIDs, \A i, j \in BukIndices : i = j,
         NEW id, Consume(id)
  PROVE  /\ tokens' \in Seq(ResultToken)
         /\ Len(tokens') = Len(tokens) - 1
         /\ UniqueIDs'
         /\ id \notin QueuedIDs'
         /\ QueuedIDs' = QueuedIDs \ {id}
         /\ \A k, l \in BukIndices' : k = l
         /\ BukIndices # {} \/ BukIndices' = {}
         /\ (\E i \in BukIndices : tokens[i].id = id) => BukIndices' = {}
<1>1. PICK i \in AvailableIndices : tokens[i].id = id /\ tokens' = WithoutIndex(i)
  BY DEF Consume
<1>2. tokens \in Seq(ResultToken) /\ i \in DOMAIN tokens
  BY <1>1, AvailableIsQueued DEF TypeOK
<1>3. /\ tokens' \in Seq(ResultToken)
      /\ Len(tokens') = Len(tokens) - 1
      /\ DOMAIN tokens' = 1 .. (Len(tokens) - 1)
      /\ \A j \in 1 .. (Len(tokens) - 1) :
           tokens'[j] = IF j < i THEN tokens[j] ELSE tokens[j + 1]
  BY <1>1, <1>2, WithoutIndexFacts
<1>4. Len(tokens) \in Nat /\ DOMAIN tokens = 1 .. Len(tokens) /\ i \in 1 .. Len(tokens)
  BY <1>2
<1>5. seenIDs' = seenIDs
  BY DEF Consume
<1> DEFINE old(j) == IF j < i THEN j ELSE j + 1
<1>6. \A j \in DOMAIN tokens' : /\ old(j) \in DOMAIN tokens
                               /\ old(j) # i
                               /\ tokens'[j] = tokens[old(j)]
  BY <1>3, <1>4
<1>7. \A j, k \in DOMAIN tokens' : old(j) = old(k) => j = k
  BY <1>3, <1>4
<1>8. \A m \in DOMAIN tokens \ {i} : \E j \in DOMAIN tokens' : old(j) = m
  <2> SUFFICES ASSUME NEW m \in DOMAIN tokens \ {i}
               PROVE  \E j \in DOMAIN tokens' : old(j) = m
    OBVIOUS
  <2>1. CASE m < i
    BY <2>1, <1>3, <1>4
  <2>2. CASE m > i
    <3>1. m - 1 \in DOMAIN tokens' /\ old(m - 1) = m
      BY <2>2, <1>3, <1>4
    <3> QED
      BY <3>1
  <2> QED
    BY <2>1, <2>2, <1>4
<1> HIDE DEF old
<1>9. \A j, k \in DOMAIN tokens' : tokens'[j].id = tokens'[k].id => j = k
  BY <1>6, <1>7 DEF UniqueIDs
<1>10. id \notin QueuedIDs'
  BY <1>1, <1>2, <1>6 DEF UniqueIDs, QueuedIDs
<1>11. QueuedIDs' \subseteq QueuedIDs
  BY <1>6 DEF QueuedIDs
<1>12. QueuedIDs \ {id} \subseteq QueuedIDs'
  <2> SUFFICES ASSUME NEW m \in DOMAIN tokens, tokens[m].id # id
               PROVE  tokens[m].id \in QueuedIDs'
    BY DEF QueuedIDs
  <2>1. m # i
    BY <1>1
  <2>2. PICK j \in DOMAIN tokens' : old(j) = m
    BY <2>1, <1>8
  <2>3. tokens'[j].id = tokens[m].id
    BY <2>2, <1>6
  <2> QED
    BY <2>3 DEF QueuedIDs
<1>13. \A k \in BukIndices' : old(k) \in BukIndices /\ old(k) # i /\ k \in DOMAIN tokens'
  BY <1>6 DEF BukIndices
<1>14. \A k, l \in BukIndices' : k = l
  BY <1>13, <1>7
<1>15. BukIndices # {} \/ BukIndices' = {}
  BY <1>13
<1>16. (\E m \in BukIndices : tokens[m].id = id) => BukIndices' = {}
  <2> SUFFICES ASSUME NEW m \in BukIndices, tokens[m].id = id
               PROVE  BukIndices' = {}
    OBVIOUS
  <2>1. m = i
    BY <1>1, <1>2 DEF UniqueIDs, BukIndices
  <2> QED
    BY <2>1, <1>13
<1>17. UniqueIDs'
  BY <1>5, <1>9, <1>11 DEF UniqueIDs
<1>18. QueuedIDs' = QueuedIDs \ {id}
  BY <1>10, <1>11, <1>12
<1> QED
  BY <1>3, <1>10, <1>14, <1>15, <1>16, <1>17, <1>18

\* Appending the thrown token at the tail.
LEMMA AppendFacts ==
  ASSUME TypeOK, UniqueIDs, BukIndices = {}, expectedOrigin \in Origins,
         NEW id \in TokenIDs, NEW result \in Results, id \notin seenIDs,
         tokens' = Append(tokens, ThrownToken(id, result)),
         seenIDs' = seenIDs \union {id}
  PROVE  /\ tokens' \in Seq(ResultToken)
         /\ Len(tokens') = Len(tokens) + 1
         /\ UniqueIDs'
         /\ \A k, l \in BukIndices' : k = l
         /\ result # "buk" => BukIndices' = {}
         /\ QueuedIDs' = QueuedIDs \union {id}
<1>0. tokens \in Seq(ResultToken)
  BY DEF TypeOK
<1>1. Len(tokens) \in Nat /\ DOMAIN tokens = 1 .. Len(tokens)
  BY <1>0
<1>2. ThrownToken(id, result) \in ResultToken
  BY DEF ThrownToken, ResultToken
<1>3. tokens' \in Seq(ResultToken) /\ Len(tokens') = Len(tokens) + 1
  BY <1>0, <1>2
<1>4. /\ DOMAIN tokens' = 1 .. (Len(tokens) + 1)
      /\ \A j \in DOMAIN tokens : tokens'[j] = tokens[j]
      /\ tokens'[Len(tokens) + 1] = ThrownToken(id, result)
  BY <1>0, <1>1, <1>2
<1>5. tokens'[Len(tokens) + 1].id = id /\ tokens'[Len(tokens) + 1].result = result
  BY <1>4 DEF ThrownToken
<1>6. \A j \in DOMAIN tokens' : j \in DOMAIN tokens \/ j = Len(tokens) + 1
  BY <1>1, <1>4
<1>7. \A j \in DOMAIN tokens : tokens[j].id # id
  BY DEF UniqueIDs, QueuedIDs
<1>8. UniqueIDs'
  <2>1. \A i, j \in DOMAIN tokens' : tokens'[i].id = tokens'[j].id => i = j
    BY <1>4, <1>5, <1>6, <1>7 DEF UniqueIDs
  <2>2. QueuedIDs' \subseteq seenIDs'
    BY <1>4, <1>5, <1>6 DEF UniqueIDs, QueuedIDs
  <2> QED
    BY <2>1, <2>2 DEF UniqueIDs
<1>9. \A j \in BukIndices' : j = Len(tokens) + 1 /\ result = "buk"
  BY <1>4, <1>5, <1>6 DEF BukIndices
<1>10. QueuedIDs' = QueuedIDs \union {id}
  <2>1. QueuedIDs' \subseteq QueuedIDs \union {id}
    BY <1>4, <1>5, <1>6 DEF QueuedIDs
  <2>2. DOMAIN tokens \subseteq DOMAIN tokens' /\ Len(tokens) + 1 \in DOMAIN tokens'
    BY <1>1, <1>4
  <2>3. QueuedIDs \union {id} \subseteq QueuedIDs'
    BY <1>4, <1>5, <2>2 DEF QueuedIDs
  <2> QED
    BY <2>1, <2>3
<1> QED
  BY <1>3, <1>8, <1>9, <1>10
-----------------------------------------------------------------------------
(* The invariant *)

LEMMA InitIInv == Init => IInv
<1> SUFFICES ASSUME Init PROVE IInv
  OBVIOUS
<1>1. /\ movementOrder \in Orders /\ yutMoExtra \in BOOLEAN
      /\ phase = "turn_start" /\ expectedOrigin = NoOrigin /\ selectedID = {}
      /\ tokens = <<>> /\ seenIDs = {} /\ throwingCapped = FALSE
  BY DEF Init, NewMachine
<1>2. tokens \in Seq(ResultToken) /\ Len(tokens) = 0
  BY <1>1, EmptySeq
<1>3. DOMAIN tokens = {}
  BY <1>2
<1>4. BukIndices = {}
  BY <1>3 DEF BukIndices
<1>5. TypeOK
  BY <1>1, <1>2 DEF TypeOK, Phases
<1>6. UniqueIDs /\ PendingThrow /\ ThrowIsRecordable /\ SelectedIsConsumable
  BY <1>1, <1>3 DEF UniqueIDs, QueuedIDs, PendingThrow, ThrowIsRecordable,
                    SelectedIsConsumable, SelectionPhases
<1>7. BukResolvedFirst /\ FullQueueIsSealed
  BY <1>2, <1>4, ConstantsAssumption
     DEF BukResolvedFirst, FullQueueIsSealed, SelectionPhases
<1>8. FreshTurn
  BY <1>1, <1>2, <1>4 DEF FreshTurn
<1> QED
  BY <1>5, <1>6, <1>7, <1>8 DEF IInv

\* A step that leaves the queue, the settings and the seal alone changes
\* nothing that the queue operators read.
LEMMA SameQueue ==
  ASSUME UNCHANGED <<settings, queue, throwingCapped>>
  PROVE  /\ tokens' = tokens /\ seenIDs' = seenIDs
         /\ movementOrder' = movementOrder /\ yutMoExtra' = yutMoExtra
         /\ throwingCapped' = throwingCapped
         /\ BukIndices' = BukIndices
         /\ AvailableIndices' = AvailableIndices
         /\ QueuedIDs' = QueuedIDs
         /\ UniqueIDs' = UniqueIDs
         /\ \A id \in TokenIDs : OrdinaryAvailable(id)' = OrdinaryAvailable(id)
BY DEF settings, queue, BukIndices, AvailableIndices, QueuedIDs, UniqueIDs,
       OrdinaryAvailable

\* The steps that only move the phase: what the invariant says of the queue
\* carries over, and the new phase is one the old phase prepared.
LEMMA PhaseStepIInv ==
  ASSUME IInv, UNCHANGED <<settings, queue, throwingCapped>>,
         NEW newPhase \in Phases \ {"turn_start"}, NEW origin \in Origins \union {NoOrigin},
         NEW selected \in SUBSET TokenIDs, SetState(newPhase, origin, selected),
         newPhase \in {"wait_throw", "throwing_chain"} =>
            /\ ~throwingCapped /\ origin \in Origins
            /\ Len(tokens) < MaxResultQueueTokens /\ BukIndices = {},
         newPhase \in SelectionPhases =>
            \E id \in TokenIDs : selected = {id} /\ OrdinaryAvailable(id),
         newPhase = "resolve_buk" =>
            \E i \in AvailableIndices : selected = {tokens[i].id} /\ tokens[i].result = "buk",
         newPhase \in SelectionPhases \union {"wait_move_selection"} => BukIndices = {}
  PROVE  IInv'
<1> USE SameQueue DEF SetState
<1>1. TypeOK'
  BY DEF IInv, TypeOK
<1>2. UniqueIDs' /\ PendingThrow' /\ ThrowIsRecordable'
  BY DEF IInv, PendingThrow, ThrowIsRecordable
<1>3. SelectedIsConsumable'
  BY DEF SelectedIsConsumable, SelectionPhases
<1>4. BukResolvedFirst' /\ FullQueueIsSealed'
  BY DEF IInv, BukResolvedFirst, FullQueueIsSealed, SelectionPhases
<1>5. FreshTurn'
  BY DEF FreshTurn
<1> QED
  BY <1>1, <1>2, <1>3, <1>4, <1>5 DEF IInv

\* The steps that consume a token: the queue is one shorter than the limit at
\* least, so a throw they grant can be recorded.
LEMMA ConsumeStepIInv ==
  ASSUME IInv, NEW id \in TokenIDs, Consume(id), UNCHANGED settings,
         throwingCapped' = throwingCapped,
         NEW newPhase \in {"resolve_queue", "wait_throw", "turn_end", "match_end"},
         NEW origin \in Origins \union {NoOrigin},
         phase' = newPhase, expectedOrigin' = origin, selectedID' = {},
         newPhase = "wait_throw" => /\ ~throwingCapped /\ origin \in Origins
                                    /\ BukIndices' = {}
  PROVE  IInv'
<1>0. UniqueIDs' /\ \A k, l \in BukIndices' : k = l
  BY ConsumeFacts DEF IInv, BukResolvedFirst
<1>1. tokens' \in Seq(ResultToken) /\ Len(tokens') = Len(tokens) - 1
  BY ConsumeFacts DEF IInv, BukResolvedFirst
<1>2. tokens \in Seq(ResultToken) /\ MaxResultQueueTokens \in Nat
  BY ConstantsAssumption DEF IInv, TypeOK
<1>3. Len(tokens) \in Nat /\ Len(tokens') \in Nat /\ Len(tokens') < MaxResultQueueTokens
  <2>1. Len(tokens) <= MaxResultQueueTokens
    BY DEF IInv, FullQueueIsSealed
  <2>2. Len(tokens) \in Nat /\ Len(tokens') \in Nat
    BY <1>1, <1>2
  <2> QED
    BY <2>1, <2>2, <1>1, <1>2
<1>4. seenIDs' = seenIDs /\ phase' = newPhase /\ expectedOrigin' = origin
      /\ selectedID' = {} /\ movementOrder' = movementOrder
      /\ yutMoExtra' = yutMoExtra /\ throwingCapped' = throwingCapped
  BY DEF Consume, SetState, settings
<1>5. TypeOK'
  BY <1>1, <1>4 DEF IInv, TypeOK, Phases
<1>6. PendingThrow'
  BY <1>4 DEF PendingThrow
<1>6a. ThrowIsRecordable'
  BY <1>3, <1>4 DEF ThrowIsRecordable
<1>7. SelectedIsConsumable'
  BY <1>4 DEF SelectedIsConsumable, SelectionPhases
<1>8. BukResolvedFirst'
  BY <1>0, <1>4 DEF BukResolvedFirst, SelectionPhases
<1>9. FullQueueIsSealed'
  <2>1. Len(tokens') <= MaxResultQueueTokens /\ Len(tokens') # MaxResultQueueTokens
    BY <1>2, <1>3
  <2> QED
    BY <2>1 DEF FullQueueIsSealed
<1>10. FreshTurn'
  BY <1>4 DEF FreshTurn
<1> QED
  BY <1>0, <1>5, <1>6, <1>6a, <1>7, <1>8, <1>9, <1>10 DEF IInv

LEMMA RecordThrowIInv ==
  ASSUME IInv, NEW id \in TokenIDs, NEW result \in Results, RecordThrow(id, result)
  PROVE  IInv'
<1>1. /\ id \notin seenIDs /\ tokens' = Append(tokens, ThrownToken(id, result))
      /\ seenIDs' = seenIDs \union {id}
      /\ throwingCapped' = (throwingCapped \/ Len(tokens) + 1 >= MaxResultQueueTokens)
      /\ Len(tokens) < MaxResultQueueTokens
      /\ movementOrder' = movementOrder /\ yutMoExtra' = yutMoExtra
  BY DEF RecordThrow, AppendAccepts, ThrownToken, settings
<1>2. phase = "throwing_chain"
  BY DEF RecordThrow
<1>3. BukIndices = {} /\ expectedOrigin \in Origins
  BY <1>2 DEF IInv, ThrowIsRecordable, PendingThrow
<1>4. /\ tokens' \in Seq(ResultToken) /\ Len(tokens') = Len(tokens) + 1
      /\ UniqueIDs' /\ \A k, l \in BukIndices' : k = l
      /\ result # "buk" => BukIndices' = {}
  BY <1>1, <1>3, AppendFacts DEF IInv
<1>5. tokens \in Seq(ResultToken) /\ MaxResultQueueTokens \in Nat
  BY ConstantsAssumption DEF IInv, TypeOK
<1>6. Len(tokens) \in Nat
  BY <1>5
<1>7. /\ selectedID' = {}
      /\ \/ /\ phase' = "wait_throw" /\ ~throwingCapped' /\ result # "buk"
            /\ expectedOrigin' \in {"yut_extra", "mo_extra"}
         \/ phase' = "resolve_queue" /\ expectedOrigin' = NoOrigin
  BY DEF RecordThrow, SetState
<1>8. TypeOK'
  <2>1. throwingCapped' \in BOOLEAN
    BY <1>1, <1>5, <1>6 DEF IInv, TypeOK
  <2>2. movementOrder' \in Orders /\ yutMoExtra' \in BOOLEAN /\ seenIDs' \in SUBSET TokenIDs
    BY <1>1 DEF IInv, TypeOK
  <2>3. phase' \in Phases /\ expectedOrigin' \in Origins \union {NoOrigin}
        /\ selectedID' \in SUBSET TokenIDs
    BY <1>7 DEF Phases, Origins
  <2> QED
    BY <2>1, <2>2, <2>3, <1>4 DEF TypeOK
<1>9. PendingThrow'
  BY <1>7 DEF PendingThrow, Origins
<1>10. ThrowIsRecordable'
  <2> SUFFICES ASSUME phase' \in {"wait_throw", "throwing_chain"}
               PROVE  Len(tokens') < MaxResultQueueTokens /\ BukIndices' = {}
    BY DEF ThrowIsRecordable
  <2>1. ~throwingCapped' /\ result # "buk"
    BY <1>7
  <2>2. ~(Len(tokens) + 1 >= MaxResultQueueTokens)
    BY <2>1, <1>1
  <2> QED
    BY <2>1, <2>2, <1>4, <1>5, <1>6
<1>11. SelectedIsConsumable' /\ BukResolvedFirst'
  BY <1>4, <1>7 DEF SelectedIsConsumable, BukResolvedFirst, SelectionPhases
<1>12. FullQueueIsSealed'
  <2>1. Len(tokens') <= MaxResultQueueTokens
    BY <1>1, <1>4, <1>5, <1>6
  <2>2. Len(tokens') = MaxResultQueueTokens => Len(tokens) + 1 >= MaxResultQueueTokens
    BY <1>4, <1>5, <1>6
  <2> QED
    BY <2>1, <2>2, <1>1 DEF FullQueueIsSealed
<1>13. FreshTurn'
  BY <1>7 DEF FreshTurn
<1> QED
  BY <1>4, <1>8, <1>9, <1>10, <1>11, <1>12, <1>13 DEF IInv

\* Resolving a token grants a throw only in an unsealed turn.
LEMMA AdvanceFacts ==
  ASSUME NEW captureExtra \in BOOLEAN, NEW matchEnded \in BOOLEAN,
         AdvanceAfterResolution(captureExtra, matchEnded)
  PROVE  /\ phase' \in {"resolve_queue", "wait_throw", "match_end"}
         /\ expectedOrigin' \in Origins \union {NoOrigin}
         /\ selectedID' = {}
         /\ phase' = "wait_throw" => ~throwingCapped /\ expectedOrigin' \in Origins
BY DEF AdvanceAfterResolution, SetState, Origins

LEMMA CompleteMoveIInv ==
  ASSUME IInv, NEW id \in TokenIDs, NEW captureExtra \in BOOLEAN,
         NEW matchEnded \in BOOLEAN, CompleteMove(id, captureExtra, matchEnded)
  PROVE  IInv'
<1>1. Consume(id) /\ UNCHANGED settings /\ throwingCapped' = throwingCapped
      /\ AdvanceAfterResolution(captureExtra, matchEnded)
      /\ phase = "resolve_stack_capture_finish"
  BY DEF CompleteMove, settings
<1>2. BukIndices = {} /\ \A i, j \in BukIndices : i = j
  BY <1>1 DEF IInv, BukResolvedFirst, SelectionPhases
<1>3. BukIndices' = {}
  BY <1>1, <1>2, ConsumeFacts DEF IInv
<1> QED
  BY <1>1, <1>3, AdvanceFacts, ConsumeStepIInv

LEMMA DiscardUnusableResultIInv ==
  ASSUME IInv, NEW id \in TokenIDs, DiscardUnusableResult(id)
  PROVE  IInv'
<1>1. Consume(id) /\ UNCHANGED settings /\ throwingCapped' = throwingCapped
      /\ phase' = "resolve_queue" /\ expectedOrigin' = NoOrigin /\ selectedID' = {}
  BY DEF DiscardUnusableResult, SetState, settings
<1> QED
  BY <1>1, ConsumeStepIInv

LEMMA CompleteBukIInv ==
  ASSUME IInv, NEW id \in TokenIDs, NEW noCandidate \in BOOLEAN,
         NEW captureExtra \in BOOLEAN, NEW matchEnded \in BOOLEAN,
         CompleteBuk(id, noCandidate, captureExtra, matchEnded)
  PROVE  IInv'
<1>1. Consume(id) /\ UNCHANGED settings /\ throwingCapped' = throwingCapped
      /\ phase = "resolve_buk" /\ selectedID = {id}
  BY DEF CompleteBuk, settings
<1>2. \E i \in BukIndices : tokens[i].id = id
  <2>1. PICK i \in AvailableIndices : selectedID = {tokens[i].id} /\ tokens[i].result = "buk"
    BY <1>1 DEF IInv, SelectedIsConsumable
  <2>2. i \in DOMAIN tokens
    BY AvailableIsQueued DEF IInv, TypeOK
  <2> QED
    BY <1>1, <2>1, <2>2 DEF BukIndices
<1>3. BukIndices' = {}
  BY <1>1, <1>2, ConsumeFacts DEF IInv, BukResolvedFirst
<1>4. CASE noCandidate
  <2>1. phase' = "turn_end" /\ expectedOrigin' = NoOrigin /\ selectedID' = {}
    BY <1>4 DEF CompleteBuk, SetState
  <2> QED
    BY <1>1, <2>1, ConsumeStepIInv
<1>5. CASE ~noCandidate
  <2>1. AdvanceAfterResolution(captureExtra, matchEnded)
    BY <1>5 DEF CompleteBuk
  <2> QED
    BY <1>1, <1>3, <2>1, AdvanceFacts, ConsumeStepIInv
<1> QED
  BY <1>4, <1>5

LEMMA NextIInv == IInv /\ [Next]_vars => IInv'
<1> SUFFICES ASSUME IInv, [Next]_vars PROVE IInv'
  OBVIOUS
<1>1. CASE Start
  <2>1. SetState("wait_throw", "initial_throw", {}) /\ UNCHANGED <<settings, queue, throwingCapped>>
        /\ phase = "turn_start"
    BY <1>1 DEF Start
  <2>2. ~throwingCapped /\ Len(tokens) = 0 /\ BukIndices = {}
    BY <2>1 DEF IInv, FreshTurn
  <2>3. Len(tokens) < MaxResultQueueTokens
    BY <2>2, ConstantsAssumption
  <2> QED
    BY <2>1, <2>2, <2>3, PhaseStepIInv DEF Phases, Origins, SelectionPhases
<1>2. CASE BeginThrow
  <2>1. SetState("throwing_chain", expectedOrigin, {}) /\ phase = "wait_throw"
        /\ UNCHANGED <<settings, queue, throwingCapped>>
    BY <1>2 DEF BeginThrow
  <2>2. /\ ~throwingCapped /\ expectedOrigin \in Origins
        /\ Len(tokens) < MaxResultQueueTokens /\ BukIndices = {}
    BY <2>1 DEF IInv, PendingThrow, ThrowIsRecordable
  <2> QED
    BY <2>1, <2>2, PhaseStepIInv DEF Phases, SelectionPhases
<1>3. CASE \E id \in TokenIDs, result \in Results : RecordThrow(id, result)
  BY <1>3, RecordThrowIInv
<1>4. CASE ResolveQueue
  <2>1. UNCHANGED <<settings, queue, throwingCapped>>
    BY <1>4 DEF ResolveQueue
  <2>2. CASE SetState("turn_end", NoOrigin, {})
    BY <2>1, <2>2, PhaseStepIInv DEF Phases, SelectionPhases
  <2>3. CASE \E i \in AvailableIndices : /\ tokens[i].result = "buk"
                                         /\ SetState("resolve_buk", NoOrigin, {tokens[i].id})
    <3>1. PICK i \in AvailableIndices : /\ tokens[i].result = "buk"
                                         /\ SetState("resolve_buk", NoOrigin, {tokens[i].id})
      BY <2>3
    <3>2. tokens \in Seq(ResultToken)
      BY DEF IInv, TypeOK
    <3>3. i \in DOMAIN tokens
      BY <3>2, AvailableIsQueued
    <3>4. tokens[i] \in ResultToken
      BY <3>2, <3>3
    <3>5. tokens[i].id \in TokenIDs
      BY <3>4 DEF ResultToken
    <3>6. {tokens[i].id} \in SUBSET TokenIDs
      BY <3>5
    <3>7. \E j \in AvailableIndices : /\ {tokens[i].id} = {tokens[j].id}
                                     /\ tokens[j].result = "buk"
      BY <3>1
    <3> QED
      BY <2>1, <3>1, <3>6, <3>7, PhaseStepIInv DEF Phases, SelectionPhases
  <2>4. CASE \E i \in AvailableIndices : /\ tokens[i].result # "buk"
                                         /\ SetState("wait_move_selection", NoOrigin, {})
    <3>1. BukIndices = {} /\ SetState("wait_move_selection", NoOrigin, {})
      BY <2>4 DEF AvailableIndices, BukIndices
    <3> QED
      BY <2>1, <3>1, PhaseStepIInv DEF Phases, SelectionPhases
  <2> QED
    BY <1>4, <2>2, <2>3, <2>4 DEF ResolveQueue
<1>5. CASE \E id \in TokenIDs, routeRequired \in BOOLEAN : SelectMove(id, routeRequired)
  <2>1. PICK id \in TokenIDs, routeRequired \in BOOLEAN : SelectMove(id, routeRequired)
    BY <1>5
  <2>2. PICK p \in {"wait_route_selection", "apply_move"} : SetState(p, NoOrigin, {id})
    BY <2>1 DEF SelectMove
  <2>3. /\ phase = "wait_move_selection" /\ OrdinaryAvailable(id)
        /\ UNCHANGED <<settings, queue, throwingCapped>>
    BY <2>1 DEF SelectMove
  <2>4. BukIndices = {}
    BY <2>3 DEF IInv, BukResolvedFirst
  <2> QED
    BY <2>2, <2>3, <2>4, PhaseStepIInv DEF Phases, SelectionPhases
<1>6. CASE \E id \in TokenIDs : RouteSelected(id) \/ MoveApplied(id)
  <2>1. PICK id \in TokenIDs : RouteSelected(id) \/ MoveApplied(id)
    BY <1>6
  <2>2. PICK p \in {"apply_move", "resolve_stack_capture_finish"} : SetState(p, NoOrigin, {id})
    BY <2>1 DEF RouteSelected, MoveApplied
  <2>3. /\ phase \in SelectionPhases /\ selectedID = {id}
        /\ UNCHANGED <<settings, queue, throwingCapped>>
    BY <2>1 DEF RouteSelected, MoveApplied, SelectionPhases
  <2>4. OrdinaryAvailable(id) /\ BukIndices = {}
    BY <2>3 DEF IInv, SelectedIsConsumable, BukResolvedFirst
  <2> QED
    BY <2>2, <2>3, <2>4, PhaseStepIInv DEF Phases, SelectionPhases
<1>7. CASE \E id \in TokenIDs, captureExtra, matchEnded \in BOOLEAN :
             CompleteMove(id, captureExtra, matchEnded)
  BY <1>7, CompleteMoveIInv
<1>8. CASE \E id \in TokenIDs : DiscardUnusableResult(id)
  BY <1>8, DiscardUnusableResultIInv
<1>9. CASE \E id \in TokenIDs, noCandidate, captureExtra, matchEnded \in BOOLEAN :
             CompleteBuk(id, noCandidate, captureExtra, matchEnded)
  BY <1>9, CompleteBukIInv
<1>10. CASE UNCHANGED vars
  BY <1>10 DEF vars, IInv, TypeOK, FreshTurn, UniqueIDs, PendingThrow, ThrowIsRecordable,
               SelectedIsConsumable, BukResolvedFirst, FullQueueIsSealed, QueuedIDs,
               BukIndices, AvailableIndices, OrdinaryAvailable
<1> QED
  BY <1>1, <1>2, <1>3, <1>4, <1>5, <1>6, <1>7, <1>8, <1>9, <1>10 DEF Next

\* The inductive invariant holds throughout every turn.
THEOREM InductiveInvariant == Spec => []IInv
  BY InitIInv, NextIInv, PTL DEF Spec

\* Every turn stays well typed, whatever the caller throws and selects.
THEOREM TypeCorrect == Spec => []TypeOK
<1>1. IInv => TypeOK
  BY DEF IInv
<1> QED
  BY <1>1, InductiveInvariant, PTL

\* A turn never reaches throwing_chain with a queue that rejects the thrown
\* token: for every queue limit, order and rule set, the throw is recordable.
THEOREM ThrowAlwaysRecordable == Spec => []ThrowIsRecordable
<1>1. IInv => ThrowIsRecordable
  BY DEF IInv
<1> QED
  BY <1>1, InductiveInvariant, PTL

\* The completing calls never fail in Consume: the selected token is still
\* queued and available, and it is a Buk exactly in resolve_buk.
THEOREM SelectionStaysConsumable == Spec => []SelectedIsConsumable
<1>1. IInv => SelectedIsConsumable
  BY DEF IInv
<1> QED
  BY <1>1, InductiveInvariant, PTL

\* A Buk never waits while a player chooses, and two never wait at once.
THEOREM BukPriority == Spec => []BukResolvedFirst
<1>1. IInv => BukResolvedFirst
  BY DEF IInv
<1> QED
  BY <1>1, InductiveInvariant, PTL

\* The queue never exceeds its limit and is full only in a sealed turn.
THEOREM QueueLimit == Spec => []FullQueueIsSealed
<1>1. IInv => FullQueueIsSealed
  BY DEF IInv
<1> QED
  BY <1>1, InductiveInvariant, PTL

\* The seal is final: a turn whose queue once reached the limit accepts no
\* further throw, not even for a capture.
THEOREM SealIsFinal == Spec => SealedTurnAddsNothing
<1>1. IInv /\ [Next]_vars => [throwingCapped => seenIDs' = seenIDs /\ throwingCapped']_vars
  <2> SUFFICES ASSUME IInv, Next, throwingCapped
               PROVE  seenIDs' = seenIDs /\ throwingCapped'
    OBVIOUS
  <2>1. phase # "throwing_chain"
    BY DEF IInv, PendingThrow
  <2> QED
    BY <2>1 DEF Next, Start, BeginThrow, RecordThrow, ResolveQueue, SelectMove,
                RouteSelected, MoveApplied, CompleteMove, DiscardUnusableResult,
                CompleteBuk, Consume, queue
<1> QED
  BY <1>1, InductiveInvariant, PTL DEF Spec, SealedTurnAddsNothing

\* No result token is ever resolved twice.
THEOREM NoTokenTwice == Spec => ConsumedStaysConsumed
<1>1. IInv /\ [Next]_vars
        => [(seenIDs \ QueuedIDs) \subseteq (seenIDs' \ QueuedIDs')]_vars
  <2> SUFFICES ASSUME IInv, Next
               PROVE  (seenIDs \ QueuedIDs) \subseteq (seenIDs' \ QueuedIDs')
    OBVIOUS
  <2>1. CASE \E id \in TokenIDs, result \in Results : RecordThrow(id, result)
    <3>1. PICK id \in TokenIDs, result \in Results : RecordThrow(id, result)
      BY <2>1
    <3>2. /\ id \notin seenIDs /\ tokens' = Append(tokens, ThrownToken(id, result))
          /\ seenIDs' = seenIDs \union {id} /\ phase = "throwing_chain"
      BY <3>1 DEF RecordThrow, AppendAccepts, ThrownToken
    <3>3. BukIndices = {} /\ expectedOrigin \in Origins
      BY <3>2 DEF IInv, ThrowIsRecordable, PendingThrow
    <3>4. QueuedIDs' = QueuedIDs \union {id}
      BY <3>2, <3>3, AppendFacts DEF IInv
    <3> QED
      BY <3>2, <3>4
  <2>2. CASE \E id \in TokenIDs : Consume(id)
    <3>1. PICK id \in TokenIDs : Consume(id)
      BY <2>2
    <3>2. seenIDs' = seenIDs /\ QueuedIDs' = QueuedIDs \ {id}
      BY <3>1, ConsumeFacts DEF Consume, IInv, BukResolvedFirst
    <3> QED
      BY <3>2
  <2>3. CASE UNCHANGED queue
    BY <2>3 DEF queue, QueuedIDs
  <2> QED
    BY <2>1, <2>2, <2>3
       DEF Next, Start, BeginThrow, ResolveQueue, SelectMove, RouteSelected,
           MoveApplied, CompleteMove, DiscardUnusableResult, CompleteBuk
<1> QED
  BY <1>1, InductiveInvariant, PTL DEF Spec, ConsumedStaysConsumed

=============================================================================
