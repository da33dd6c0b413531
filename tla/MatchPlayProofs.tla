-------------------------- MODULE MatchPlayProofs --------------------------
(***************************************************************************)
(* Proofs about MatchPlay for any board that passes Graph.Validate, any    *)
(* finite teams and pieces, every option and any number of turns.          *)
(*                                                                         *)
(* From the board up: the planner serves every piece; a move resolution    *)
(* and a Buk keep teams apart and stacks joined; every step of a match is  *)
(* a step of its turn machine; the CPU decides among the runtime's own     *)
(* candidates. What a recursive function of the model computes is shown by *)
(* the least argument at which it would go wrong (LeastNumber).            *)
(***************************************************************************)
EXTENDS MatchPlay, NumberLemmas, TLAPS, FiniteSetTheorems, SequenceTheorems

\* The turn machine of the turn in progress, with the proofs about it.
M == INSTANCE TurnMachineProofs
-----------------------------------------------------------------------------
(* The walk of the planner *)

\* The space a walk enters with its k-th step from s.
NextSpace(s, k, first, force, keep) ==
  IF k = 1 /\ first # NoSpace THEN first
  ELSE IF (force \/ (keep /\ s = "bang")) /\ s \in DOMAIN Graph.forced
  THEN Graph.forced[s] ELSE NormalForwardSpace(Graph, s)

\* A walk p with its k-th step.
Longer(p, k, first, force, keep) ==
  IF p[Len(p)] \in {Blocked, Finish} THEN p
  ELSE IF k > 1 /\ p[Len(p)] = Graph.home THEN Append(p, Finish)
  ELSE Append(p, NextSpace(p[Len(p)], k, first, force, keep))

\* The recursive function of ForwardPath: the walk after every step.
Walk(origin, spaces, first, force, keep) ==
  CHOOSE f : f = [k \in 0 .. spaces |->
                    IF k = 0 THEN <<origin>> ELSE Longer(f[k - 1], k, first, force, keep)]

\* ForwardPath is the last of these walks.
LEMMA ForwardPathIsWalk ==
  ASSUME NEW origin, NEW spaces, NEW first, NEW force, NEW keep
  PROVE  ForwardPath(Graph, origin, spaces, first, force, keep)
           = Walk(origin, spaces, first, force, keep)[spaces]
  BY DEF ForwardPath, Walk, Longer, NextSpace

\* The recursion defines a function.
LEMMA WalkSteps ==
  ASSUME NEW origin, NEW spaces \in Nat, NEW first, NEW force, NEW keep
  PROVE  Walk(origin, spaces, first, force, keep) =
           [k \in 0 .. spaces |->
              IF k = 0 THEN <<origin>>
              ELSE Longer(Walk(origin, spaces, first, force, keep)[k - 1], k, first, force, keep)]
<1> DEFINE Step(w, k) == Longer(w, k, first, force, keep)
           Body(f, k) == IF k = 0 THEN <<origin>> ELSE Step(f[k - 1], k)
           Fails == {n \in 0 .. spaces : ~\E f : f = [k \in 0 .. n |-> Body(f, k)]}
<1> HIDE DEF Step
<1>1. Fails = {}
  <2> SUFFICES ASSUME Fails # {} PROVE FALSE
    OBVIOUS
  <2>1. PICK n \in Fails : \A m \in Fails : n <= m
    <3>1. Fails \in SUBSET Nat
      OBVIOUS
    <3> HIDE DEF Fails
    <3> QED
      BY <3>1, LeastNumber
  <2>2. n # 0
    <3>1. SUFFICES ASSUME n = 0 PROVE FALSE
      OBVIOUS
    <3> DEFINE g == [k \in 0 .. 0 |-> <<origin>>]
    <3>2. g = [k \in 0 .. 0 |-> Body(g, k)]
      OBVIOUS
    <3> QED
      BY <3>1, <3>2
  <2>3. n - 1 \in 0 .. spaces /\ n - 1 \notin Fails
    <3>1. n \in 0 .. spaces
      BY <2>1
    <3> HIDE DEF Fails
    <3> QED
      BY <2>1, <2>2, <3>1
  <2>4. PICK f : f = [k \in 0 .. (n - 1) |-> Body(f, k)]
    BY <2>3
  <2> DEFINE g == [k \in 0 .. n |-> IF k = n THEN Step(f[n - 1], n) ELSE f[k]]
  <2>5. \A k \in 0 .. n : g[k] = Body(g, k)
    <3> SUFFICES ASSUME NEW k \in 0 .. n PROVE g[k] = Body(g, k)
      OBVIOUS
    <3>1. CASE k = n
      BY <3>1, <2>2
    <3>2. CASE k # n
      <4>1. g[k] = f[k] /\ k \in 0 .. (n - 1)
        BY <3>2
      <4>2. f[k] = Body(f, k)
        BY <4>1, <2>4
      <4>3. k # 0 => g[k - 1] = f[k - 1]
        BY <3>2
      <4> QED
        BY <4>1, <4>2, <4>3
    <3> QED
      BY <3>1, <3>2
  <2>6. g = [k \in 0 .. n |-> Body(g, k)]
    BY <2>5
  <2> QED
    BY <2>1, <2>6
<1>2. \E f : f = [k \in 0 .. spaces |-> Body(f, k)]
  <2>1. spaces \in 0 .. spaces
    OBVIOUS
  <2> QED
    BY <1>1, <2>1, Zenon
<1>3. (CHOOSE f : f = [k \in 0 .. spaces |-> Body(f, k)])
        = [k \in 0 .. spaces |-> Body(CHOOSE f : f = [j \in 0 .. spaces |-> Body(f, j)], k)]
  BY <1>2
<1> QED
  BY <1>3 DEF Walk, Step
-----------------------------------------------------------------------------
(* The board *)

\* The size of the board.
Size == Cardinality(Graph.nodes)

\* A board is finite and has a space.
LEMMA SizeIsNumber == Size \in Nat /\ Size # 0
<1>1. Size \in Nat
  BY GameAssumption, FS_CardinalityType DEF Size
<1>2. Graph.home \in Graph.nodes
  BY GameAssumption DEF ValidateSpaces
<1>3. Graph.nodes # {}
  BY <1>2
<1> QED
  BY <1>1, <1>3, GameAssumption, FS_EmptySet DEF Size

\* One level more of the search from the checkpoint.
LevelStep(nearer, k, policy) ==
  Append(nearer, nearer[k - 1] \union
    {s \in Graph.nodes : ForwardForPolicy(Graph, s, policy) \intersect nearer[k - 1] # {}})

\* The recursive function of HomeLevels.
Levels(policy) ==
  CHOOSE f : f = [k \in 1 .. Size |->
                    IF k = 1 THEN <<{Graph.home}>> ELSE LevelStep(f[k - 1], k, policy)]

\* HomeLevels is the last value of that recursion.
LEMMA HomeLevelsIsLevels ==
  ASSUME NEW policy
  PROVE  HomeLevels(Graph, policy) = Levels(policy)[Size]
  BY DEF HomeLevels, Levels, LevelStep, Size

\* The recursion defines a function.
LEMMA LevelsSteps ==
  ASSUME NEW policy
  PROVE  Levels(policy) =
           [k \in 1 .. Size |->
              IF k = 1 THEN <<{Graph.home}>> ELSE LevelStep(Levels(policy)[k - 1], k, policy)]
<1> DEFINE Step(w, k) == LevelStep(w, k, policy)
           Body(f, k) == IF k = 1 THEN <<{Graph.home}>> ELSE Step(f[k - 1], k)
           Fails == {n \in 1 .. Size : ~\E f : f = [k \in 1 .. n |-> Body(f, k)]}
<1> HIDE DEF Step
<1>1. Fails = {}
  <2> SUFFICES ASSUME Fails # {} PROVE FALSE
    OBVIOUS
  <2>1. PICK n \in Fails : \A m \in Fails : n <= m
    <3>1. Fails \in SUBSET Nat
      BY SizeIsNumber
    <3> HIDE DEF Fails
    <3> QED
      BY <3>1, LeastNumber
  <2>2. n # 1
    <3>1. SUFFICES ASSUME n = 1 PROVE FALSE
      OBVIOUS
    <3> DEFINE g == [k \in 1 .. 1 |-> <<{Graph.home}>>]
    <3>2. g = [k \in 1 .. 1 |-> Body(g, k)]
      OBVIOUS
    <3> QED
      BY <3>1, <3>2
  <2>3. n - 1 \in 1 .. Size /\ n - 1 \notin Fails
    <3>1. n \in 1 .. Size
      BY <2>1
    <3> HIDE DEF Fails
    <3> QED
      BY <2>1, <2>2, <3>1, SizeIsNumber
  <2>4. PICK f : f = [k \in 1 .. (n - 1) |-> Body(f, k)]
    BY <2>3
  <2> DEFINE g == [k \in 1 .. n |-> IF k = n THEN Step(f[n - 1], n) ELSE f[k]]
  <2>5. \A k \in 1 .. n : g[k] = Body(g, k)
    <3> SUFFICES ASSUME NEW k \in 1 .. n PROVE g[k] = Body(g, k)
      OBVIOUS
    <3>1. CASE k = n
      BY <3>1, <2>2
    <3>2. CASE k # n
      <4>1. g[k] = f[k] /\ k \in 1 .. (n - 1)
        BY <3>2
      <4>2. f[k] = Body(f, k)
        BY <4>1, <2>4
      <4>3. k # 1 => g[k - 1] = f[k - 1]
        BY <3>2
      <4> QED
        BY <4>1, <4>2, <4>3
    <3> QED
      BY <3>1, <3>2
  <2>6. g = [k \in 1 .. n |-> Body(g, k)]
    BY <2>5
  <2> QED
    BY <2>1, <2>6
<1>2. \E f : f = [k \in 1 .. Size |-> Body(f, k)]
  <2>1. Size \in 1 .. Size
    BY SizeIsNumber
  <2> QED
    BY <1>1, <2>1
<1>3. (CHOOSE f : f = [k \in 1 .. Size |-> Body(f, k)])
        = [k \in 1 .. Size |-> Body(CHOOSE f : f = [j \in 1 .. Size |-> Body(f, j)], k)]
  BY <1>2
<1> QED
  BY <1>3 DEF Levels, Step

\* The k-th value is a sequence of k levels, each a set of spaces that are the
\* checkpoint or have a way on.
LevelsUpTo(levels, k, policy) ==
  /\ levels \in Seq(SUBSET Graph.nodes) /\ Len(levels) = k
  /\ \A i \in 1 .. k : \A s \in levels[i] : s = Graph.home \/ ForwardForPolicy(Graph, s, policy) # {}

\* Every value of the recursion is such a sequence.
LEMMA LevelsFacts ==
  ASSUME NEW policy
  PROVE  LevelsUpTo(HomeLevels(Graph, policy), Size, policy)
<1> DEFINE L == Levels(policy)
           Fails == {k \in 1 .. Size : ~LevelsUpTo(L[k], k, policy)}
<1>1. \A k \in 1 .. Size : L[k] = IF k = 1 THEN <<{Graph.home}>> ELSE LevelStep(L[k - 1], k, policy)
  <2> HIDE DEF L
  <2>1. L = [k \in 1 .. Size |-> IF k = 1 THEN <<{Graph.home}>> ELSE LevelStep(L[k - 1], k, policy)]
    BY LevelsSteps DEF L
  <2> QED
    BY <2>1
<1> HIDE DEF L
<1>2. Fails = {}
  <2> SUFFICES ASSUME Fails # {} PROVE FALSE
    OBVIOUS
  <2>1. PICK k \in Fails : \A m \in Fails : k <= m
    <3>1. Fails \in SUBSET Nat
      BY SizeIsNumber
    <3> HIDE DEF Fails
    <3> QED
      BY <3>1, LeastNumber
  <2>2. Graph.home \in Graph.nodes
    BY GameAssumption DEF ValidateSpaces
  <2>3. k # 1
    <3>1. SUFFICES ASSUME k = 1 PROVE FALSE
      OBVIOUS
    <3>2. L[1] = <<{Graph.home}>>
      BY <1>1, SizeIsNumber
    <3>3. LevelsUpTo(L[1], 1, policy)
      <4>1. L[1] \in Seq(SUBSET Graph.nodes) /\ Len(L[1]) = 1
        <5>1. ASSUME NEW X, NEW e \in X PROVE <<e>> \in Seq(X) /\ Len(<<e>>) = 1
          OBVIOUS
        <5>2. {Graph.home} \in SUBSET Graph.nodes
          BY <2>2
        <5> QED
          BY <3>2, <5>1, <5>2
      <4>2. \A i \in 1 .. 1 : L[1][i] = {Graph.home}
        BY <3>2
      <4> QED
        BY <4>1, <4>2 DEF LevelsUpTo
    <3> QED
      BY <3>1, <3>3
  <2>4. k - 1 \in 1 .. Size /\ k - 1 \notin Fails
    <3>1. k \in 1 .. Size
      BY <2>1
    <3> HIDE DEF Fails
    <3> QED
      BY <2>1, <2>3, <3>1, SizeIsNumber
  <2>5. LevelsUpTo(L[k - 1], k - 1, policy)
    BY <2>4
  <2>6. L[k] = LevelStep(L[k - 1], k, policy)
    BY <1>1, <2>3
  <2> DEFINE w == L[k - 1]
             more == w[k - 1] \union
               {s \in Graph.nodes : ForwardForPolicy(Graph, s, policy) \intersect w[k - 1] # {}}
  <2>7. w \in Seq(SUBSET Graph.nodes) /\ Len(w) = k - 1 /\ k \in Nat /\ k - 1 \in 1 .. (k - 1)
    BY <2>4, <2>5 DEF LevelsUpTo
  <2>8. w[k - 1] \subseteq Graph.nodes
    <3> HIDE DEF w
    <3> QED
      BY <2>7
  <2>9. more \in SUBSET Graph.nodes
    BY <2>8
  <2>10. \A s \in more : s = Graph.home \/ ForwardForPolicy(Graph, s, policy) # {}
    BY <2>5, <2>7 DEF LevelsUpTo
  <2>11. L[k] = Append(w, more)
    BY <2>6 DEF LevelStep
  <2>12. LevelsUpTo(L[k], k, policy)
    <3>1. \A i \in 1 .. (k - 1) : \A s \in w[i] :
            s = Graph.home \/ ForwardForPolicy(Graph, s, policy) # {}
      BY <2>5 DEF LevelsUpTo
    <3> HIDE DEF w, more
    <3> QED
      BY <2>7, <2>9, <2>10, <2>11, <3>1 DEF LevelsUpTo
  <2> QED
    BY <2>12
<1>3. LevelsUpTo(L[Size], Size, policy)
  BY <1>2, SizeIsNumber
<1> QED
  BY <1>3, HomeLevelsIsLevels DEF L

\* One step more of the search from the start.
ReachStep(before, policy) ==
  before \union (Graph.nodes \intersect UNION {ForwardForPolicy(Graph, s, policy) : s \in before})

\* The recursive function of ReachableFrom.
Reached(origin, policy) ==
  CHOOSE f : f = [k \in 0 .. Size |-> IF k = 0 THEN {origin} ELSE ReachStep(f[k - 1], policy)]

\* ReachableFrom is the last value of that recursion.
LEMMA ReachableFromIsReached ==
  ASSUME NEW origin, NEW policy
  PROVE  ReachableFrom(Graph, origin, policy) = Reached(origin, policy)[Size]
  BY DEF ReachableFrom, Reached, ReachStep, Size

\* A space without a way on reaches itself only.
LEMMA DeadEndReachesItself ==
  ASSUME NEW origin, NEW policy, ForwardForPolicy(Graph, origin, policy) = {}
  PROVE  ReachableFrom(Graph, origin, policy) = {origin}
<1> DEFINE Body(f, k) == IF k = 0 THEN {origin} ELSE ReachStep(f[k - 1], policy)
           g == [k \in 0 .. Size |-> {origin}]
           F == CHOOSE f : f = [k \in 0 .. Size |-> Body(f, k)]
           Fails == {k \in 0 .. Size : F[k] # {origin}}
<1>1. ReachStep({origin}, policy) = {origin}
  BY DEF ReachStep
<1>2. g = [k \in 0 .. Size |-> Body(g, k)]
  <2>1. \A k \in 0 .. Size : k # 0 => k - 1 \in 0 .. Size
    BY SizeIsNumber
  <2>2. \A k \in 0 .. Size : g[k] = {origin} /\ (k # 0 => g[k - 1] = {origin})
    BY <2>1
  <2>3. \A k \in 0 .. Size : g[k] = Body(g, k)
    <3> HIDE DEF g
    <3> QED
      BY <2>2, <1>1
  <2> QED
    BY <2>3
<1>3. F = [k \in 0 .. Size |-> Body(F, k)]
  <2> HIDE DEF g
  <2> QED
    BY <1>2
<1> HIDE DEF F
<1>4. \A k \in 0 .. Size : F[k] = IF k = 0 THEN {origin} ELSE ReachStep(F[k - 1], policy)
  <2>1. \A k \in 0 .. Size : F[k] = Body(F, k)
    <3> HIDE DEF Body
    <3> QED
      BY <1>3
  <2> QED
    BY <2>1
<1>5. Fails = {}
  <2> SUFFICES ASSUME Fails # {} PROVE FALSE
    OBVIOUS
  <2>1. PICK k \in Fails : \A m \in Fails : k <= m
    <3>1. Fails \in SUBSET Nat
      BY SizeIsNumber
    <3> HIDE DEF Fails
    <3> QED
      BY <3>1, LeastNumber
  <2>2. k \in 0 .. Size /\ F[k] # {origin}
    BY <2>1
  <2>3. k # 0
    BY <2>2, <1>4
  <2>4. k - 1 \in 0 .. Size /\ k - 1 \notin Fails
    <3> HIDE DEF Fails
    <3> QED
      BY <2>1, <2>2, <2>3, SizeIsNumber
  <2>5. F[k - 1] = {origin}
    BY <2>4
  <2>6. F[k] = ReachStep(F[k - 1], policy)
    BY <1>4, <2>2, <2>3
  <2> QED
    BY <2>2, <2>5, <2>6, <1>1
<1>6. Size \in 0 .. Size
  BY SizeIsNumber
<1>7. F[Size] = {origin}
  BY <1>5, <1>6
<1>8. F = Reached(origin, policy)
  BY DEF F, Reached
<1> QED
  BY <1>7, <1>8, ReachableFromIsReached

\* Every space has a way on.
LEMMA NoDeadEnd ==
  ASSUME NEW s \in Graph.nodes, NEW policy \in Policies
  PROVE  ForwardForPolicy(Graph, s, policy) # {}
<1>1. CASE s # Graph.home
  <2>1. HomeLevels(Graph, policy)[Size] = Graph.nodes
    BY GameAssumption DEF ValidateReachability, Size, ValidateSpaces
  <2>2. Size \in 1 .. Size
    BY SizeIsNumber
  <2> QED
    BY <1>1, <2>1, <2>2, LevelsFacts DEF LevelsUpTo
<1>2. CASE s = Graph.home
  <2>1. Graph.home = Graph.start /\ Graph.start \in Graph.nodes
    BY GameAssumption DEF ValidateSpaces
  <2>2. ReachableFrom(Graph, Graph.start, "selectable") = Graph.nodes
    BY <2>1, GameAssumption DEF ValidateReachability
  <2>3. Graph.fixedBuk \in Graph.nodes /\ Graph.fixedBuk # Graph.home
    BY GameAssumption
  <2>4. ForwardForPolicy(Graph, Graph.home, "selectable") # {}
    BY <2>1, <2>2, <2>3, DeadEndReachesItself
  <2> QED
    BY <1>2, <2>4 DEF ForwardForPolicy
<1> QED
  BY <1>1, <1>2

\* A space at which no route is chosen has one way on.
LEMMA OneWayOn ==
  ASSUME NEW s \in Graph.nodes, s \notin DOMAIN Graph.choices
  PROVE  OutDegree(Graph, s) = 1 /\ Adjacent(Graph, s) # {} /\ Adjacent(Graph, s) \subseteq Graph.nodes
<1> DEFINE out == {e \in Graph.edges : e[1] = s}
<1>1. Adjacent(Graph, s) # {}
  BY NoDeadEnd DEF Policies, ForwardForPolicy
<1>2. out # {}
  BY <1>1 DEF Adjacent
<1>3. IsFiniteSet(out)
  <2>1. IsFiniteSet(Graph.nodes \X Graph.nodes)
    BY GameAssumption, FS_Product
  <2>2. out \subseteq Graph.nodes \X Graph.nodes
    BY GameAssumption
  <2> QED
    BY <2>1, <2>2, FS_Subset
<1>4. Cardinality(out) \in Nat /\ Cardinality(out) # 0
  <2> HIDE DEF out
  <2> QED
    BY <1>2, <1>3, FS_CardinalityType, FS_EmptySet
<1>5. {e \in Graph.repeated : e[1] = s} = {}
  BY GameAssumption DEF ValidateSpaces
<1>6. Cardinality({e \in Graph.repeated : e[1] = s}) = 0
  BY <1>5, FS_EmptySet
<1>7. OutDegree(Graph, s) = Cardinality(out)
  BY <1>4, <1>6 DEF OutDegree
<1>8. ~(OutDegree(Graph, s) > 1)
  BY GameAssumption DEF ValidateRouteChoices
<1>9. Adjacent(Graph, s) \subseteq Graph.nodes
  BY GameAssumption DEF Adjacent
<1> HIDE DEF out
<1> QED
  BY <1>1, <1>4, <1>7, <1>8, <1>9

\* The two ways on from a space where a route is chosen.
LEMMA ChosenWayOn ==
  ASSUME NEW s \in DOMAIN Graph.choices
  PROVE  /\ Graph.choices[s].normal \in Graph.nodes
         /\ Graph.choices[s].shortcut \in Graph.nodes
         /\ s \in DOMAIN Graph.forced
         /\ Graph.forced[s] = Graph.choices[s].shortcut
  BY GameAssumption DEF ValidateRouteChoices

\* No walk of the planner is blocked: every step enters a space.
LEMMA NextSpaceIsSpace ==
  ASSUME NEW s \in Graph.nodes, NEW k, NEW first \in Graph.nodes \union {NoSpace},
         NEW force \in BOOLEAN, NEW keep \in BOOLEAN
  PROVE  NextSpace(s, k, first, force, keep) \in Graph.nodes
<1>1. \A t \in DOMAIN Graph.forced : Graph.forced[t] \in Graph.nodes
  BY ChosenWayOn, GameAssumption DEF ValidateRouteChoices
<1>2. NormalForwardSpace(Graph, s) \in Graph.nodes
  <2>1. CASE s \in DOMAIN Graph.choices
    BY <2>1, ChosenWayOn DEF NormalForwardSpace
  <2>2. CASE s \notin DOMAIN Graph.choices
    BY <2>2, OneWayOn DEF NormalForwardSpace
  <2> QED
    BY <2>1, <2>2
<1> QED
  BY <1>1, <1>2 DEF NextSpace

\* A walk of k steps: spaces, and the finish at most behind the last of them.
IsWalk(w, k) ==
  /\ w \in Seq(Graph.nodes \union {Finish})
  /\ Len(w) >= 1 /\ w[1] \in Graph.nodes
  /\ k >= 1 => Len(w) >= 2
  /\ \A i \in 1 .. (Len(w) - 1) : w[i] \in Graph.nodes

\* One step more makes a longer walk of a walk.
LEMMA LongerIsWalk ==
  ASSUME NEW k \in Nat, k # 0, NEW w, IsWalk(w, k - 1),
         NEW first \in Graph.nodes \union {NoSpace}, NEW force \in BOOLEAN, NEW keep \in BOOLEAN
  PROVE  IsWalk(Longer(w, k, first, force, keep), k)
<1> DEFINE n == Len(w)
<1>1. w \in Seq(Graph.nodes \union {Finish}) /\ n \in Nat /\ n >= 1 /\ w[1] \in Graph.nodes
  BY DEF IsWalk
<1>2. w[n] \in Graph.nodes \union {Finish}
  <2> HIDE DEF n
  <2>1. n = Len(w)
    BY DEF n
  <2> QED
    BY <1>1, <2>1
<1>3. Graph.nodes \intersect {NoSpace, Blocked, Finish} = {}
  BY GameAssumption
<1>4. CASE w[n] = Finish
  <2>1. n # 1
    BY <1>1, <1>3, <1>4
  <2>2. Longer(w, k, first, force, keep) = w
    BY <1>4 DEF Longer
  <2>3. n >= 2
    <3> HIDE DEF n
    <3> QED
      BY <1>1, <2>1
  <2>4. IsWalk(w, k)
    BY <2>3 DEF IsWalk
  <2> QED
    BY <2>2, <2>4
<1>5. CASE w[n] \in Graph.nodes
  <2>1. PICK x \in Graph.nodes \union {Finish} : Longer(w, k, first, force, keep) = Append(w, x)
    <3>1. w[n] \notin {Blocked, Finish}
      BY <1>3, <1>5
    <3>2. NextSpace(w[n], k, first, force, keep) \in Graph.nodes
      BY <1>5, NextSpaceIsSpace
    <3> HIDE DEF n
    <3> QED
      BY <3>1, <3>2 DEF Longer, n
  <2>2. /\ Append(w, x) \in Seq(Graph.nodes \union {Finish})
        /\ Len(Append(w, x)) = n + 1
        /\ \A i \in 1 .. n : Append(w, x)[i] = w[i]
    BY <1>1
  <2>3. \A i \in 1 .. n : w[i] \in Graph.nodes
    BY <1>1, <1>5 DEF IsWalk
  <2> HIDE DEF n
  <2> QED
    BY <1>1, <2>1, <2>2, <2>3 DEF IsWalk
<1> QED
  BY <1>2, <1>4, <1>5

\* What ForwardPath returns is such a walk.
LEMMA ForwardPathIsGood ==
  ASSUME NEW origin \in Graph.nodes, NEW spaces \in Nat, spaces # 0,
         NEW first \in Graph.nodes \union {NoSpace}, NEW force \in BOOLEAN, NEW keep \in BOOLEAN
  PROVE  IsWalk(ForwardPath(Graph, origin, spaces, first, force, keep), spaces)
<1> DEFINE W == Walk(origin, spaces, first, force, keep)
           Fails == {k \in 0 .. spaces : ~IsWalk(W[k], k)}
<1>1. \A k \in 0 .. spaces :
        W[k] = IF k = 0 THEN <<origin>> ELSE Longer(W[k - 1], k, first, force, keep)
  <2>1. W = [k \in 0 .. spaces |->
               IF k = 0 THEN <<origin>> ELSE Longer(W[k - 1], k, first, force, keep)]
    BY WalkSteps
  <2> HIDE DEF W
  <2> QED
    BY <2>1
<1> HIDE DEF W
<1>2. Fails = {}
  <2> SUFFICES ASSUME Fails # {} PROVE FALSE
    OBVIOUS
  <2>1. PICK k \in Fails : \A m \in Fails : k <= m
    <3>1. Fails \in SUBSET Nat
      OBVIOUS
    <3> HIDE DEF Fails
    <3> QED
      BY <3>1, LeastNumber
  <2>2. k \in 0 .. spaces /\ ~IsWalk(W[k], k)
    BY <2>1
  <2>3. k # 0
    <3>1. SUFFICES ASSUME k = 0 PROVE FALSE
      OBVIOUS
    <3>2. W[0] = <<origin>>
      BY <1>1
    <3>3. <<origin>> \in Seq(Graph.nodes \union {Finish}) /\ Len(<<origin>>) = 1
      OBVIOUS
    <3>4. IsWalk(<<origin>>, 0)
      BY <3>3 DEF IsWalk
    <3> QED
      BY <2>2, <3>1, <3>2, <3>4
  <2>4. k - 1 \in 0 .. spaces /\ k - 1 \notin Fails
    <3> HIDE DEF Fails
    <3> QED
      BY <2>1, <2>2, <2>3
  <2>5. IsWalk(W[k - 1], k - 1)
    BY <2>4
  <2>6. W[k] = Longer(W[k - 1], k, first, force, keep)
    BY <1>1, <2>2, <2>3
  <2>7. k \in Nat
    BY <2>2
  <2> QED
    BY <2>2, <2>3, <2>5, <2>6, <2>7, LongerIsWalk
<1>3. IsWalk(W[spaces], spaces)
  BY <1>2
<1> QED
  BY <1>3, ForwardPathIsWalk DEF W

\* Where a piece may stand and what it then looks like.
Placed(pos) ==
  /\ pos.state \in PieceStates
  /\ pos.space \in Graph.nodes \union {NoSpace}
  /\ pos.previous \in Graph.nodes \union {NoSpace}
  /\ pos.state \in {"waiting", "finished"} <=> pos.space = NoSpace
  /\ pos.state = "home_checkpoint" <=> pos.space = Graph.home
  /\ pos.space = NoSpace => pos.previous = NoSpace

\* A plan leads to such a place, never back to the waiting area.
GoodPlan(plan) == Placed(plan) /\ plan.state # "waiting"

\* No space of the board has the name of one of the planner's marks.
LEMMA SpacesHaveNames ==
  /\ NoSpace \notin Graph.nodes /\ Blocked \notin Graph.nodes /\ Finish \notin Graph.nodes
  /\ Graph.home \in Graph.nodes /\ Graph.start = Graph.home
  /\ Graph.fixedBuk \in Graph.nodes /\ Graph.fixedBuk # Graph.home
  BY GameAssumption DEF ValidateSpaces

\* The plan along a walk.
LEMMA BuildForwardPlanIsGood ==
  ASSUME NEW w, NEW k \in Nat, k # 0, IsWalk(w, k), NEW route
  PROVE  /\ GoodPlan(BuildForwardPlan(Graph, w, route))
         /\ BuildForwardPlan(Graph, w, route).route = route
         /\ BuildForwardPlan(Graph, w, route).state # Blocked
<1> DEFINE n == Len(w)
<1>1. n \in Nat /\ n >= 2 /\ w[n - 1] \in Graph.nodes
  BY DEF IsWalk
<1>2. w[n] \in Graph.nodes \union {Finish}
  <2>1. w \in Seq(Graph.nodes \union {Finish})
    BY DEF IsWalk
  <2> QED
    BY <1>1, <2>1
<1> DEFINE last == w[n]
<1>3. BuildForwardPlan(Graph, w, route) = PlanAlong(Graph, w, last, route)
  BY DEF BuildForwardPlan
<1> HIDE DEF n, last
<1>4. CASE last = Finish
  BY <1>3, <1>4, SpacesHaveNames DEF PlanAlong, GoodPlan, Placed, PieceStates, Blocked
<1>5. CASE last \in Graph.nodes
  BY <1>1, <1>3, <1>5, SpacesHaveNames
     DEF PlanAlong, GoodPlan, Placed, PieceStates, Blocked, Finish, n
<1> QED
  BY <1>2, <1>4, <1>5 DEF last

\* The walks ForwardPlans asks for are ones that exist.
IsRoute(r) ==
  /\ r.first \in Graph.nodes \union {NoSpace}
  /\ r.force \in BOOLEAN /\ r.keep \in BOOLEAN

\* On a board that passed Graph.Validate every route ForwardRoutes lists exists.
LEMMA ForwardRoutesAreGood ==
  ASSUME NEW origin \in Graph.nodes, NEW policy \in Policies
  PROVE  LET routes == ForwardRoutes(Graph, origin, policy) IN
         /\ \/ DOMAIN routes = 1 .. 1 /\ (policy = "selectable" => routes[1].route = "normal")
            \/ /\ DOMAIN routes = 1 .. 2 /\ policy = "selectable"
               /\ routes[1].route = "normal" /\ routes[2].route = "shortcut"
         /\ \A i \in DOMAIN routes : IsRoute(routes[i])
<1> DEFINE routes == ForwardRoutes(Graph, origin, policy)
<1>1. CASE origin \in DOMAIN Graph.choices /\ policy = "selectable"
  <2> DEFINE a == [route |-> "normal", first |-> Graph.choices[origin].normal,
                   force |-> FALSE, keep |-> FALSE]
             b == [route |-> "shortcut", first |-> Graph.choices[origin].shortcut,
                   force |-> FALSE, keep |-> origin = "back_mo"]
  <2>1. routes = <<a, b>>
    BY <1>1 DEF ForwardRoutes
  <2>2. IsRoute(a) /\ IsRoute(b) /\ a.route = "normal" /\ b.route = "shortcut"
    BY <1>1, ChosenWayOn DEF IsRoute
  <2>3. DOMAIN routes = 1 .. 2 /\ routes[1] = a /\ routes[2] = b
    <3> HIDE DEF a, b
    <3> QED
      BY <2>1
  <2> HIDE DEF routes, a, b
  <2>4. \A i \in DOMAIN routes : i = 1 \/ i = 2
    BY <2>3
  <2> QED
    BY <1>1, <2>2, <2>3, <2>4 DEF routes
<1>2. CASE ~(origin \in DOMAIN Graph.choices /\ policy = "selectable")
  <2>1. PICK r : /\ routes = <<r>> /\ IsRoute(r)
                 /\ policy = "selectable" => r.route = "normal"
    <3>1. CASE origin \in DOMAIN Graph.choices
      <4> DEFINE r == [route |-> "shortcut", first |-> Graph.forced[origin], force |-> TRUE, keep |-> FALSE]
      <4>1. routes = <<r>>
        BY <1>2, <3>1 DEF ForwardRoutes
      <4>2. IsRoute(r)
        BY <3>1, ChosenWayOn DEF IsRoute
      <4> QED
        BY <4>1, <4>2, <1>2, <3>1
    <3>2. CASE origin \notin DOMAIN Graph.choices
      <4> DEFINE r == [route |-> "normal", first |-> NoSpace, force |-> policy = "forced",
                       keep |-> origin \in {"back_mo", "back_mo_do", "back_mo_gae"}]
      <4>1. routes = <<r>>
        BY <3>2 DEF ForwardRoutes
      <4>2. IsRoute(r) /\ r.route = "normal"
        BY DEF IsRoute
      <4> QED
        BY <4>1, <4>2
    <3> QED
      BY <3>1, <3>2
  <2>2. DOMAIN routes = 1 .. 1 /\ routes[1] = r
    BY <2>1
  <2>3. \A i \in DOMAIN routes : i = 1
    BY <2>2
  <2> HIDE DEF routes
  <2> QED
    BY <2>1, <2>2, <2>3 DEF routes
<1> QED
  BY <1>1, <1>2

\* A sequence given as a function.
LEMMA LenOfFunction ==
  ASSUME NEW n \in Nat, NEW f, f = [i \in 1 .. n |-> f[i]]
  PROVE  Len(f) = n /\ DOMAIN f = 1 .. n
<1> DEFINE S == {f[i] : i \in 1 .. n}
<1>1. f \in [1 .. n -> S]
  OBVIOUS
<1>2. f \in Seq(S)
  BY <1>1
<1> HIDE DEF S
<1> QED
  BY <1>1, <1>2

\* The planner returns one plan, or the normal and the shortcut one, and each
\* leads to a place where a piece may stand.
PlansAreGood(plans, policy) ==
  /\ DOMAIN plans = 1 .. Len(plans)
  /\ \/ Len(plans) = 1 /\ (policy = "selectable" => plans[1].route = "normal")
     \/ /\ Len(plans) = 2 /\ policy = "selectable"
        /\ plans[1].route = "normal" /\ plans[2].route = "shortcut"
  /\ \A i \in DOMAIN plans : GoodPlan(plans[i])

\* On every board that passes Graph.Validate, and for every number of spaces, the
\* planner serves every piece that is not finished: Planner.Plan, which fails
\* with errors for a missing edge or a blocked route, returns usable plans.
THEOREM PlannerServesEveryPiece ==
  ASSUME NEW pos, Placed(pos), pos.state # "finished", NEW spaces \in Nat \ {0}, NEW policy \in Policies
  PROVE  PlansAreGood(ForwardPlans(Graph, pos, spaces, policy), policy)
<1> DEFINE plans == ForwardPlans(Graph, pos, spaces, policy)
<1>1. CASE pos.state = "home_checkpoint"
  <2> DEFINE plan == [route |-> "normal", state |-> "finished", space |-> NoSpace,
                      previous |-> NoSpace, traversed |-> <<>>]
  <2>1. plans = <<plan>>
    BY <1>1 DEF ForwardPlans
  <2>2. GoodPlan(plan) /\ plan.route = "normal"
    BY SpacesHaveNames DEF GoodPlan, Placed, PieceStates
  <2> HIDE DEF plan
  <2>3. Len(plans) = 1 /\ DOMAIN plans = 1 .. 1 /\ plans[1] = plan
    BY <2>1
  <2>4. \A i \in 1 .. 1 : i = 1
    OBVIOUS
  <2> HIDE DEF plans
  <2>5. PlansAreGood(plans, policy)
    BY <2>2, <2>3, <2>4 DEF PlansAreGood
  <2> QED
    BY <2>5 DEF plans
<1>2. CASE pos.state # "home_checkpoint"
  <2> DEFINE origin == IF pos.state = "waiting" THEN Graph.start ELSE pos.space
             routes == ForwardRoutes(Graph, origin, policy)
             all == PlansFrom(Graph, origin, spaces, routes)
  <2>1. plans = AllOrNone(all)
    BY <1>2 DEF ForwardPlans
  <2>2. origin \in Graph.nodes
    BY SpacesHaveNames DEF Placed, PieceStates
  <2> HIDE DEF origin
  <2>3. /\ \/ DOMAIN routes = 1 .. 1 /\ (policy = "selectable" => routes[1].route = "normal")
           \/ /\ DOMAIN routes = 1 .. 2 /\ policy = "selectable"
              /\ routes[1].route = "normal" /\ routes[2].route = "shortcut"
        /\ \A i \in DOMAIN routes : IsRoute(routes[i])
    BY <2>2, ForwardRoutesAreGood
  <2> HIDE DEF routes
  <2>4. all = [i \in DOMAIN routes |->
                 BuildForwardPlan(Graph, ForwardPath(Graph, origin, spaces, routes[i].first,
                                                     routes[i].force, routes[i].keep),
                                  routes[i].route)]
    BY DEF PlansFrom
  <2>5. ASSUME NEW i \in DOMAIN routes
        PROVE  GoodPlan(all[i]) /\ all[i].route = routes[i].route /\ all[i].state # Blocked
    <3> DEFINE w == ForwardPath(Graph, origin, spaces, routes[i].first, routes[i].force, routes[i].keep)
    <3>1. all[i] = BuildForwardPlan(Graph, w, routes[i].route)
      BY <2>4
    <3>2. /\ routes[i].first \in Graph.nodes \union {NoSpace}
          /\ routes[i].force \in BOOLEAN /\ routes[i].keep \in BOOLEAN
      BY <2>3, Zenon DEF IsRoute
    <3>3. spaces \in Nat /\ spaces # 0
      OBVIOUS
    <3>4. IsWalk(w, spaces)
      BY <2>2, <3>2, <3>3, ForwardPathIsGood, Zenon
    <3> HIDE DEF w, all
    <3>5. LET plan == BuildForwardPlan(Graph, w, routes[i].route) IN
          GoodPlan(plan) /\ plan.route = routes[i].route /\ plan.state # Blocked
      BY <3>3, <3>4, BuildForwardPlanIsGood
    <3> QED
      BY <3>1, <3>5, Zenon
  <2>6. DOMAIN all = DOMAIN routes /\ all = [i \in DOMAIN routes |-> all[i]]
    BY <2>4
  <2> HIDE DEF all
  <2>7. plans = all
    BY <2>1, <2>5, <2>6 DEF AllOrNone
  <2>8. DOMAIN all = 1 .. Len(all) /\ (DOMAIN routes = 1 .. 1 => Len(all) = 1)
                                   /\ (DOMAIN routes = 1 .. 2 => Len(all) = 2)
    BY <2>3, <2>6, LenOfFunction
  <2>9. PlansAreGood(all, policy)
    <3>1. CASE DOMAIN routes = 1 .. 1 /\ (policy = "selectable" => routes[1].route = "normal")
      BY <3>1, <2>5, <2>6, <2>8 DEF PlansAreGood
    <3>2. CASE /\ DOMAIN routes = 1 .. 2 /\ policy = "selectable"
               /\ routes[1].route = "normal" /\ routes[2].route = "shortcut"
      BY <3>2, <2>5, <2>6, <2>8 DEF PlansAreGood
    <3> QED
      BY <3>1, <3>2, <2>3
  <2> QED
    BY <2>7, <2>9
<1> QED
  BY <1>1, <1>2
-----------------------------------------------------------------------------
(* The distance *)

\* The spaces of the next level: those of the last and those one step before.
NextLevel(level, policy) ==
  level \union {s \in Graph.nodes : ForwardForPolicy(Graph, s, policy) \intersect level # {}}

\* k levels, each made of the one before it.
LevelsLinked(levels, k, policy) ==
  /\ levels \in Seq(SUBSET Graph.nodes) /\ Len(levels) = k
  /\ levels[1] = {Graph.home}
  /\ \A i \in 2 .. k : levels[i] = NextLevel(levels[i - 1], policy)

\* A level more.
LEMMA LevelAdded ==
  ASSUME NEW policy, NEW k \in Nat, k >= 2, NEW w, LevelsLinked(w, k - 1, policy)
  PROVE  LevelsLinked(LevelStep(w, k, policy), k, policy)
<1> DEFINE more == NextLevel(w[k - 1], policy)
<1>1. w \in Seq(SUBSET Graph.nodes) /\ Len(w) = k - 1 /\ k - 1 \in 1 .. (k - 1)
  BY DEF LevelsLinked
<1>2. w[k - 1] \in SUBSET Graph.nodes
  BY <1>1
<1>3. more \in SUBSET Graph.nodes
  BY <1>2 DEF NextLevel
<1>4. LevelStep(w, k, policy) = Append(w, more)
  BY DEF LevelStep, NextLevel
<1> HIDE DEF more
<1> DEFINE v == Append(w, more)
<1>5. /\ v \in Seq(SUBSET Graph.nodes) /\ Len(v) = k /\ v[k] = more
      /\ \A i \in 1 .. (k - 1) : v[i] = w[i]
  BY <1>1, <1>3
<1> HIDE DEF v
<1>6. ASSUME NEW i \in 2 .. k
      PROVE  v[i] = NextLevel(v[i - 1], policy)
  <2>1. i - 1 \in 1 .. (k - 1) /\ v[i - 1] = w[i - 1]
    BY <1>5
  <2>2. CASE i = k
    BY <1>5, <2>1, <2>2 DEF more
  <2>3. CASE i # k
    <3>1. i \in 2 .. (k - 1) /\ i \in 1 .. (k - 1)
      BY <2>3
    <3> QED
      BY <1>5, <2>1, <3>1 DEF LevelsLinked
  <2> QED
    BY <2>2, <2>3
<1>7. v[1] = {Graph.home}
  <2>1. 1 \in 1 .. (k - 1)
    OBVIOUS
  <2> QED
    BY <1>5, <2>1 DEF LevelsLinked
<1> QED
  BY <1>4, <1>5, <1>6, <1>7 DEF LevelsLinked, v

\* HomeLevels is such a sequence.
LEMMA HomeLevelsLinked ==
  ASSUME NEW policy
  PROVE  LevelsLinked(HomeLevels(Graph, policy), Size, policy)
<1> DEFINE L == Levels(policy)
           Fails == {k \in 1 .. Size : ~LevelsLinked(L[k], k, policy)}
<1>1. \A k \in 1 .. Size : L[k] = IF k = 1 THEN <<{Graph.home}>> ELSE LevelStep(L[k - 1], k, policy)
  <2> HIDE DEF L
  <2>1. L = [k \in 1 .. Size |-> IF k = 1 THEN <<{Graph.home}>> ELSE LevelStep(L[k - 1], k, policy)]
    BY LevelsSteps DEF L
  <2> QED
    BY <2>1
<1> HIDE DEF L
<1>2. Fails = {}
  <2> SUFFICES ASSUME Fails # {} PROVE FALSE
    OBVIOUS
  <2>1. PICK k \in Fails : \A m \in Fails : k <= m
    <3>1. Fails \in SUBSET Nat
      BY SizeIsNumber
    <3> HIDE DEF Fails
    <3> QED
      BY <3>1, LeastNumber
  <2>2. k \in 1 .. Size /\ ~LevelsLinked(L[k], k, policy)
    BY <2>1
  <2>3. k # 1
    <3>1. SUFFICES ASSUME k = 1 PROVE FALSE
      OBVIOUS
    <3>2. L[1] = <<{Graph.home}>>
      BY <1>1, SizeIsNumber
    <3>3. {Graph.home} \in SUBSET Graph.nodes
      BY SpacesHaveNames
    <3>4. ASSUME NEW X, NEW e \in X PROVE <<e>> \in Seq(X) /\ Len(<<e>>) = 1 /\ <<e>>[1] = e
      OBVIOUS
    <3>5. L[1] \in Seq(SUBSET Graph.nodes) /\ Len(L[1]) = 1 /\ L[1][1] = {Graph.home}
      BY <3>2, <3>3, <3>4
    <3>6. LevelsLinked(L[1], 1, policy)
      BY <3>5 DEF LevelsLinked
    <3> QED
      BY <2>2, <3>1, <3>6
  <2>4. k - 1 \in 1 .. Size /\ k - 1 \notin Fails /\ k \in Nat /\ k >= 2
    <3> HIDE DEF Fails
    <3> QED
      BY <2>1, <2>2, <2>3, SizeIsNumber
  <2>5. LevelsLinked(L[k - 1], k - 1, policy)
    BY <2>4
  <2>6. L[k] = LevelStep(L[k - 1], k, policy)
    BY <1>1, <2>2, <2>3
  <2> QED
    BY <2>2, <2>4, <2>5, <2>6, LevelAdded
<1>3. LevelsLinked(L[Size], Size, policy)
  BY <1>2, SizeIsNumber
<1> QED
  BY <1>3, HomeLevelsIsLevels DEF L

\* A level contains all that come before it.
LEMMA LevelsGrow ==
  ASSUME NEW policy, NEW levels, LevelsLinked(levels, Size, policy),
         NEW i \in 1 .. Size, NEW s \in levels[i]
  PROVE  \A j \in 1 .. Size : i <= j => s \in levels[j]
<1> DEFINE Fails == {j \in 1 .. Size : i <= j /\ s \notin levels[j]}
<1>1. SUFFICES ASSUME Fails # {} PROVE FALSE
  OBVIOUS
<1>2. PICK j \in Fails : \A m \in Fails : j <= m
  <2>1. Fails \in SUBSET Nat
    BY SizeIsNumber
  <2> HIDE DEF Fails
  <2> QED
    BY <1>1, <2>1, LeastNumber
<1>3. j \in 1 .. Size /\ i <= j /\ s \notin levels[j] /\ j # i
  BY <1>2
<1>4. j - 1 \in 1 .. Size /\ i <= j - 1 /\ j \in 2 .. Size /\ ~(j <= j - 1)
  BY <1>3, SizeIsNumber
<1>5. s \in levels[j - 1]
  BY <1>2, <1>4
<1>6. levels[j] = NextLevel(levels[j - 1], policy)
  BY <1>4 DEF LevelsLinked
<1> QED
  BY <1>3, <1>5, <1>6 DEF NextLevel

\* The distance is the number of the first level that has the space.
LEMMA FirstLevel ==
  ASSUME NEW s \in Graph.nodes, NEW policy \in Policies
  PROVE  LET levels == HomeLevels(Graph, policy)
             d == DistanceIn(levels, s) IN
         /\ d \in 1 .. Size /\ s \in levels[d]
         /\ \A i \in 1 .. Size : s \in levels[i] => d <= i
<1> DEFINE levels == HomeLevels(Graph, policy)
           Has == {i \in 1 .. Size : s \in levels[i]}
<1>1. LevelsLinked(levels, Size, policy)
  BY HomeLevelsLinked
<1>2. levels[Size] = Graph.nodes
  BY GameAssumption DEF ValidateReachability, Size, ValidateSpaces
<1>3. DOMAIN levels = 1 .. Size
  BY <1>1 DEF LevelsLinked
<1> HIDE DEF levels
<1>4. Size \in Has
  BY <1>2, SizeIsNumber
<1>5. PICK n \in Has : \A m \in Has : n <= m
  <2>1. Has \in SUBSET Nat
    BY SizeIsNumber
  <2> HIDE DEF Has
  <2> QED
    BY <1>4, <2>1, LeastNumber
<1>6. n \in 1 .. Size /\ s \in levels[n] /\ \A i \in 1 .. Size : s \in levels[i] => n <= i
  BY <1>5
<1> DEFINE Fits(i) == s \in levels[i] /\ (i > 1 => s \notin levels[i - 1])
<1>7. Fits(n)
  <2>1. n > 1 => n - 1 \in 1 .. Size /\ ~(n <= n - 1)
    BY <1>6, SizeIsNumber
  <2> QED
    BY <1>6, <2>1
<1>8. ASSUME NEW i \in 1 .. Size, Fits(i)
      PROVE  i = n
  <2>1. n <= i
    BY <1>6, <1>8
  <2>2. ASSUME n # i PROVE FALSE
    <3>1. i > 1 /\ i - 1 \in 1 .. Size /\ n <= i - 1
      BY <1>6, <2>1, <2>2, SizeIsNumber
    <3>2. s \in levels[i - 1]
      BY <1>1, <1>6, <3>1, LevelsGrow
    <3> QED
      BY <1>8, <3>1, <3>2
  <2> QED
    BY <2>2
<1>9. DistanceIn(levels, s) = CHOOSE i \in 1 .. Size : Fits(i)
  BY <1>3 DEF DistanceIn
<1>10. DistanceIn(levels, s) = n
  <2> HIDE DEF Fits
  <2> QED
    BY <1>6, <1>7, <1>8, <1>9
<1> QED
  BY <1>6, <1>10 DEF levels

\* The checkpoint is one step away from the finish, and any other space one step
\* further than the nearest of the spaces its ways on lead to.
LEMMA DistanceByWaysOn ==
  ASSUME NEW s \in Graph.nodes, NEW policy \in Policies
  PROVE  LET D(x) == DistanceIn(HomeLevels(Graph, policy), x)
             on == ForwardForPolicy(Graph, s, policy) IN
         /\ s = Graph.home => D(s) = 1
         /\ s # Graph.home => /\ \A x \in on \intersect Graph.nodes : D(s) <= D(x) + 1
                              /\ \E x \in on \intersect Graph.nodes : D(s) = D(x) + 1
<1> DEFINE levels == HomeLevels(Graph, policy)
           D(x) == DistanceIn(levels, x)
           on == ForwardForPolicy(Graph, s, policy)
<1>1. LevelsLinked(levels, Size, policy)
  BY HomeLevelsLinked
<1>2. \A x \in Graph.nodes :
        /\ D(x) \in 1 .. Size /\ x \in levels[D(x)]
        /\ \A i \in 1 .. Size : x \in levels[i] => D(x) <= i
  BY FirstLevel
<1> HIDE DEF levels
<1> HIDE DEF D
<1>3. levels[1] = {Graph.home} /\ 1 \in 1 .. Size
  BY <1>1, SizeIsNumber DEF LevelsLinked
<1>4. ASSUME s = Graph.home PROVE D(s) = 1
  <2>1. D(s) <= 1
    BY <1>2, <1>3, <1>4
  <2> QED
    BY <1>2, <2>1, SizeIsNumber
<1>5. ASSUME s # Graph.home, NEW x \in on \intersect Graph.nodes
      PROVE  D(s) <= D(x) + 1
  <2>1. D(x) \in 1 .. Size /\ x \in levels[D(x)] /\ D(s) \in 1 .. Size
    BY <1>2
  <2>2. CASE D(x) = Size
    BY <2>1, <2>2, SizeIsNumber
  <2>3. CASE D(x) # Size
    <3>1. D(x) + 1 \in 2 .. Size /\ D(x) + 1 \in 1 .. Size /\ (D(x) + 1) - 1 = D(x)
      BY <2>1, <2>3, SizeIsNumber
    <3>2. levels[D(x) + 1] = NextLevel(levels[D(x)], policy)
      BY <1>1, <3>1 DEF LevelsLinked
    <3>3. s \in levels[D(x) + 1]
      BY <2>1, <3>2 DEF NextLevel
    <3> QED
      BY <1>2, <3>1, <3>3
  <2> QED
    BY <2>2, <2>3
<1>6. ASSUME s # Graph.home
      PROVE  \E x \in on \intersect Graph.nodes : D(s) = D(x) + 1
  <2>1. D(s) \in 1 .. Size /\ s \in levels[D(s)]
    BY <1>2
  <2>2. D(s) # 1
    BY <1>3, <1>6, <2>1
  <2>3. D(s) \in 2 .. Size /\ D(s) - 1 \in 1 .. Size /\ ~(D(s) <= D(s) - 1)
    BY <2>1, <2>2, SizeIsNumber
  <2>4. levels[D(s)] = NextLevel(levels[D(s) - 1], policy)
    BY <1>1, <2>3 DEF LevelsLinked
  <2>5. s \notin levels[D(s) - 1]
    BY <1>2, <2>3
  <2>6. PICK x \in on : x \in levels[D(s) - 1]
    BY <2>1, <2>4, <2>5 DEF NextLevel
  <2>7. x \in Graph.nodes
    <3>1. levels \in Seq(SUBSET Graph.nodes) /\ Len(levels) = Size
      BY <1>1 DEF LevelsLinked
    <3>2. levels[D(s) - 1] \in SUBSET Graph.nodes
      BY <2>3, <3>1
    <3> QED
      BY <2>6, <3>2
  <2>8. D(x) <= D(s) - 1 /\ D(x) \in 1 .. Size
    BY <1>2, <2>3, <2>6, <2>7
  <2>9. D(s) <= D(x) + 1
    BY <1>5, <1>6, <2>6, <2>7
  <2>10. D(s) = D(x) + 1
    BY <2>3, <2>8, <2>9, SizeIsNumber
  <2> QED
    BY <2>6, <2>7, <2>10
<1> QED
  BY <1>4, <1>5, <1>6 DEF D, levels

\* On a board without repeated edges the out-degree counts the edges.
LEMMA OutDegreeCounts ==
  ASSUME NEW s \in Graph.nodes
  PROVE  LET out == {e \in Graph.edges : e[1] = s} IN
         IsFiniteSet(out) /\ OutDegree(Graph, s) = Cardinality(out)
<1> DEFINE out == {e \in Graph.edges : e[1] = s}
<1>1. IsFiniteSet(out)
  <2>1. IsFiniteSet(Graph.nodes \X Graph.nodes)
    BY GameAssumption, FS_Product
  <2>2. out \subseteq Graph.nodes \X Graph.nodes
    BY GameAssumption
  <2> QED
    BY <2>1, <2>2, FS_Subset
<1>2. {e \in Graph.repeated : e[1] = s} = {}
  BY GameAssumption DEF ValidateSpaces
<1>3. Cardinality({e \in Graph.repeated : e[1] = s}) = 0
  BY <1>2, FS_EmptySet
<1>4. Cardinality(out) \in Nat
  <2> HIDE DEF out
  <2> QED
    BY <1>1, FS_CardinalityType
<1> QED
  BY <1>1, <1>3, <1>4 DEF OutDegree

\* Where none is chosen there is a single way on.
LEMMA SingleWayOn ==
  ASSUME NEW s \in Graph.nodes, s \notin DOMAIN Graph.choices
  PROVE  \E t : Adjacent(Graph, s) = {t}
<1> DEFINE out == {e \in Graph.edges : e[1] = s}
<1>1. IsFiniteSet(out) /\ OutDegree(Graph, s) = Cardinality(out)
  BY OutDegreeCounts
<1>2. Cardinality(out) = 1
  BY <1>1, OneWayOn
<1>3. \E e : out = {e}
  <2> HIDE DEF out
  <2> QED
    BY <1>1, <1>2, FS_Singleton
<1>4. PICK e : out = {e}
  BY <1>3
<1>5. Adjacent(Graph, s) = {x[2] : x \in out}
  BY DEF Adjacent
<1> HIDE DEF out
<1>6. Adjacent(Graph, s) = {e[2]}
  BY <1>4, <1>5
<1> QED
  BY <1>6

\* Every way on leads to a space.
LEMMA WaysOnAreSpaces ==
  ASSUME NEW s \in Graph.nodes, NEW policy \in Policies
  PROVE  ForwardForPolicy(Graph, s, policy) \subseteq Graph.nodes
<1>1. Adjacent(Graph, s) \subseteq Graph.nodes
  BY GameAssumption DEF Adjacent
<1>2. \A t \in DOMAIN Graph.forced : Graph.forced[t] \in Graph.nodes
  BY ChosenWayOn, GameAssumption DEF ValidateRouteChoices
<1> QED
  BY <1>1, <1>2 DEF ForwardForPolicy

\* Where a route is chosen the two routes are all the ways on.
LEMMA ChoicesAreAllWaysOn ==
  ASSUME NEW s \in DOMAIN Graph.choices
  PROVE  Adjacent(Graph, s) = {Graph.choices[s].normal, Graph.choices[s].shortcut}
<1> DEFINE out == {e \in Graph.edges : e[1] = s}
           a == Graph.choices[s].normal
           b == Graph.choices[s].shortcut
<1>1. s \in Graph.nodes /\ a # b /\ {a, b} \subseteq Adjacent(Graph, s) /\ OutDegree(Graph, s) = 2
  BY GameAssumption DEF ValidateRouteChoices
<1> HIDE DEF a, b
<1>2. ASSUME NEW x \in Adjacent(Graph, s) PROVE <<s, x>> \in out
  <2>1. PICK e \in Graph.edges : e[1] = s /\ e[2] = x
    BY DEF Adjacent
  <2>2. e \in Graph.nodes \X Graph.nodes
    BY GameAssumption
  <2>3. e = <<s, x>>
    BY <2>1, <2>2
  <2> QED
    BY <2>1, <2>3
<1>3. IsFiniteSet(out) /\ OutDegree(Graph, s) = Cardinality(out)
  BY <1>1, OutDegreeCounts
<1>4. Cardinality(out) = 2
  BY <1>1, <1>3
<1> DEFINE two == {<<s, a>>, <<s, b>>}
<1>5. two \subseteq out
  BY <1>1, <1>2
<1>6. Cardinality(two) = 2
  <2>1. <<s, a>> # <<s, b>>
    BY <1>1
  <2>2. IsFiniteSet({<<s, a>>}) /\ Cardinality({<<s, a>>}) = 1
    BY FS_Singleton
  <2>3. two = {<<s, a>>} \union {<<s, b>>} /\ <<s, b>> \notin {<<s, a>>}
    BY <2>1
  <2>4. Cardinality({<<s, a>>} \union {<<s, b>>}) = Cardinality({<<s, a>>}) + 1
    BY <2>2, <2>3, FS_AddElement
  <2> QED
    BY <2>2, <2>3, <2>4
<1>7. two = out
  <2> HIDE DEF two, out
  <2> QED
    BY <1>3, <1>4, <1>5, <1>6, FS_Subset
<1>8. ASSUME NEW x \in Adjacent(Graph, s) PROVE x = a \/ x = b
  <2>1. <<s, x>> \in two
    BY <1>2, <1>7
  <2> QED
    BY <2>1
<1> QED
  BY <1>1, <1>8 DEF a, b

\* A plan of one space leads to the space its route enters first.
LEMMA OneSpacePlan ==
  ASSUME NEW s \in Graph.nodes, NEW r, IsRoute(r)
  PROVE  BuildForwardPlan(Graph, ForwardPath(Graph, s, 1, r.first, r.force, r.keep), r.route).space
           = NextSpace(s, 1, r.first, r.force, r.keep)
<1> DEFINE W == Walk(s, 1, r.first, r.force, r.keep)
           x == NextSpace(s, 1, r.first, r.force, r.keep)
<1>1. x \in Graph.nodes
  BY NextSpaceIsSpace DEF IsRoute
<1>2. W[0] = <<s>> /\ W[1] = Longer(W[0], 1, r.first, r.force, r.keep)
  <2>1. W = [k \in 0 .. 1 |-> IF k = 0 THEN <<s>> ELSE Longer(W[k - 1], k, r.first, r.force, r.keep)]
    BY WalkSteps
  <2> HIDE DEF W
  <2> QED
    BY <2>1
<1>3. W[1] = Append(<<s>>, x)
  <2>1. Len(<<s>>) = 1 /\ <<s>>[Len(<<s>>)] = s
    OBVIOUS
  <2>2. s \notin {Blocked, Finish}
    BY SpacesHaveNames
  <2> HIDE DEF W
  <2> QED
    BY <1>2, <2>1, <2>2 DEF Longer
<1> DEFINE p == Append(<<s>>, x)
<1>4. Len(p) = 2 /\ p[2] = x
  <2> HIDE DEF x
  <2> QED
    OBVIOUS
<1>5. ForwardPath(Graph, s, 1, r.first, r.force, r.keep) = p
  <2>1. ForwardPath(Graph, s, 1, r.first, r.force, r.keep) = W[1]
    BY ForwardPathIsWalk, Zenon
  <2> HIDE DEF W, x
  <2> QED
    BY <1>3, <2>1, Zenon
<1> HIDE DEF p, x
<1>6. BuildForwardPlan(Graph, p, r.route) = PlanAlong(Graph, p, x, r.route)
  BY <1>4 DEF BuildForwardPlan
<1>7. PlanAlong(Graph, p, x, r.route).space = x
  BY <1>1, SpacesHaveNames DEF PlanAlong
<1> QED
  BY <1>5, <1>6, <1>7 DEF x

\* The routes ForwardRoutes lists enter the spaces that the search for the
\* distance looks at, each of them and no other.
LEMMA RoutesAreWaysOn ==
  ASSUME NEW s \in Graph.nodes, NEW policy \in Policies
  PROVE  LET routes == ForwardRoutes(Graph, s, policy) IN
         {NextSpace(s, 1, routes[i].first, routes[i].force, routes[i].keep) : i \in DOMAIN routes}
           = ForwardForPolicy(Graph, s, policy)
<1> DEFINE routes == ForwardRoutes(Graph, s, policy)
           Enters(i) == NextSpace(s, 1, routes[i].first, routes[i].force, routes[i].keep)
<1>1. CASE s \in DOMAIN Graph.choices /\ policy = "selectable"
  <2> DEFINE a == [route |-> "normal", first |-> Graph.choices[s].normal,
                   force |-> FALSE, keep |-> FALSE]
             b == [route |-> "shortcut", first |-> Graph.choices[s].shortcut,
                   force |-> FALSE, keep |-> s = "back_mo"]
  <2>1. routes = <<a, b>>
    BY <1>1 DEF ForwardRoutes
  <2>2. DOMAIN routes = 1 .. 2 /\ routes[1] = a /\ routes[2] = b
    <3> HIDE DEF a, b
    <3> QED
      BY <2>1
  <2>3. Enters(1) = Graph.choices[s].normal /\ Enters(2) = Graph.choices[s].shortcut
    <3>1. a.first = Graph.choices[s].normal /\ b.first = Graph.choices[s].shortcut
      OBVIOUS
    <3>2. a.first # NoSpace /\ b.first # NoSpace
      BY <1>1, ChosenWayOn, SpacesHaveNames
    <3> HIDE DEF a, b, routes
    <3> QED
      BY <2>2, <3>1, <3>2 DEF NextSpace
  <2> HIDE DEF routes, Enters
  <2>4. {Enters(i) : i \in DOMAIN routes} = {Enters(1), Enters(2)}
    <3>1. \A i : i \in DOMAIN routes <=> i = 1 \/ i = 2
      BY <2>2
    <3> QED
      BY <3>1
  <2>5. ForwardForPolicy(Graph, s, policy) = Adjacent(Graph, s)
    BY <1>1 DEF ForwardForPolicy
  <2> QED
    BY <1>1, <2>3, <2>4, <2>5, ChoicesAreAllWaysOn DEF Enters, routes
<1>2. CASE ~(s \in DOMAIN Graph.choices /\ policy = "selectable")
  <2>1. PICK r : /\ routes = <<r>>
                 /\ {NextSpace(s, 1, r.first, r.force, r.keep)} = ForwardForPolicy(Graph, s, policy)
    <3>1. CASE s \in DOMAIN Graph.choices
      <4> DEFINE r == [route |-> "shortcut", first |-> Graph.forced[s], force |-> TRUE, keep |-> FALSE]
      <4>1. routes = <<r>>
        BY <1>2, <3>1 DEF ForwardRoutes
      <4>2. policy = "forced" /\ s \in DOMAIN Graph.forced /\ Graph.forced[s] \in Graph.nodes
        BY <1>2, <3>1, ChosenWayOn DEF Policies
      <4>3. r.first = Graph.forced[s]
        OBVIOUS
      <4>4. NextSpace(s, 1, r.first, r.force, r.keep) = Graph.forced[s]
        <5> HIDE DEF r
        <5> QED
          BY <4>2, <4>3, SpacesHaveNames DEF NextSpace
      <4>5. ForwardForPolicy(Graph, s, policy) = {Graph.forced[s]}
        BY <4>2 DEF ForwardForPolicy
      <4> HIDE DEF r
      <4> QED
        BY <4>1, <4>4, <4>5
    <3>2. CASE s \notin DOMAIN Graph.choices
      <4> DEFINE r == [route |-> "normal", first |-> NoSpace, force |-> policy = "forced",
                       keep |-> s \in {"back_mo", "back_mo_do", "back_mo_gae"}]
      <4>1. routes = <<r>>
        BY <3>2 DEF ForwardRoutes
      <4>2. s \notin DOMAIN Graph.forced
        BY <3>2, GameAssumption DEF ValidateRouteChoices
      <4>3. r.first = NoSpace
        OBVIOUS
      <4>4. NextSpace(s, 1, r.first, r.force, r.keep) = NormalForwardSpace(Graph, s)
        <5> HIDE DEF r
        <5> QED
          BY <4>2, <4>3 DEF NextSpace
      <4>5. PICK t : Adjacent(Graph, s) = {t}
        BY <3>2, SingleWayOn
      <4>6. NormalForwardSpace(Graph, s) = t
        BY <3>2, <4>5, OneWayOn DEF NormalForwardSpace
      <4>7. ForwardForPolicy(Graph, s, policy) = {t}
        BY <4>2, <4>5 DEF ForwardForPolicy
      <4> HIDE DEF r
      <4> QED
        BY <4>1, <4>4, <4>6, <4>7
    <3> QED
      BY <3>1, <3>2
  <2>2. DOMAIN routes = 1 .. 1 /\ routes[1] = r
    BY <2>1
  <2>3. \A i : i \in DOMAIN routes <=> i = 1
    BY <2>2
  <2> HIDE DEF routes
  <2>4. {Enters(i) : i \in DOMAIN routes} = {NextSpace(s, 1, r.first, r.force, r.keep)}
    BY <2>2, <2>3
  <2> QED
    BY <2>1, <2>4 DEF routes
<1> QED
  BY <1>1, <1>2

\* The one-space plans of a piece on the board lead to the spaces that the
\* search for the distance goes on to, each of them and no other.
LEMMA PlansAreWaysOn ==
  ASSUME NEW pos, Placed(pos), pos.state = "on_board", NEW policy \in Policies
  PROVE  LET plans == ForwardPlans(Graph, pos, 1, policy) IN
         {plans[i].space : i \in DOMAIN plans} = ForwardForPolicy(Graph, pos.space, policy)
<1> DEFINE s == pos.space
           routes == ForwardRoutes(Graph, s, policy)
           all == PlansFrom(Graph, s, 1, routes)
           plans == ForwardPlans(Graph, pos, 1, policy)
           Enters(i) == NextSpace(s, 1, routes[i].first, routes[i].force, routes[i].keep)
<1>1. plans = AllOrNone(all)
  BY DEF ForwardPlans
<1>2. s \in Graph.nodes
  BY DEF Placed
<1>3. \A i \in DOMAIN routes : IsRoute(routes[i])
  BY <1>2, ForwardRoutesAreGood
<1>4. {Enters(i) : i \in DOMAIN routes} = ForwardForPolicy(Graph, s, policy)
  BY <1>2, RoutesAreWaysOn
<1> HIDE DEF s, routes
<1>5. all = [i \in DOMAIN routes |->
               BuildForwardPlan(Graph, ForwardPath(Graph, s, 1, routes[i].first,
                                                   routes[i].force, routes[i].keep),
                                routes[i].route)]
  BY DEF PlansFrom
<1>6. ASSUME NEW i \in DOMAIN routes
      PROVE  all[i].state # Blocked /\ all[i].space = Enters(i)
  <2> DEFINE w == ForwardPath(Graph, s, 1, routes[i].first, routes[i].force, routes[i].keep)
  <2>1. all[i] = BuildForwardPlan(Graph, w, routes[i].route)
    BY <1>5
  <2>2. IsRoute(routes[i])
    BY <1>3
  <2>3. /\ routes[i].first \in Graph.nodes \union {NoSpace}
        /\ routes[i].force \in BOOLEAN /\ routes[i].keep \in BOOLEAN
    BY <2>2, Zenon DEF IsRoute
  <2>4. 1 \in Nat /\ 1 # 0
    OBVIOUS
  <2>5. IsWalk(w, 1)
    BY <1>2, <2>3, <2>4, ForwardPathIsGood, Zenon
  <2>6. BuildForwardPlan(Graph, w, routes[i].route).space = Enters(i)
    BY <1>2, <2>2, OneSpacePlan, Zenon
  <2> HIDE DEF w, all, Enters
  <2>7. BuildForwardPlan(Graph, w, routes[i].route).state # Blocked
    BY <2>4, <2>5, BuildForwardPlanIsGood, Zenon
  <2> QED
    BY <2>1, <2>6, <2>7
<1>7. DOMAIN all = DOMAIN routes
  BY <1>5
<1> HIDE DEF all, Enters, plans
<1>8. plans = all
  BY <1>1, <1>6, <1>7 DEF AllOrNone
<1>9. {plans[i].space : i \in DOMAIN plans} = {Enters(i) : i \in DOMAIN routes}
  BY <1>6, <1>7, <1>8
<1> QED
  BY <1>4, <1>9 DEF plans, s

\* The checkpoint is one space from the finish, and any other space one more
\* than the nearest of the spaces that a move by one space may enter.
LEMMA DistanceByPlans ==
  ASSUME NEW pos, Placed(pos), pos.space # NoSpace, NEW policy \in Policies
  PROVE  LET plans == ForwardPlans(Graph, pos, 1, policy)
             D(p) == RemainingForwardDistance(Graph, p, policy) IN
         /\ D(pos) \in 1 .. Size
         /\ pos.state = "home_checkpoint" => D(pos) = 1 /\ Len(plans) = 1 /\ plans[1].state = "finished"
         /\ pos.state = "on_board" =>
              /\ \A i \in DOMAIN plans : plans[i].space \in Graph.nodes /\ D(pos) <= D(plans[i]) + 1
              /\ \E i \in DOMAIN plans : D(pos) = D(plans[i]) + 1
<1> DEFINE plans == ForwardPlans(Graph, pos, 1, policy)
           D(x) == DistanceIn(HomeLevels(Graph, policy), x)
           on == ForwardForPolicy(Graph, pos.space, policy)
<1>1. pos.space \in Graph.nodes /\ pos.state \in {"home_checkpoint", "on_board"}
  BY DEF Placed, PieceStates
<1>2. \A p : RemainingForwardDistance(Graph, p, policy) = D(p.space)
  BY DEF RemainingForwardDistance
<1>3. D(pos.space) \in 1 .. Size
  BY <1>1, FirstLevel
<1>4. /\ pos.space = Graph.home => D(pos.space) = 1
      /\ pos.space # Graph.home => /\ \A x \in on \intersect Graph.nodes : D(pos.space) <= D(x) + 1
                                   /\ \E x \in on \intersect Graph.nodes : D(pos.space) = D(x) + 1
  BY <1>1, DistanceByWaysOn
<1> HIDE DEF D
<1>5. ASSUME pos.state = "home_checkpoint"
      PROVE  D(pos.space) = 1 /\ Len(plans) = 1 /\ plans[1].state = "finished"
  <2>1. D(pos.space) = 1
    BY <1>4, <1>5 DEF Placed
  <2> DEFINE plan == [route |-> "normal", state |-> "finished", space |-> NoSpace,
                      previous |-> NoSpace, traversed |-> <<>>]
  <2>2. plans = <<plan>> /\ plan.state = "finished"
    BY <1>5 DEF ForwardPlans
  <2> HIDE DEF plans, plan
  <2> QED
    BY <2>1, <2>2
<1>6. ASSUME pos.state = "on_board"
      PROVE  /\ \A i \in DOMAIN plans : plans[i].space \in Graph.nodes
                                        /\ D(pos.space) <= D(plans[i].space) + 1
             /\ \E i \in DOMAIN plans : D(pos.space) = D(plans[i].space) + 1
  <2>1. {plans[i].space : i \in DOMAIN plans} = on
    BY <1>6, PlansAreWaysOn
  <2>2. pos.space # Graph.home
    BY <1>6 DEF Placed
  <2>3. on \subseteq Graph.nodes
    BY <1>1, WaysOnAreSpaces
  <2> HIDE DEF plans, on
  <2> QED
    BY <1>4, <2>1, <2>2, <2>3
<1> HIDE DEF plans
<1> QED
  BY <1>2, <1>3, <1>5, <1>6 DEF plans

\* A trip of n moves by one space, along plans of the planner, from pos to the finish.
IsTrip(t, n, pos, policy) ==
  /\ t = [k \in 0 .. n |-> t[k]]
  /\ t[0] = pos /\ t[n].state = "finished"
  /\ \A k \in 0 .. (n - 1) :
       LET plans == ForwardPlans(Graph, t[k], 1, policy) IN \E i \in DOMAIN plans : t[k + 1] = plans[i]

\* A move put in front of a trip.
LEMMA TripLonger ==
  ASSUME NEW pos, NEW policy, NEW n \in Nat, NEW t,
         NEW i \in DOMAIN ForwardPlans(Graph, pos, 1, policy),
         IsTrip(t, n, ForwardPlans(Graph, pos, 1, policy)[i], policy)
  PROVE  \E u : IsTrip(u, n + 1, pos, policy)
<1> DEFINE Moves(p, q) == LET plans == ForwardPlans(Graph, p, 1, policy) IN
                          \E j \in DOMAIN plans : q = plans[j]
           u == [k \in 0 .. (n + 1) |-> IF k = 0 THEN pos ELSE t[k - 1]]
<1>1. Moves(pos, t[0]) /\ t[n].state = "finished" /\ \A k \in 0 .. (n - 1) : Moves(t[k], t[k + 1])
  BY DEF IsTrip
<1> HIDE DEF Moves
<1>2. u[0] = pos /\ u[n + 1].state = "finished" /\ u = [k \in 0 .. (n + 1) |-> u[k]]
  BY <1>1
<1>3. ASSUME NEW k \in 0 .. ((n + 1) - 1) PROVE Moves(u[k], u[k + 1])
  <2>1. u[k + 1] = t[k]
    OBVIOUS
  <2>2. CASE k = 0
    BY <1>1, <1>2, <2>1, <2>2
  <2>3. CASE k # 0
    <3>1. k - 1 \in 0 .. (n - 1) /\ (k - 1) + 1 = k /\ u[k] = t[k - 1]
      BY <2>3
    <3>2. Moves(t[k - 1], t[(k - 1) + 1])
      BY <1>1, <3>1
    <3> QED
      BY <2>1, <3>1, <3>2
  <2> QED
    BY <2>2, <2>3
<1> HIDE DEF u
<1>4. IsTrip(u, n + 1, pos, policy)
  BY <1>2, <1>3 DEF IsTrip, Moves
<1> QED
  BY <1>4

\* What is left of a trip after its first move.
LEMMA TripShorter ==
  ASSUME NEW pos, NEW policy, NEW n \in Nat, n # 0, NEW t, IsTrip(t, n, pos, policy)
  PROVE  \E i \in DOMAIN ForwardPlans(Graph, pos, 1, policy) :
           \E u : IsTrip(u, n - 1, ForwardPlans(Graph, pos, 1, policy)[i], policy)
<1> DEFINE Moves(p, q) == LET plans == ForwardPlans(Graph, p, 1, policy) IN
                          \E j \in DOMAIN plans : q = plans[j]
           u == [k \in 0 .. (n - 1) |-> t[k + 1]]
<1>1. t[0] = pos /\ t[n].state = "finished" /\ \A k \in 0 .. (n - 1) : Moves(t[k], t[k + 1])
  BY DEF IsTrip
<1>2. PICK i \in DOMAIN ForwardPlans(Graph, pos, 1, policy) :
        t[1] = ForwardPlans(Graph, pos, 1, policy)[i]
  <2>1. 0 \in 0 .. (n - 1) /\ 0 + 1 = 1
    OBVIOUS
  <2> QED
    BY <1>1, <2>1
<1> HIDE DEF Moves
<1>3. u[0] = t[1] /\ u[n - 1].state = "finished" /\ u = [k \in 0 .. (n - 1) |-> u[k]]
  <2>1. 0 \in 0 .. (n - 1) /\ n - 1 \in 0 .. (n - 1) /\ (n - 1) + 1 = n /\ 0 + 1 = 1
    OBVIOUS
  <2> QED
    BY <1>1, <2>1
<1>4. ASSUME NEW k \in 0 .. ((n - 1) - 1) PROVE Moves(u[k], u[k + 1])
  <2>1. k \in 0 .. (n - 1) /\ k + 1 \in 0 .. (n - 1)
    OBVIOUS
  <2> QED
    BY <1>1, <2>1
<1> HIDE DEF u
<1>5. IsTrip(u, n - 1, ForwardPlans(Graph, pos, 1, policy)[i], policy)
  BY <1>2, <1>3, <1>4 DEF IsTrip, Moves
<1> QED
  BY <1>5

\* RemainingForwardDistance, by which a Buk picks its target and the CPU its
\* piece, is the distance the planner really needs, on every board that passes
\* Graph.Validate: no trip to the finish is shorter, and one is as short.
THEOREM DistanceIsThePlanners ==
  ASSUME NEW pos, Placed(pos), pos.space # NoSpace, NEW policy \in Policies
  PROVE  LET d == RemainingForwardDistance(Graph, pos, policy) IN
         /\ d \in Nat
         /\ \A n \in Nat : \A t : IsTrip(t, n, pos, policy) => d <= n
         /\ \E t : IsTrip(t, d, pos, policy)
<1> DEFINE D(p) == RemainingForwardDistance(Graph, p, policy)
           Plan(p, i) == ForwardPlans(Graph, p, 1, policy)[i]
           Plans(p) == DOMAIN ForwardPlans(Graph, p, 1, policy)
           OnWay(p) == Placed(p) /\ p.space # NoSpace
<1>1. \A p : OnWay(p) =>
        /\ D(p) \in Nat /\ D(p) >= 1
        /\ p.state = "home_checkpoint" => /\ D(p) = 1 /\ Plans(p) = 1 .. 1
                                          /\ Plan(p, 1).state = "finished"
        /\ p.state = "on_board" =>
             /\ \A i \in Plans(p) : OnWay(Plan(p, i)) /\ D(p) <= D(Plan(p, i)) + 1
             /\ \E i \in Plans(p) : D(p) = D(Plan(p, i)) + 1
  <2> SUFFICES ASSUME NEW p, OnWay(p)
               PROVE  /\ D(p) \in Nat /\ D(p) >= 1
                      /\ p.state = "home_checkpoint" => /\ D(p) = 1 /\ Plans(p) = 1 .. 1
                                                        /\ Plan(p, 1).state = "finished"
                      /\ p.state = "on_board" =>
                           /\ \A i \in Plans(p) : OnWay(Plan(p, i)) /\ D(p) <= D(Plan(p, i)) + 1
                           /\ \E i \in Plans(p) : D(p) = D(Plan(p, i)) + 1
    OBVIOUS
  <2>1. /\ D(p) \in 1 .. Size
        /\ p.state = "home_checkpoint" => /\ D(p) = 1 /\ Len(ForwardPlans(Graph, p, 1, policy)) = 1
                                          /\ Plan(p, 1).state = "finished"
        /\ p.state = "on_board" =>
             /\ \A i \in Plans(p) : Plan(p, i).space \in Graph.nodes /\ D(p) <= D(Plan(p, i)) + 1
             /\ \E i \in Plans(p) : D(p) = D(Plan(p, i)) + 1
    BY DistanceByPlans
  <2>2. PlansAreGood(ForwardPlans(Graph, p, 1, policy), policy)
    <3>1. p.state # "finished" /\ 1 \in Nat \ {0}
      BY DEF Placed
    <3> QED
      BY <3>1, PlannerServesEveryPiece
  <2>3. /\ Plans(p) = 1 .. Len(ForwardPlans(Graph, p, 1, policy))
        /\ \A i \in Plans(p) : Placed(Plan(p, i))
    BY <2>2 DEF PlansAreGood, GoodPlan
  <2> HIDE DEF D, Plan, Plans
  <2>4. p.state = "home_checkpoint" => Plans(p) = 1 .. 1
    BY <2>1, <2>3
  <2> QED
    BY <2>1, <2>3, <2>4, SpacesHaveNames, SizeIsNumber
<1>2. \A p, n, t : n \in Nat /\ IsTrip(t, n, p, policy) =>
        /\ n = 0 => p.state = "finished"
        /\ n # 0 => \E i \in Plans(p) : \E u : IsTrip(u, n - 1, Plan(p, i), policy)
  <2>1. \A p, t : IsTrip(t, 0, p, policy) => p.state = "finished"
    BY DEF IsTrip
  <2> QED
    BY <2>1, TripShorter
<1>3. \A p, n : \A i \in Plans(p) : \A t :
        n \in Nat /\ IsTrip(t, n, Plan(p, i), policy) => \E u : IsTrip(u, n + 1, p, policy)
  BY TripLonger
<1>4. \A p : p.state = "finished" => \E t : IsTrip(t, 0, p, policy)
  <2> SUFFICES ASSUME NEW p, p.state = "finished" PROVE \E t : IsTrip(t, 0, p, policy)
    OBVIOUS
  <2> DEFINE t == [k \in 0 .. 0 |-> p]
  <2>1. t[0] = p /\ t = [k \in 0 .. 0 |-> t[k]] /\ 0 .. (0 - 1) = {}
    OBVIOUS
  <2> HIDE DEF t
  <2>2. IsTrip(t, 0, p, policy)
    BY <2>1 DEF IsTrip
  <2> QED
    BY <2>2
<1>5. \A p : OnWay(p) => p.state \in {"home_checkpoint", "on_board"}
  BY DEF Placed, PieceStates
<1> HIDE DEF D, Plan, Plans, OnWay
<1>6. ASSUME NEW p, OnWay(p), NEW n \in Nat, NEW t, IsTrip(t, n, p, policy)
      PROVE  D(p) <= n
  <2> DEFINE Fails == {m \in Nat : \E q, u : OnWay(q) /\ IsTrip(u, m, q, policy) /\ ~(D(q) <= m)}
  <2>1. SUFFICES ASSUME Fails # {} PROVE FALSE
    BY <1>6
  <2>2. PICK m \in Fails : \A l \in Fails : m <= l
    <3>1. Fails \in SUBSET Nat
      OBVIOUS
    <3> HIDE DEF Fails
    <3> QED
      BY <2>1, <3>1, LeastNumber
  <2>3. PICK q, u : OnWay(q) /\ IsTrip(u, m, q, policy) /\ ~(D(q) <= m) /\ m \in Nat
    BY <2>2
  <2>4. D(q) \in Nat /\ D(q) >= 1
    BY <1>1, <2>3
  <2>5. m # 0
    BY <1>2, <1>5, <2>3
  <2>6. PICK i \in Plans(q) : \E v : IsTrip(v, m - 1, Plan(q, i), policy)
    BY <1>2, <2>3, <2>5
  <2>7. q.state = "on_board"
    BY <1>1, <1>5, <2>3, <2>5
  <2>8. OnWay(Plan(q, i)) /\ D(q) <= D(Plan(q, i)) + 1
    BY <1>1, <2>3, <2>7
  <2>9. D(Plan(q, i)) \in Nat
    BY <1>1, <2>8
  <2>10. ~(D(Plan(q, i)) <= m - 1) /\ m - 1 \in Nat /\ ~(m <= m - 1)
    BY <2>3, <2>4, <2>5, <2>8, <2>9
  <2>11. m - 1 \in Fails
    BY <2>6, <2>8, <2>10
  <2> HIDE DEF Fails
  <2> QED
    BY <2>2, <2>10, <2>11
<1>7. ASSUME NEW p, OnWay(p)
      PROVE  \E t : IsTrip(t, D(p), p, policy)
  <2> DEFINE Fails == {m \in Nat : \E q : OnWay(q) /\ D(q) = m /\ ~\E u : IsTrip(u, m, q, policy)}
  <2>1. SUFFICES ASSUME Fails # {} PROVE FALSE
    BY <1>1, <1>7
  <2>2. PICK m \in Fails : \A l \in Fails : m <= l
    <3>1. Fails \in SUBSET Nat
      OBVIOUS
    <3> HIDE DEF Fails
    <3> QED
      BY <2>1, <3>1, LeastNumber
  <2>3. PICK q : OnWay(q) /\ D(q) = m /\ m \in Nat /\ ~\E u : IsTrip(u, m, q, policy)
    BY <2>2
  <2>4. CASE q.state = "home_checkpoint"
    <3>1. m = 1 /\ 1 \in Plans(q) /\ Plan(q, 1).state = "finished"
      BY <1>1, <2>3, <2>4
    <3>2. \E t : IsTrip(t, 0, Plan(q, 1), policy)
      BY <1>4, <3>1
    <3>3. 0 \in Nat /\ 0 + 1 = 1
      OBVIOUS
    <3>4. \E u : IsTrip(u, 0 + 1, q, policy)
      BY <1>3, <3>1, <3>2, <3>3
    <3> QED
      BY <2>3, <3>1, <3>3, <3>4
  <2>5. CASE q.state = "on_board"
    <3>1. PICK i \in Plans(q) : D(q) = D(Plan(q, i)) + 1 /\ OnWay(Plan(q, i))
      BY <1>1, <2>3, <2>5
    <3>2. D(Plan(q, i)) \in Nat
      BY <1>1, <3>1
    <3>3. m - 1 \in Nat /\ D(Plan(q, i)) = m - 1 /\ (m - 1) + 1 = m /\ ~(m <= m - 1)
      BY <2>3, <3>1, <3>2
    <3>4. m - 1 \notin Fails
      <4> HIDE DEF Fails
      <4> QED
        BY <2>2, <3>3
    <3>5. \E u : IsTrip(u, m - 1, Plan(q, i), policy)
      BY <3>1, <3>3, <3>4
    <3>6. \E u : IsTrip(u, (m - 1) + 1, q, policy)
      BY <1>3, <3>3, <3>5
    <3> QED
      BY <2>3, <3>3, <3>6
  <2> QED
    BY <1>5, <2>3, <2>4, <2>5
<1>8. OnWay(pos) /\ D(pos) \in Nat
  BY <1>1 DEF OnWay
<1> QED
  BY <1>6, <1>7, <1>8 DEF D
-----------------------------------------------------------------------------
(* Moves *)

\* The plans of a piece for a result that is not a Buk.
LEMMA MovePlansAreGood ==
  ASSUME NEW pp, NEW p \in Pieces, Placed(pp[p]), NEW result, NEW policy \in Policies,
         pp[p].state # "finished",
         result \in {"do", "gae", "geol", "yut", "mo", "backdo"},
         MovePlans(pp, p, result, policy) # <<>>
  PROVE  LET plans == MovePlans(pp, p, result, policy) IN
         /\ DOMAIN plans = 1 .. Len(plans) /\ Len(plans) \in {1, 2}
         /\ \A i \in DOMAIN plans : GoodPlan(plans[i])
         /\ result = "backdo" => Len(plans) = 1
         /\ result # "backdo" => PlansAreGood(plans, policy)
<1> DEFINE plans == MovePlans(pp, p, result, policy)
<1>1. CASE result = "backdo"
  <2> DEFINE plan == BackdoPlan(Graph, pp[p])
  <2>1. BackdoAvailable(pp[p]) /\ plans = <<plan>>
    BY <1>1 DEF MovePlans
  <2>2. GoodPlan(plan)
    BY <2>1, SpacesHaveNames DEF GoodPlan, Placed, PieceStates, BackdoAvailable, BackdoPlan
  <2> HIDE DEF plan
  <2>3. Len(plans) = 1 /\ DOMAIN plans = 1 .. 1 /\ plans[1] = plan
    BY <2>1
  <2>4. \A i \in 1 .. 1 : i = 1
    OBVIOUS
  <2> HIDE DEF plans
  <2> QED
    BY <1>1, <2>2, <2>3, <2>4 DEF plans
<1>2. CASE result # "backdo"
  <2>1. MovementSpaces[result] \in Nat \ {0}
    BY <1>2 DEF MovementSpaces
  <2>2. plans = ForwardPlans(Graph, pp[p], MovementSpaces[result], policy)
    BY <1>2 DEF MovePlans
  <2>3. PlansAreGood(plans, policy)
    BY <2>1, <2>2, PlannerServesEveryPiece
  <2> HIDE DEF plans
  <2> QED
    BY <1>2, <2>3 DEF PlansAreGood, plans
<1> QED
  BY <1>1, <1>2
-----------------------------------------------------------------------------
(* The pieces *)

\* Every piece stands where a piece may stand.
AllPlaced(pp) == \A q \in Pieces : Placed(pp[q])

\* NoHostileCoexistence of the pieces pp.
Apart(pp) ==
  \A p, q \in Pieces : pp[p].space # NoSpace /\ pp[p].space = pp[q].space => Team[p] = Team[q]

\* StackSharesHistory of the pieces pp.
Joined(pp) ==
  \A p, q \in Pieces : pp[p].space # NoSpace /\ pp[p].space = pp[q].space => pp[p] = pp[q]

\* The state of a piece on the board follows from its space.
LEMMA SpaceGivesState ==
  ASSUME NEW x, NEW y, Placed(x), Placed(y), x.space = y.space, x.space # NoSpace
  PROVE  x.state = y.state
  BY DEF Placed, PieceStates

\* What a move resolution of a team makes of a piece: it ends on the
\* destination, is sent back to the waiting area, or stays as it was.
EndsAsResolved(pp, tm, moving, dest, stacking, after, q) ==
  \/ /\ q \in moving \/ (stacking /\ q \in PiecesAt(pp, dest, {tm}))
     /\ after[q] = [state |-> dest.state, space |-> dest.space, previous |-> dest.previous]
     /\ Team[q] = tm
  \/ /\ q \notin moving /\ q \in Captured(pp, tm, dest) /\ Team[q] # tm
     /\ after[q] = Waiting
  \/ /\ q \notin moving /\ ~(stacking /\ q \in PiecesAt(pp, dest, {tm}))
     /\ q \notin Captured(pp, tm, dest)
     /\ after[q] = pp[q]

\* Each piece ends in one of these ways.
LEMMA ResolutionOfPiece ==
  ASSUME NEW pp, NEW tm, NEW moving \in SUBSET TeamPieces(tm), NEW dest,
         NEW stacking \in BOOLEAN, NEW q \in Pieces
  PROVE  EndsAsResolved(pp, tm, moving, dest, stacking,
                        ApplyMoveResolution(pp, tm, moving, dest, stacking), q)
<1> DEFINE after == ApplyMoveResolution(pp, tm, moving, dest, stacking)
           final == moving \union (IF stacking THEN PiecesAt(pp, dest, {tm}) ELSE {})
<1>1. after[q] = IF q \in final
                 THEN [state |-> dest.state, space |-> dest.space, previous |-> dest.previous]
                 ELSE IF q \in Captured(pp, tm, dest) THEN Waiting ELSE pp[q]
  BY DEF ApplyMoveResolution
<1>2. q \in PiecesAt(pp, dest, {tm}) => Team[q] = tm
  BY DEF PiecesAt
<1>3. q \in moving => Team[q] = tm
  BY DEF TeamPieces
<1>4. q \in Captured(pp, tm, dest) => Team[q] # tm
  BY DEF Captured, PiecesAt
<1> HIDE DEF after
<1>5. EndsAsResolved(pp, tm, moving, dest, stacking, after, q)
  BY <1>1, <1>2, <1>3, <1>4 DEF EndsAsResolved
<1> QED
  BY <1>5 DEF after

\* A piece that a resolution leaves on the destination belongs to the team
\* that moved, and with stacking it is one of the final pieces.
LEMMA LeftAtDestination ==
  ASSUME NEW pp, AllPlaced(pp), NEW tm, NEW dest, GoodPlan(dest), NEW q \in Pieces,
         dest.space # NoSpace, pp[q].space = dest.space, q \notin Captured(pp, tm, dest)
  PROVE  Team[q] = tm /\ q \in PiecesAt(pp, dest, {tm})
<1>1. pp[q].state = dest.state /\ dest.state # "finished"
  <2>1. Placed(pp[q]) /\ Placed(dest)
    BY DEF AllPlaced, GoodPlan
  <2>2. pp[q].state = dest.state
    BY <2>1, SpaceGivesState
  <2> QED
    BY <2>1, <2>2 DEF Placed
<1>2. Team[q] \notin {Team[r] : r \in Pieces} \ {tm}
  BY <1>1 DEF Captured, PiecesAt
<1>3. Team[q] = tm
  BY <1>2
<1> QED
  BY <1>1, <1>3 DEF PiecesAt

\* A move resolution keeps the pieces of the teams apart and stacks joined,
\* finishes only what moves, and takes from the other team only what stands on
\* the destination.
ResolutionIsSound(pp, tm, moving, dest, stacking, after) ==
  /\ AllPlaced(after)
  /\ Apart(pp) => Apart(after)
  /\ stacking /\ Joined(pp) => Joined(after)
  /\ \A q \in moving : after[q].space = dest.space /\ after[q].state = dest.state
  /\ \A q \in Pieces \ moving : pp[q].state # "finished" => after[q].state # "finished"
  /\ \A q \in Pieces \ moving : after[q] # pp[q] => pp[q].state # "finished"
  /\ \A q \in Pieces : Team[q] # tm /\ after[q] # pp[q] =>
       after[q] = Waiting /\ pp[q].space = dest.space /\ dest.space # NoSpace
  /\ \A q \in TeamPieces(tm) : after[q].space \in {pp[q].space, dest.space}

\* applyMoveResolutionLocked is sound: for any pieces that move together to a
\* destination, the teams stay apart and the stacks joined.
LEMMA ApplyMoveResolutionIsSound ==
  ASSUME NEW pp, AllPlaced(pp), NEW tm, NEW moving \in SUBSET TeamPieces(tm),
         NEW dest, GoodPlan(dest), NEW stacking \in BOOLEAN
  PROVE  ResolutionIsSound(pp, tm, moving, dest, stacking,
                           ApplyMoveResolution(pp, tm, moving, dest, stacking))
<1> DEFINE after == ApplyMoveResolution(pp, tm, moving, dest, stacking)
           there == [state |-> dest.state, space |-> dest.space, previous |-> dest.previous]
           Final(q) == /\ q \in moving \/ (stacking /\ q \in PiecesAt(pp, dest, {tm}))
                       /\ after[q] = there /\ Team[q] = tm
           Sent(q) == /\ q \notin moving /\ q \in Captured(pp, tm, dest) /\ Team[q] # tm
                      /\ after[q] = Waiting
           Left(q) == /\ q \notin moving /\ ~(stacking /\ q \in PiecesAt(pp, dest, {tm}))
                      /\ q \notin Captured(pp, tm, dest) /\ after[q] = pp[q]
<1>1. \A q \in Pieces : Final(q) \/ Sent(q) \/ Left(q)
  <2> SUFFICES ASSUME NEW q \in Pieces PROVE Final(q) \/ Sent(q) \/ Left(q)
    OBVIOUS
  <2>1. EndsAsResolved(pp, tm, moving, dest, stacking, after, q)
    BY ResolutionOfPiece
  <2> HIDE DEF after
  <2> QED
    BY <2>1 DEF EndsAsResolved
<1> HIDE DEF after
<1>2. there.state = dest.state /\ there.space = dest.space /\ there.previous = dest.previous
  OBVIOUS
<1>3. Placed(there) /\ there.state # "waiting"
  BY <1>2 DEF GoodPlan, Placed
<1> HIDE DEF there
<1>4. Placed(Waiting) /\ Waiting.space = NoSpace /\ Waiting.state = "waiting"
  BY SpacesHaveNames DEF Placed, Waiting, PieceStates
<1>5. AllPlaced(after)
  BY <1>1, <1>3, <1>4 DEF AllPlaced
<1>6. \A q \in Pieces : Left(q) /\ after[q].space = dest.space /\ dest.space # NoSpace =>
                          Team[q] = tm /\ ~stacking
  BY LeftAtDestination
<1>7. Apart(pp) => Apart(after)
  <2> SUFFICES ASSUME Apart(pp), NEW p \in Pieces, NEW q \in Pieces,
                      after[p].space # NoSpace, after[p].space = after[q].space
               PROVE  Team[p] = Team[q]
    BY DEF Apart
  <2>1. ~Sent(p) /\ ~Sent(q)
    BY <1>4
  <2>2. CASE Left(p) /\ Left(q)
    BY <2>2 DEF Apart
  <2>3. CASE Final(p)
    BY <1>1, <1>2, <1>6, <2>1, <2>3
  <2>4. CASE Final(q)
    BY <1>1, <1>2, <1>6, <2>1, <2>4
  <2> QED
    BY <1>1, <2>1, <2>2, <2>3, <2>4
<1>8. stacking /\ Joined(pp) => Joined(after)
  BY <1>1, <1>2, <1>4, <1>6 DEF Joined
<1>9. \A q \in Pieces : q \in Captured(pp, tm, dest) \/ q \in PiecesAt(pp, dest, {tm}) =>
        /\ pp[q].state = dest.state /\ pp[q].state # "finished"
        /\ pp[q].space = dest.space
  BY DEF Captured, PiecesAt
<1>10. \A q \in Pieces : q \in Captured(pp, tm, dest) => dest.space # NoSpace
  BY <1>3, <1>9 DEF Placed, GoodPlan, PieceStates
<1>11. moving \subseteq Pieces
  BY DEF TeamPieces
<1>12. \A q \in moving : after[q].space = dest.space /\ after[q].state = dest.state
  BY <1>1, <1>2, <1>11
<1>13. \A q \in Pieces \ moving : pp[q].state # "finished" => after[q].state # "finished"
  BY <1>1, <1>2, <1>4, <1>9
<1>14. \A q \in Pieces \ moving : after[q] # pp[q] => pp[q].state # "finished"
  BY <1>1, <1>9
<1>15. \A q \in Pieces : Team[q] # tm /\ after[q] # pp[q] =>
         after[q] = Waiting /\ pp[q].space = dest.space /\ dest.space # NoSpace
  BY <1>1, <1>9, <1>10
<1>16. \A q \in TeamPieces(tm) : after[q].space \in {pp[q].space, dest.space}
  BY <1>1, <1>2 DEF TeamPieces
<1>17. ResolutionIsSound(pp, tm, moving, dest, stacking, after)
  BY <1>5, <1>7, <1>8, <1>12, <1>13, <1>14, <1>15, <1>16 DEF ResolutionIsSound
<1> QED
  BY <1>17 DEF after
-----------------------------------------------------------------------------
(* Buk *)

\* The group of a Buk on the space s.
BukGroup(pp, tm, s) == {q \in TeamPieces(tm) : pp[q].space = s}

\* The recursive function of BukMoves: the outcome after every group.
BukStages(pp, tm, order, dest, stacking) ==
  CHOOSE f : f = [k \in 0 .. Len(order) |->
                    IF k = 0 THEN BukOutcome(pp, FALSE, FALSE)
                    ELSE BukMove(f[k - 1], tm, BukGroup(pp, tm, order[k]), order[k], dest, stacking)]

\* BukMoves is the last of these outcomes.
LEMMA BukMovesIsStages ==
  ASSUME NEW pp, NEW tm, NEW order, NEW dest, NEW stacking
  PROVE  BukMoves(pp, tm, order, dest, stacking)
           = BukStages(pp, tm, order, dest, stacking)[Len(order)]
  BY DEF BukMoves, BukStages, BukGroup

\* Before the first group.
BukStart(pp) == BukOutcome(pp, FALSE, FALSE)

\* The recursion defines a function.
LEMMA BukStagesSteps ==
  ASSUME NEW pp, NEW tm, NEW order, NEW dest, NEW stacking, Len(order) \in Nat
  PROVE  \A k \in 0 .. Len(order) :
           BukStages(pp, tm, order, dest, stacking)[k] =
             IF k = 0 THEN BukStart(pp)
             ELSE BukMove(BukStages(pp, tm, order, dest, stacking)[k - 1], tm,
                          BukGroup(pp, tm, order[k]), order[k], dest, stacking)
<1> DEFINE first == BukOutcome(pp, FALSE, FALSE)
           Step(w, k) == BukMove(w, tm, BukGroup(pp, tm, order[k]), order[k], dest, stacking)
           Body(f, k) == IF k = 0 THEN first ELSE Step(f[k - 1], k)
           Fails == {n \in 0 .. Len(order) : ~\E f : f = [k \in 0 .. n |-> Body(f, k)]}
<1> HIDE DEF Step, first
<1>1. Fails = {}
  <2> SUFFICES ASSUME Fails # {} PROVE FALSE
    OBVIOUS
  <2>1. PICK n \in Fails : \A m \in Fails : n <= m
    <3>1. Fails \in SUBSET Nat
      OBVIOUS
    <3> HIDE DEF Fails
    <3> QED
      BY <3>1, LeastNumber
  <2>2. n # 0
    <3>1. SUFFICES ASSUME n = 0 PROVE FALSE
      OBVIOUS
    <3> DEFINE g == [k \in 0 .. 0 |-> first]
    <3>2. g = [k \in 0 .. 0 |-> Body(g, k)]
      OBVIOUS
    <3> QED
      BY <3>1, <3>2
  <2>3. n - 1 \in 0 .. Len(order) /\ n - 1 \notin Fails
    <3>1. n \in 0 .. Len(order)
      BY <2>1
    <3> HIDE DEF Fails
    <3> QED
      BY <2>1, <2>2, <3>1
  <2>4. PICK f : f = [k \in 0 .. (n - 1) |-> Body(f, k)]
    BY <2>3
  <2> DEFINE g == [k \in 0 .. n |-> IF k = n THEN Step(f[n - 1], n) ELSE f[k]]
  <2>5. \A k \in 0 .. n : g[k] = Body(g, k)
    <3> SUFFICES ASSUME NEW k \in 0 .. n PROVE g[k] = Body(g, k)
      OBVIOUS
    <3>1. CASE k = n
      BY <3>1, <2>2
    <3>2. CASE k # n
      <4>1. g[k] = f[k] /\ k \in 0 .. (n - 1)
        BY <3>2
      <4>2. f[k] = Body(f, k)
        BY <4>1, <2>4
      <4>3. k # 0 => g[k - 1] = f[k - 1]
        BY <3>2
      <4> QED
        BY <4>1, <4>2, <4>3
    <3> QED
      BY <3>1, <3>2
  <2>6. g = [k \in 0 .. n |-> Body(g, k)]
    BY <2>5
  <2> QED
    BY <2>1, <2>6
<1>2. \E f : f = [k \in 0 .. Len(order) |-> Body(f, k)]
  BY <1>1
<1>3. (CHOOSE f : f = [k \in 0 .. Len(order) |-> Body(f, k)])
        = [k \in 0 .. Len(order) |-> Body(CHOOSE f : f = [j \in 0 .. Len(order) |-> Body(f, j)], k)]
  BY <1>2
<1> DEFINE B == BukStages(pp, tm, order, dest, stacking)
<1>4. B = [k \in 0 .. Len(order) |-> Body(B, k)]
  BY <1>3 DEF BukStages, Step, first
<1> HIDE DEF B, Body
<1>5. \A k \in 0 .. Len(order) : B[k] = Body(B, k)
  BY <1>4
<1> QED
  BY <1>5 DEF B, Body, Step, first, BukStart

\* What holds of the pieces after any number of groups have moved.
BukIsSound(pp, tm, stacking, after) ==
  /\ AllPlaced(after)
  /\ Apart(pp) => Apart(after)
  /\ stacking /\ Joined(pp) => Joined(after)
  /\ \A q \in Pieces : pp[q].state # "finished" => after[q].state # "finished"
  /\ \A q \in Pieces : after[q] # pp[q] => pp[q].state # "finished"
  /\ \A q \in Pieces : Team[q] # tm /\ after[q] # pp[q] =>
       after[q] = Waiting /\ pp[q].space = Graph.fixedBuk
  /\ (\E q \in Pieces : after[q] # pp[q]) =>
       \E q \in TeamPieces(tm) : after[q].space = Graph.fixedBuk

\* It holds before any group moves.
LEMMA StartIsSound ==
  ASSUME NEW pp, AllPlaced(pp), NEW tm, NEW stacking
  PROVE  BukIsSound(pp, tm, stacking, pp)
  BY DEF BukIsSound

\* One group moves.
LEMMA BukMoveIsSound ==
  ASSUME NEW pp, AllPlaced(pp), NEW tm, NEW stacking \in BOOLEAN, NEW before,
         BukIsSound(pp, tm, stacking, before.pieces),
         NEW group \in SUBSET TeamPieces(tm), group # {},
         \A q \in group : pp[q].state # "finished",
         NEW s \in Graph.nodes \union {NoSpace}
  PROVE  BukIsSound(pp, tm, stacking,
                    BukMove(before, tm, group, s, Graph.fixedBuk, stacking).pieces)
<1> DEFINE bp == before.pieces
           arrival == [state |-> "on_board", space |-> Graph.fixedBuk, previous |-> s]
           after == ApplyMoveResolution(bp, tm, group, arrival, stacking)
<1>1. BukMove(before, tm, group, s, Graph.fixedBuk, stacking).pieces = after
  BY DEF BukMove, BukOutcome
<1>2. GoodPlan(arrival) /\ arrival.space = Graph.fixedBuk /\ arrival.state = "on_board"
  BY SpacesHaveNames DEF GoodPlan, Placed, PieceStates
<1> HIDE DEF bp, arrival
<1>3. AllPlaced(bp)
  BY DEF BukIsSound, bp
<1>4. ResolutionIsSound(bp, tm, group, arrival, stacking, after)
  BY <1>2, <1>3, ApplyMoveResolutionIsSound
<1> HIDE DEF after
<1>5. BukIsSound(pp, tm, stacking, bp)
  BY DEF bp
<1>6. group \subseteq Pieces /\ Waiting.space = NoSpace /\ Graph.fixedBuk # NoSpace
  BY SpacesHaveNames DEF TeamPieces, Waiting
<1>7. /\ AllPlaced(after) /\ (Apart(pp) => Apart(after))
      /\ stacking /\ Joined(pp) => Joined(after)
  BY <1>4, <1>5 DEF ResolutionIsSound, BukIsSound
<1>8. \A q \in Pieces : pp[q].state # "finished" => after[q].state # "finished"
  BY <1>2, <1>4, <1>5, <1>6 DEF ResolutionIsSound, BukIsSound
<1>9. \A q \in Pieces : after[q] # pp[q] => pp[q].state # "finished"
  BY <1>4, <1>5, <1>6 DEF ResolutionIsSound, BukIsSound
<1>10. \A q \in Pieces : Team[q] # tm /\ after[q] # pp[q] =>
         after[q] = Waiting /\ pp[q].space = Graph.fixedBuk
  BY <1>2, <1>4, <1>5, <1>6 DEF ResolutionIsSound, BukIsSound
<1>11. \E q \in TeamPieces(tm) : after[q].space = Graph.fixedBuk
  BY <1>2, <1>4 DEF ResolutionIsSound
<1>12. BukIsSound(pp, tm, stacking, after)
  BY <1>7, <1>8, <1>9, <1>10, <1>11 DEF BukIsSound
<1> QED
  BY <1>1, <1>12

\* The groups of a sequence of the team's spaces move one after the other.
LEMMA BukMovesIsSound ==
  ASSUME NEW pp, AllPlaced(pp), NEW tm, NEW stacking \in BOOLEAN, NEW order,
         Len(order) \in Nat,
         \A k \in 1 .. Len(order) : order[k] \in BukSpaces(pp, tm)
  PROVE  BukIsSound(pp, tm, stacking,
                    BukMoves(pp, tm, order, Graph.fixedBuk, stacking).pieces)
<1> DEFINE B == BukStages(pp, tm, order, Graph.fixedBuk, stacking)
           n == Len(order)
           Fails == {k \in 0 .. n : ~BukIsSound(pp, tm, stacking, B[k].pieces)}
<1>1. \A k \in 0 .. n :
        B[k] = IF k = 0 THEN BukStart(pp)
               ELSE BukMove(B[k - 1], tm, BukGroup(pp, tm, order[k]), order[k], Graph.fixedBuk, stacking)
  BY BukStagesSteps
<1> HIDE DEF B
<1>2. n \in Nat
  OBVIOUS
<1>3. Fails = {}
  <2> SUFFICES ASSUME Fails # {} PROVE FALSE
    OBVIOUS
  <2>1. PICK k \in Fails : \A m \in Fails : k <= m
    <3>1. Fails \in SUBSET Nat
      BY <1>2
    <3> HIDE DEF Fails
    <3> QED
      BY <3>1, LeastNumber
  <2>2. k \in 0 .. n /\ ~BukIsSound(pp, tm, stacking, B[k].pieces)
    BY <2>1
  <2>3. k # 0
    <3>1. B[0].pieces = pp
      BY <1>1, <1>2 DEF BukStart, BukOutcome
    <3> QED
      BY <2>2, <3>1, StartIsSound
  <2>4. k - 1 \in 0 .. n /\ k - 1 \notin Fails
    <3> HIDE DEF Fails, n
    <3> QED
      BY <2>1, <2>2, <2>3, <1>2
  <2>5. BukIsSound(pp, tm, stacking, B[k - 1].pieces)
    BY <2>4
  <2> DEFINE s == order[k]
             group == BukGroup(pp, tm, s)
  <2>6. B[k] = BukMove(B[k - 1], tm, group, s, Graph.fixedBuk, stacking)
    BY <1>1, <2>2, <2>3
  <2>7. s \in BukSpaces(pp, tm)
    BY <2>2, <2>3, <1>2
  <2> HIDE DEF s
  <2>8. PICK x \in TeamPieces(tm) : pp[x].space = s /\ pp[x].state \in {"on_board", "home_checkpoint"}
    BY <2>7 DEF BukSpaces
  <2>9. s \in Graph.nodes
    <3>1. Placed(pp[x])
      BY <2>8 DEF AllPlaced, TeamPieces
    <3> QED
      BY <3>1, <2>8 DEF Placed
  <2>10. group \in SUBSET TeamPieces(tm) /\ x \in group
    BY <2>8 DEF BukGroup
  <2>11. \A q \in group : pp[q].state # "finished"
    <3> SUFFICES ASSUME NEW q \in group PROVE pp[q].state # "finished"
      OBVIOUS
    <3>1. Placed(pp[q]) /\ pp[q].space = s
      BY DEF BukGroup, AllPlaced, TeamPieces
    <3> QED
      BY <3>1, <2>9, SpacesHaveNames DEF Placed
  <2> HIDE DEF group
  <2>12. BukIsSound(pp, tm, stacking, B[k].pieces)
    BY <2>5, <2>6, <2>9, <2>10, <2>11, BukMoveIsSound
  <2> QED
    BY <2>2, <2>12
<1>4. BukIsSound(pp, tm, stacking, B[n].pieces)
  BY <1>2, <1>3
<1> QED
  BY <1>4, BukMovesIsStages DEF B

\* Every outcome of a Buk.
LEMMA ResolveBukIsSound ==
  ASSUME NEW pp, AllPlaced(pp), NEW tm, NEW stacking \in BOOLEAN, NEW policy,
         NEW outcome \in ResolveBuk(pp, tm, Graph.fixedBuk, stacking, policy)
  PROVE  BukIsSound(pp, tm, stacking, outcome.pieces)
<1> DEFINE closest == ClosestSpaces(pp, tm, policy)
           idle == {q \in TeamPieces(tm) : pp[q].state = "waiting"}
           todo == closest \ {Graph.fixedBuk}
<1>1. \/ \E order \in SetToSeqs(todo) : outcome = BukMoves(pp, tm, order, Graph.fixedBuk, stacking)
      \/ \E q \in idle : outcome = BukMove(BukOutcome(pp, FALSE, FALSE), tm, {q}, NoSpace,
                                           Graph.fixedBuk, stacking)
      \/ outcome = BukOutcome(pp, FALSE, TRUE)
  <2> HIDE DEF closest, idle, todo
  <2>1. outcome \in
          IF closest # {}
          THEN {BukMoves(pp, tm, order, Graph.fixedBuk, stacking) : order \in SetToSeqs(todo)}
          ELSE IF idle # {}
          THEN {BukMove(BukOutcome(pp, FALSE, FALSE), tm, {q}, NoSpace, Graph.fixedBuk, stacking) :
                  q \in idle}
          ELSE {BukOutcome(pp, FALSE, TRUE)}
    BY DEF ResolveBuk, closest, idle, todo
  <2> QED
    BY <2>1
<1>2. todo \subseteq BukSpaces(pp, tm)
  BY DEF ClosestSpaces
<1>3. IsFiniteSet(todo)
  <2>1. BukSpaces(pp, tm) \subseteq Graph.nodes
    BY DEF BukSpaces, TeamPieces, AllPlaced, Placed
  <2>2. IsFiniteSet(BukSpaces(pp, tm))
    BY <2>1, GameAssumption, FS_Subset
  <2> HIDE DEF todo
  <2> QED
    BY <1>2, <2>2, FS_Subset
<1> HIDE DEF closest, todo
<1>4. ASSUME NEW order \in SetToSeqs(todo),
             outcome = BukMoves(pp, tm, order, Graph.fixedBuk, stacking)
      PROVE  BukIsSound(pp, tm, stacking, outcome.pieces)
  <2>1. Cardinality(todo) \in Nat
    BY <1>3, FS_CardinalityType
  <2>2. order \in [1 .. Cardinality(todo) -> todo]
    BY DEF SetToSeqs
  <2>3. order \in Seq(todo) /\ Len(order) = Cardinality(todo)
    BY <2>1, <2>2
  <2>4. \A k \in 1 .. Len(order) : order[k] \in BukSpaces(pp, tm)
    BY <2>2, <2>3, <1>2
  <2> QED
    BY <1>4, <2>1, <2>3, <2>4, BukMovesIsSound
<1>5. BukOutcome(pp, FALSE, FALSE).pieces = pp /\ BukOutcome(pp, FALSE, TRUE).pieces = pp
  BY DEF BukOutcome
<1>6. BukIsSound(pp, tm, stacking, pp)
  BY StartIsSound
<1>7. ASSUME NEW q \in idle,
             outcome = BukMove(BukOutcome(pp, FALSE, FALSE), tm, {q}, NoSpace, Graph.fixedBuk, stacking)
      PROVE  BukIsSound(pp, tm, stacking, outcome.pieces)
  <2>1. {q} \in SUBSET TeamPieces(tm) /\ \A x \in {q} : pp[x].state # "finished"
    OBVIOUS
  <2> DEFINE start == BukOutcome(pp, FALSE, FALSE)
  <2>2. BukIsSound(pp, tm, stacking, start.pieces)
    BY <1>5, <1>6
  <2> HIDE DEF start
  <2>3. BukIsSound(pp, tm, stacking, BukMove(start, tm, {q}, NoSpace, Graph.fixedBuk, stacking).pieces)
    BY <2>1, <2>2, BukMoveIsSound
  <2> QED
    BY <1>7, <2>3 DEF start
<1> QED
  BY <1>1, <1>4, <1>5, <1>6, <1>7
-----------------------------------------------------------------------------
(* The turn machine of the match *)

\* A throw that has begun can be given an id.
ThrowHasID == phase = "throwing_chain" => Cardinality(seenIDs) < Cardinality(TokenIDs)

\* Every turn of the match keeps the inductive invariant of the turn machine.
MachineInv == M!IInv /\ ThrowHasID

\* The constants of the match are ones the turn machine admits.
LEMMA MachineAssumption == M!ConstantsAssumption
  BY PlayAssumption DEF M!ConstantsAssumption

\* A step of the turn machine keeps its inductive invariant.
LEMMA MachineNext == M!IInv /\ [M!Next]_M!vars => M!IInv'
  BY M!NextIInv, MachineAssumption, SMT

\* A new turn machine satisfies it.
LEMMA MachineInit == M!Init => M!IInv
  BY M!InitIInv, MachineAssumption, SMT

\* The ids of the queue and of the selection are token ids.
LEMMA MachineIDs ==
  ASSUME M!IInv
  PROVE  /\ selectedID \in SUBSET TokenIDs /\ seenIDs \in SUBSET TokenIDs
         /\ tokens \in Seq(M!ResultToken) /\ DOMAIN tokens = 1 .. Len(tokens)
         /\ \A i \in DOMAIN tokens : tokens[i].id \in TokenIDs /\ tokens[i].result \in Results
         /\ Turn!AvailableIndices \subseteq DOMAIN tokens
<1>1. /\ selectedID \in SUBSET TokenIDs /\ seenIDs \in SUBSET TokenIDs
      /\ tokens \in Seq(M!ResultToken)
  BY DEF M!IInv, M!TypeOK
<1>2. DOMAIN tokens = 1 .. Len(tokens)
  BY <1>1
<1>3. \A i \in DOMAIN tokens : tokens[i] \in M!ResultToken
  BY <1>1, <1>2
<1>4. \A i \in DOMAIN tokens : tokens[i].id \in TokenIDs /\ tokens[i].result \in Results
  BY <1>3 DEF M!ResultToken
<1>5. Turn!AvailableIndices \subseteq DOMAIN tokens
  BY DEF Turn!AvailableIndices, Turn!BukIndices
<1> QED
  BY <1>1, <1>2, <1>4, <1>5

\* What MatchPlay instantiates of TurnMachine is what the proofs about it are
\* about: the start of a turn is a step of that machine.
LEMMA StartIsMachine == Turn!Start => M!Start
  BY DEF Turn!Start, M!Start, Turn!SetState, M!SetState, Turn!settings, M!settings,
         Turn!queue, M!queue

\* So is beginThrow.
LEMMA BeginThrowIsMachine == Turn!BeginThrow => M!BeginThrow
  BY DEF Turn!BeginThrow, M!BeginThrow, Turn!SetState, M!SetState, Turn!settings, M!settings,
         Turn!queue, M!queue

\* So is RecordThrow.
LEMMA RecordThrowIsMachine ==
  ASSUME NEW id, NEW result, Turn!RecordThrow(id, result)
  PROVE  M!RecordThrow(id, result)
  BY DEF Turn!RecordThrow, M!RecordThrow, Turn!AppendAccepts, M!AppendAccepts,
         Turn!ThrownToken, M!ThrownToken, Turn!BukIndices, M!BukIndices,
         Turn!SetState, M!SetState, Turn!settings, M!settings, Turn!NoOrigin, M!NoOrigin

\* So is ResolveQueue.
LEMMA ResolveQueueIsMachine == Turn!ResolveQueue => M!ResolveQueue
  BY DEF Turn!ResolveQueue, M!ResolveQueue, Turn!AvailableIndices, M!AvailableIndices,
         Turn!BukIndices, M!BukIndices, Turn!SetState, M!SetState,
         Turn!settings, M!settings, Turn!queue, M!queue, Turn!NoOrigin, M!NoOrigin

\* Both read the same positions of the queue as available.
LEMMA AvailableIsMachine == Turn!AvailableIndices = M!AvailableIndices
  BY DEF Turn!AvailableIndices, M!AvailableIndices, Turn!BukIndices, M!BukIndices

\* So is SelectMove.
LEMMA SelectMoveIsMachine ==
  ASSUME NEW id, NEW r \in BOOLEAN, Turn!SelectMove(id, r)
  PROVE  M!SelectMove(id, r)
  BY AvailableIsMachine
     DEF Turn!SelectMove, M!SelectMove, Turn!OrdinaryAvailable, M!OrdinaryAvailable,
         Turn!SetState, M!SetState, Turn!settings, M!settings, Turn!queue, M!queue,
         Turn!NoOrigin, M!NoOrigin

\* So is RouteSelected.
LEMMA RouteSelectedIsMachine ==
  ASSUME NEW id, Turn!RouteSelected(id)
  PROVE  M!RouteSelected(id)
  BY DEF Turn!RouteSelected, M!RouteSelected, Turn!SetState, M!SetState,
         Turn!settings, M!settings, Turn!queue, M!queue, Turn!NoOrigin, M!NoOrigin

\* So is MoveApplied.
LEMMA MoveAppliedIsMachine ==
  ASSUME NEW id, Turn!MoveApplied(id)
  PROVE  M!MoveApplied(id)
  BY DEF Turn!MoveApplied, M!MoveApplied, Turn!SetState, M!SetState,
         Turn!settings, M!settings, Turn!queue, M!queue, Turn!NoOrigin, M!NoOrigin

\* So is the consumption of a token.
LEMMA ConsumeIsMachine ==
  ASSUME NEW id, Turn!Consume(id)
  PROVE  M!Consume(id)
  BY AvailableIsMachine DEF Turn!Consume, M!Consume, Turn!WithoutIndex, M!WithoutIndex

\* So is the choice of the next phase.
LEMMA AdvanceIsMachine ==
  ASSUME NEW c \in BOOLEAN, NEW w \in BOOLEAN, Turn!AdvanceAfterResolution(c, w)
  PROVE  M!AdvanceAfterResolution(c, w)
  BY DEF Turn!AdvanceAfterResolution, M!AdvanceAfterResolution, Turn!SetState, M!SetState,
         Turn!NoOrigin, M!NoOrigin

\* So is CompleteMove.
LEMMA CompleteMoveIsMachine ==
  ASSUME NEW id, NEW c \in BOOLEAN, NEW w \in BOOLEAN, Turn!CompleteMove(id, c, w)
  PROVE  M!CompleteMove(id, c, w)
<1>1. Turn!Consume(id) /\ Turn!AdvanceAfterResolution(c, w)
  BY DEF Turn!CompleteMove
<1>2. M!Consume(id) /\ M!AdvanceAfterResolution(c, w)
  BY <1>1, ConsumeIsMachine, AdvanceIsMachine
<1> QED
  BY <1>2 DEF Turn!CompleteMove, M!CompleteMove, Turn!settings, M!settings

\* So is the discard of an unusable token.
LEMMA DiscardIsMachine ==
  ASSUME NEW id, Turn!DiscardUnusableResult(id)
  PROVE  M!DiscardUnusableResult(id)
<1>1. M!Consume(id)
  BY ConsumeIsMachine DEF Turn!DiscardUnusableResult
<1> QED
  BY <1>1, AvailableIsMachine
     DEF Turn!DiscardUnusableResult, M!DiscardUnusableResult, Turn!OrdinaryAvailable,
         M!OrdinaryAvailable, Turn!SetState, M!SetState, Turn!settings, M!settings,
         Turn!NoOrigin, M!NoOrigin

\* So is the completion of a Buk.
LEMMA CompleteBukIsMachine ==
  ASSUME NEW id, NEW n \in BOOLEAN, NEW c \in BOOLEAN, NEW w \in BOOLEAN,
         Turn!CompleteBuk(id, n, c, w)
  PROVE  M!CompleteBuk(id, n, c, w)
<1>1. M!Consume(id)
  BY ConsumeIsMachine DEF Turn!CompleteBuk
<1>2. ~n => M!AdvanceAfterResolution(c, w)
  BY AdvanceIsMachine DEF Turn!CompleteBuk
<1> QED
  BY <1>1, <1>2 DEF Turn!CompleteBuk, M!CompleteBuk, Turn!settings, M!settings,
                    Turn!SetState, M!SetState, Turn!NoOrigin, M!NoOrigin

\* The same for the steps of the match: which step of the machine each takes.
LEMMA SelectMoveInternalMachine ==
  ASSUME NEW id, NEW p, NEW byCpu, SelectMoveInternal(id, p, byCpu)
  PROVE  \E r \in BOOLEAN : /\ Turn!SelectMove(id, r)
                            /\ r <=> Len(PlansOf(id, p)) = 2
<1>1. CASE Len(PlansOf(id, p)) = 2
  <2>1. Turn!SelectMove(id, TRUE)
    BY <1>1 DEF SelectMoveInternal, Turn!SelectMove
  <2> QED
    BY <1>1, <2>1
<1>2. CASE ~(Len(PlansOf(id, p)) = 2)
  <2>1. Turn!SelectMove(id, FALSE)
    BY <1>2 DEF SelectMoveInternal, Turn!SelectMove
  <2> QED
    BY <1>2, <2>1
<1> QED
  BY <1>1, <1>2

\* CompleteMove as one step of the machine and one of the game.
LEMMA CompleteMoveMachine ==
  ASSUME CompleteMove
  PROVE  \E id \in selectedID, c, w \in BOOLEAN :
           \E plan \in SelectedPlans(PlansOf(id, pending.piece), pending.route) :
             /\ phase = "resolve_stack_capture_finish"
             /\ Turn!CompleteMove(id, c, w)
             /\ w <=> AllFinished(pieces', team)
             /\ pieces' = ApplyMoveResolution(pieces, team,
                            MovingPieces(pieces, pending.piece, options.stacking), plan,
                            options.stacking)
             /\ winner' = IF AllFinished(pieces', team) THEN team ELSE winner
             /\ pending' = NoMove /\ UNCHANGED <<flow, options>>
<1>1. PICK id \in selectedID :
        \E plan \in SelectedPlans(PlansOf(id, pending.piece), pending.route) :
         LET moving == MovingPieces(pieces, pending.piece, options.stacking)
             captured == Captured(pieces, team, plan)
         IN /\ pieces' = ApplyMoveResolution(pieces, team, moving, plan, options.stacking)
            /\ winner' = IF AllFinished(pieces', team) THEN team ELSE winner
            /\ Turn!CompleteMove(id, /\ captured # {} /\ CaptureGrants(options.capture, ResultOf(id))
                                     /\ ~AllFinished(pieces', team),
                                 AllFinished(pieces', team))
            /\ pending' = NoMove
            /\ UNCHANGED <<flow, options>>
  BY DEF CompleteMove
<1>2. PICK plan \in SelectedPlans(PlansOf(id, pending.piece), pending.route) :
         LET moving == MovingPieces(pieces, pending.piece, options.stacking)
             captured == Captured(pieces, team, plan)
         IN /\ pieces' = ApplyMoveResolution(pieces, team, moving, plan, options.stacking)
            /\ winner' = IF AllFinished(pieces', team) THEN team ELSE winner
            /\ Turn!CompleteMove(id, /\ captured # {} /\ CaptureGrants(options.capture, ResultOf(id))
                                     /\ ~AllFinished(pieces', team),
                                 AllFinished(pieces', team))
            /\ pending' = NoMove
            /\ UNCHANGED <<flow, options>>
  BY <1>1
<1> DEFINE F == AllFinished(pieces', team)
           C == Captured(pieces, team, plan) # {} /\ CaptureGrants(options.capture, ResultOf(id)) /\ ~F
<1>3. Turn!CompleteMove(id, C, F)
  BY <1>2
<1>4. \E c, w \in BOOLEAN : Turn!CompleteMove(id, c, w) /\ (w <=> F)
  <2> HIDE DEF C, F
  <2>1. CASE C /\ F
    BY <1>3, <2>1 DEF Turn!CompleteMove
  <2>2. CASE C /\ ~F
    <3>1. Turn!CompleteMove(id, TRUE, FALSE)
      BY <1>3, <2>2 DEF Turn!CompleteMove, Turn!AdvanceAfterResolution
    <3> QED
      BY <2>2, <3>1
  <2>3. CASE ~C /\ F
    <3>1. Turn!CompleteMove(id, FALSE, TRUE)
      BY <1>3, <2>3 DEF Turn!CompleteMove, Turn!AdvanceAfterResolution
    <3> QED
      BY <2>3, <3>1
  <2>4. CASE ~C /\ ~F
    <3>1. Turn!CompleteMove(id, FALSE, FALSE)
      BY <1>3, <2>4 DEF Turn!CompleteMove, Turn!AdvanceAfterResolution
    <3> QED
      BY <2>4, <3>1
  <2> QED
    BY <2>1, <2>2, <2>3, <2>4
<1>5. phase = "resolve_stack_capture_finish"
  BY DEF CompleteMove
<1> HIDE DEF C
<1> QED
  BY <1>2, <1>4, <1>5

\* ResolveBukHead likewise.
LEMMA ResolveBukHeadMachine ==
  ASSUME ResolveBukHead
  PROVE  \E id \in selectedID, n, c \in BOOLEAN :
           \E outcome \in ResolveBuk(pieces, team, Graph.fixedBuk, options.stacking, options.policy) :
             /\ Turn!CompleteBuk(id, n, c, FALSE)
             /\ pieces' = outcome.pieces
<1>1. PICK outcome \in ResolveBuk(pieces, team, Graph.fixedBuk, options.stacking, options.policy),
           id \in selectedID :
        /\ Turn!CompleteBuk(id, outcome.noCandidate,
                            outcome.captured /\ CaptureGrants(options.capture, "buk"), FALSE)
        /\ pieces' = outcome.pieces
  BY DEF ResolveBukHead
<1> DEFINE N == outcome.noCandidate
           C == outcome.captured /\ CaptureGrants(options.capture, "buk")
<1>2. Turn!CompleteBuk(id, N, C, FALSE)
  BY <1>1
<1>3. \E n, c \in BOOLEAN : Turn!CompleteBuk(id, n, c, FALSE)
  <2> HIDE DEF N, C
  <2>1. CASE N /\ C
    BY <1>2, <2>1 DEF Turn!CompleteBuk
  <2>2. CASE N /\ ~C
    <3>1. Turn!CompleteBuk(id, TRUE, FALSE, FALSE)
      BY <1>2, <2>2 DEF Turn!CompleteBuk
    <3> QED
      BY <3>1
  <2>3. CASE ~N /\ C
    <3>1. Turn!CompleteBuk(id, FALSE, TRUE, FALSE)
      BY <1>2, <2>3 DEF Turn!CompleteBuk, Turn!AdvanceAfterResolution
    <3> QED
      BY <3>1
  <2>4. CASE ~N /\ ~C
    <3>1. Turn!CompleteBuk(id, FALSE, FALSE, FALSE)
      BY <1>2, <2>4 DEF Turn!CompleteBuk, Turn!AdvanceAfterResolution
    <3> QED
      BY <3>1
  <2> QED
    BY <2>1, <2>2, <2>3, <2>4
<1> QED
  BY <1>1, <1>3

\* The next turn has a fresh machine.
LEMMA EndTurnMachine ==
  ASSUME M!IInv, EndTurn
  PROVE  M!IInv'
<1>1. /\ movementOrder \in M!Orders /\ yutMoExtra \in BOOLEAN
      /\ movementOrder' = movementOrder /\ yutMoExtra' = yutMoExtra
      /\ phase' = "turn_start" /\ expectedOrigin' = "none" /\ selectedID' = {}
      /\ tokens' = <<>> /\ seenIDs' = {} /\ throwingCapped' = FALSE
  BY DEF EndTurn, settings, M!IInv, M!TypeOK, Turn!NoOrigin
<1>2. tokens' \in Seq(M!ResultToken) /\ Len(tokens') = 0 /\ DOMAIN tokens' = {}
  BY <1>1
<1>3. M!BukIndices' = {}
  BY <1>2 DEF M!BukIndices
<1>4. M!TypeOK'
  BY <1>1, <1>2 DEF M!TypeOK, M!Phases, M!NoOrigin
<1>5. M!UniqueIDs' /\ M!PendingThrow' /\ M!ThrowIsRecordable' /\ M!SelectedIsConsumable'
  BY <1>1, <1>2 DEF M!UniqueIDs, M!QueuedIDs, M!PendingThrow, M!ThrowIsRecordable,
                    M!SelectedIsConsumable, M!SelectionPhases
<1>6. M!BukResolvedFirst' /\ M!FullQueueIsSealed'
  BY <1>1, <1>2, <1>3, PlayAssumption DEF M!BukResolvedFirst, M!FullQueueIsSealed, M!SelectionPhases
<1>7. M!FreshTurn'
  BY <1>1, <1>2, <1>3 DEF M!FreshTurn
<1> QED
  BY <1>4, <1>5, <1>6, <1>7 DEF M!IInv

\* The id of a throw.
LEMMA FreshID ==
  ASSUME MachineInv, phase = "throwing_chain"
  PROVE  Cardinality(seenIDs) + 1 \in TokenIDs
<1>1. seenIDs \in SUBSET TokenIDs
  BY MachineIDs DEF MachineInv
<1>2. Cardinality(seenIDs) \in Nat /\ Cardinality(TokenIDs) \in Nat
  BY <1>1, PlayAssumption, FS_Subset, FS_CardinalityType
<1>3. Cardinality(seenIDs) < Cardinality(TokenIDs)
  BY DEF MachineInv, ThrowHasID
<1>4. TokenIDs = 1 .. Cardinality(TokenIDs)
  BY PlayAssumption
<1> QED
  BY <1>2, <1>3, <1>4

\* Every step of the match keeps the invariant of the turn machine, the step
\* to the next turn included.
LEMMA NextMachineInv ==
  ASSUME MachineInv, [Next]_vars
  PROVE  MachineInv'
<1>1. M!IInv
  BY DEF MachineInv
<1>2. /\ selectedID \in SUBSET TokenIDs
      /\ \A i \in Turn!AvailableIndices : tokens[i].id \in TokenIDs
  BY <1>1, MachineIDs
<1>3. AvailableTokens \subseteq TokenIDs
  BY <1>2 DEF AvailableTokens
<1>4. ASSUME M!Next, phase' # "throwing_chain"
      PROVE  MachineInv'
  BY <1>1, <1>4, MachineNext DEF MachineInv, ThrowHasID
<1>5. CASE BeginTurn
  <2>1. M!Start
    BY <1>5, StartIsMachine DEF BeginTurn
  <2> QED
    BY <1>4, <2>1 DEF M!Next, M!Start, M!SetState
<1>6. CASE BeginThrow
  <2>1. M!BeginThrow
    BY <1>6, BeginThrowIsMachine DEF BeginThrow
  <2>2. M!Next
    BY <2>1 DEF M!Next
  <2>3. M!IInv'
    BY <1>1, <2>2, MachineNext
  <2>4. ThrowHasID'
    BY <1>6, <2>1 DEF BeginThrow, M!BeginThrow, M!queue, ThrowHasID
  <2> QED
    BY <2>3, <2>4 DEF MachineInv
<1>7. CASE RecordThrow
  <2>1. PICK result \in Results : Turn!RecordThrow(Cardinality(seenIDs) + 1, result)
    BY <1>7 DEF RecordThrow
  <2>2. Cardinality(seenIDs) + 1 \in TokenIDs
    BY <2>1, FreshID DEF Turn!RecordThrow
  <2>3. M!RecordThrow(Cardinality(seenIDs) + 1, result)
    BY <2>1, RecordThrowIsMachine
  <2>4. M!Next
    BY <2>2, <2>3 DEF M!Next
  <2>5. phase' # "throwing_chain"
    BY <2>1 DEF Turn!RecordThrow, Turn!SetState
  <2> QED
    BY <1>4, <2>4, <2>5
<1>8. CASE ResolveQueue
  <2>1. M!ResolveQueue
    BY <1>8, ResolveQueueIsMachine DEF ResolveQueue
  <2> QED
    BY <1>4, <2>1 DEF M!Next, M!ResolveQueue, M!SetState
<1>9. CASE ResolveBukHead
  <2>1. PICK id \in selectedID, n \in BOOLEAN, c \in BOOLEAN : Turn!CompleteBuk(id, n, c, FALSE)
    BY <1>9, ResolveBukHeadMachine
  <2>2. M!CompleteBuk(id, n, c, FALSE)
    BY <2>1, CompleteBukIsMachine
  <2>3. M!Next
    BY <1>2, <2>2 DEF M!Next
  <2>4. phase' # "throwing_chain"
    BY <2>1 DEF Turn!CompleteBuk, Turn!AdvanceAfterResolution, Turn!SetState
  <2> QED
    BY <1>4, <2>3, <2>4
<1>10. ASSUME NEW id, Turn!DiscardUnusableResult(id)
       PROVE  MachineInv'
  <2>1. M!DiscardUnusableResult(id)
    BY <1>10, DiscardIsMachine
  <2>2. id \in TokenIDs
    BY <1>2, <1>10 DEF Turn!DiscardUnusableResult, Turn!OrdinaryAvailable
  <2>3. M!Next
    BY <2>1, <2>2 DEF M!Next
  <2>4. phase' # "throwing_chain"
    BY <1>10 DEF Turn!DiscardUnusableResult, Turn!SetState
  <2> QED
    BY <1>4, <2>3, <2>4
<1>11. CASE EnterMoveSelection
  BY <1>10, <1>11 DEF EnterMoveSelection
<1>12. ASSUME NEW id, NEW p, NEW byCpu, SelectMoveInternal(id, p, byCpu)
       PROVE  MachineInv'
  <2>1. PICK r \in BOOLEAN : Turn!SelectMove(id, r)
    BY <1>12, SelectMoveInternalMachine
  <2>2. M!SelectMove(id, r)
    BY <2>1, SelectMoveIsMachine
  <2>3. id \in TokenIDs
    BY <1>2, <2>1 DEF Turn!SelectMove, Turn!OrdinaryAvailable
  <2>4. M!Next
    BY <2>2, <2>3 DEF M!Next
  <2>5. phase' # "throwing_chain"
    BY <2>1 DEF Turn!SelectMove, Turn!SetState
  <2> QED
    BY <1>4, <2>4, <2>5
<1>13. CASE SelectMove
  BY <1>12, <1>13 DEF SelectMove
<1>14. ASSUME NEW id, Turn!RouteSelected(id)
       PROVE  MachineInv'
  <2>1. M!RouteSelected(id)
    BY <1>14, RouteSelectedIsMachine
  <2>2. id \in TokenIDs
    BY <1>2, <1>14 DEF Turn!RouteSelected
  <2>3. M!Next
    BY <2>1, <2>2 DEF M!Next
  <2>4. phase' # "throwing_chain"
    BY <1>14 DEF Turn!RouteSelected, Turn!SetState
  <2> QED
    BY <1>4, <2>3, <2>4
<1>15. CASE SelectRoute
  BY <1>14, <1>15 DEF SelectRoute
<1>16. CASE ApplySelectedMove
  <2>1. PICK id \in selectedID : Turn!MoveApplied(id)
    BY <1>16 DEF ApplySelectedMove
  <2>2. M!MoveApplied(id)
    BY <2>1, MoveAppliedIsMachine
  <2>3. M!Next
    BY <1>2, <2>2 DEF M!Next
  <2>4. phase' # "throwing_chain"
    BY <2>1 DEF Turn!MoveApplied, Turn!SetState
  <2> QED
    BY <1>4, <2>3, <2>4
<1>17. CASE CompleteMove
  <2>1. PICK id \in selectedID, c \in BOOLEAN, w \in BOOLEAN : Turn!CompleteMove(id, c, w)
    BY <1>17, CompleteMoveMachine
  <2>2. M!CompleteMove(id, c, w)
    BY <2>1, CompleteMoveIsMachine
  <2>3. M!Next
    BY <1>2, <2>2 DEF M!Next
  <2>4. phase' # "throwing_chain"
    BY <2>1 DEF Turn!CompleteMove, Turn!AdvanceAfterResolution, Turn!SetState
  <2> QED
    BY <1>4, <2>3, <2>4
<1>18. ASSUME UNCHANGED <<machine, settings>>
       PROVE  MachineInv'
  <2>1. UNCHANGED M!vars
    BY <1>18 DEF machine, settings, M!vars
  <2>2. M!IInv'
    BY <1>1, <2>1, MachineNext
  <2> QED
    BY <1>18, <2>2 DEF MachineInv, ThrowHasID, machine
<1>19. CASE TakeOver
  BY <1>18, <1>19 DEF TakeOver
<1>20. CASE CpuChooseMove
  BY <1>10, <1>12, <1>20 DEF CpuChooseMove
<1>21. CASE CpuChooseRoute
  BY <1>14, <1>21 DEF CpuChooseRoute
<1>22. CASE EndTurn
  BY <1>1, <1>22, EndTurnMachine DEF MachineInv, ThrowHasID, EndTurn
<1>23. CASE UNCHANGED vars
  BY <1>18, <1>23 DEF vars
<1> QED
  BY <1>5, <1>6, <1>7, <1>8, <1>9, <1>11, <1>13, <1>15, <1>16, <1>17, <1>19, <1>20, <1>21,
     <1>22, <1>23 DEF Next
-----------------------------------------------------------------------------
(* The invariant of the match *)

\* While a move is under way it is a move of an unfinished piece of the team
\* whose turn it is.
MoveIsOwn ==
  phase \in {"wait_route_selection", "apply_move", "resolve_stack_capture_finish"} =>
    pending.piece \in TeamPieces(team) /\ pieces[pending.piece].state # "finished"

\* The state of the turn and of the match, apart from the pieces.
FlowOK ==
  /\ winner \in Teams \union {NoTeam} /\ team \in Teams /\ cpuControlled \in BOOLEAN
  /\ turns \in 1 .. MaxTurns /\ options \in Options
  /\ pending = [piece |-> pending.piece, route |-> pending.route, byCpu |-> pending.byCpu]

\* The pieces stand where they may, the teams apart and the stacks joined.
PiecesOK ==
  /\ AllPlaced(pieces) /\ Apart(pieces)
  /\ options.stacking => Joined(pieces)

\* The inductive invariant of the game.
GameInv ==
  /\ FlowOK
  /\ PiecesOK
  /\ WinnerEndsTurn
  /\ MoveIsOwn

\* The options are values the planner and the resolution know.
LEMMA OptionsAreBoolean ==
  ASSUME FlowOK
  PROVE  options.stacking \in BOOLEAN /\ options.policy \in Policies
  BY PlayAssumption DEF FlowOK

\* An id of the queue stands for one result.
LEMMA ResultOfToken ==
  ASSUME M!IInv, NEW i \in DOMAIN tokens
  PROVE  ResultOf(tokens[i].id) = tokens[i].result
<1> DEFINE j == CHOOSE k \in DOMAIN tokens : tokens[k].id = tokens[i].id
<1>1. j \in DOMAIN tokens /\ tokens[j].id = tokens[i].id
  OBVIOUS
<1>2. ResultOf(tokens[i].id) = tokens[j].result
  BY DEF ResultOf
<1> HIDE DEF j
<1>3. j = i
  BY <1>1 DEF M!IInv, M!UniqueIDs
<1> QED
  BY <1>2, <1>3

\* The selected token is ordinary.
LEMMA SelectedResult ==
  ASSUME M!IInv, NEW id \in selectedID,
         phase \in {"wait_route_selection", "apply_move", "resolve_stack_capture_finish"}
  PROVE  ResultOf(id) \in {"do", "gae", "geol", "yut", "mo", "backdo"}
<1>1. PICK x \in TokenIDs : selectedID = {x} /\ M!OrdinaryAvailable(x)
  BY DEF M!IInv, M!SelectedIsConsumable, M!SelectionPhases
<1>2. id = x
  BY <1>1
<1>3. PICK i \in M!AvailableIndices : tokens[i].id = id /\ tokens[i].result # "buk"
  BY <1>1, <1>2 DEF M!OrdinaryAvailable
<1>4. i \in DOMAIN tokens /\ tokens[i].result \in Results
  BY <1>3, AvailableIsMachine, MachineIDs
<1>5. ResultOf(id) = tokens[i].result
  BY <1>3, <1>4, ResultOfToken
<1> QED
  BY <1>3, <1>4, <1>5, PlayAssumption

\* A plan that selectOrdinaryMovePlan returns is one of the piece's plans.
LEMMA SelectedIsPlan ==
  ASSUME NEW plans, plans # <<>> => Len(plans) \in {1, 2} /\ DOMAIN plans = 1 .. Len(plans),
         NEW route, NEW plan \in SelectedPlans(plans, route)
  PROVE  plans # <<>> /\ \E i \in DOMAIN plans : plan = plans[i]
<1>1. CASE Len(plans) = 1
  <2>1. plans # <<>>
    BY <1>1
  <2>2. plan = plans[1]
    BY <1>1 DEF SelectedPlans
  <2>3. 1 \in DOMAIN plans
    BY <1>1, <2>1
  <2> QED
    BY <2>1, <2>2, <2>3
<1>2. CASE Len(plans) # 1
  <2>1. PICK i \in DOMAIN plans : plan = plans[i]
    BY <1>2 DEF SelectedPlans
  <2>2. plans # <<>>
    BY <2>1
  <2> QED
    BY <2>1, <2>2
<1> QED
  BY <1>1, <1>2

\* The plan of the pending move leads to a place where a piece may stand.
LEMMA SelectedPlanIsGood ==
  ASSUME M!IInv, FlowOK, PiecesOK, MoveIsOwn, NEW id \in selectedID, NEW route,
         phase \in {"wait_route_selection", "apply_move", "resolve_stack_capture_finish"},
         NEW plan \in SelectedPlans(PlansOf(id, pending.piece), route)
  PROVE  GoodPlan(plan)
<1> DEFINE p == pending.piece
           plans == PlansOf(id, p)
<1>1. p \in Pieces /\ pieces[p].state # "finished" /\ Placed(pieces[p])
  BY DEF MoveIsOwn, TeamPieces, PiecesOK, AllPlaced
<1>2. ResultOf(id) \in {"do", "gae", "geol", "yut", "mo", "backdo"}
  BY SelectedResult
<1>3. options.policy \in Policies
  BY OptionsAreBoolean
<1>4. plans = MovePlans(pieces, p, ResultOf(id), options.policy)
  BY DEF PlansOf
<1> HIDE DEF p, plans
<1>5. plans # <<>> => /\ Len(plans) \in {1, 2} /\ DOMAIN plans = 1 .. Len(plans)
                      /\ \A i \in DOMAIN plans : GoodPlan(plans[i])
  BY <1>1, <1>2, <1>3, <1>4, MovePlansAreGood
<1>6. plan \in SelectedPlans(plans, route)
  BY DEF plans, p
<1> QED
  BY <1>5, <1>6, SelectedIsPlan

\* The pieces that move together are unfinished pieces of one team.
LEMMA MovingPiecesAreOwn ==
  ASSUME NEW pp, NEW tm, NEW p \in TeamPieces(tm), pp[p].state # "finished", NEW stacking \in BOOLEAN
  PROVE  /\ MovingPieces(pp, p, stacking) \in SUBSET TeamPieces(tm)
         /\ p \in MovingPieces(pp, p, stacking)
         /\ \A q \in MovingPieces(pp, p, stacking) : pp[q].state # "finished"
  BY DEF MovingPieces, TeamPieces

\* A match begins with every piece in its waiting area.
LEMMA InitGameInv == Init => GameInv
<1> SUFFICES ASSUME Init PROVE GameInv
  OBVIOUS
<1>1. FlowOK
  BY PlayAssumption DEF Init, FlowOK, Teams, NoMove
<1>2. \A p \in Pieces : pieces[p] = Waiting
  BY DEF Init
<1>3. Placed(Waiting) /\ Waiting.space = NoSpace /\ Waiting.state = "waiting"
  BY SpacesHaveNames DEF Placed, Waiting, PieceStates
<1>4. PiecesOK
  BY <1>2, <1>3 DEF PiecesOK, AllPlaced, Apart, Joined
<1>5. \A t \in Teams : ~AllFinished(pieces, t)
  BY <1>2, <1>3, TeamAssumption DEF AllFinished, TeamPieces
<1>6. phase = "turn_start" /\ winner = NoTeam
  BY DEF Init, Turn!NewMachine
<1>7. WinnerEndsTurn /\ MoveIsOwn
  BY <1>5, <1>6 DEF WinnerEndsTurn, MoveIsOwn, NoTeam, Teams
<1> QED
  BY <1>1, <1>4, <1>7 DEF GameInv

\* A step that moves no piece and neither ends the match nor the turn.
LEMMA QuietStep ==
  ASSUME GameInv, UNCHANGED <<pieces, winner, options, team, turns>>, cpuControlled' \in BOOLEAN,
         phase # "match_end", phase' # "match_end", MoveIsOwn',
         pending' = [piece |-> pending'.piece, route |-> pending'.route, byCpu |-> pending'.byCpu]
  PROVE  GameInv'
<1>1. FlowOK'
  BY DEF GameInv, FlowOK
<1>2. PiecesOK'
  BY DEF GameInv, PiecesOK, AllPlaced, Apart, Joined
<1>3. WinnerEndsTurn'
  BY DEF GameInv, WinnerEndsTurn, AllFinished
<1> QED
  BY <1>1, <1>2, <1>3 DEF GameInv

\* The step that OthersOnlyCaptured allows.
TakesOnlyCaptured ==
  \A p \in Pieces :
    pieces'[p] # pieces[p] =>
      /\ pieces[p].state # "finished"
      /\ Team[p] # team => /\ pieces'[p] = Waiting
                           /\ \E q \in TeamPieces(team) : pieces'[q].space = pieces[p].space

\* CompleteMove: the move of a player or the CPU is resolved.
LEMMA CompleteMoveGame ==
  ASSUME MachineInv, GameInv, CompleteMove
  PROVE  GameInv' /\ TakesOnlyCaptured
<1>1. PICK id \in selectedID, c \in BOOLEAN, w \in BOOLEAN :
        \E plan \in SelectedPlans(PlansOf(id, pending.piece), pending.route) :
          /\ phase = "resolve_stack_capture_finish"
          /\ Turn!CompleteMove(id, c, w)
          /\ w <=> AllFinished(pieces', team)
          /\ pieces' = ApplyMoveResolution(pieces, team,
                         MovingPieces(pieces, pending.piece, options.stacking), plan,
                         options.stacking)
          /\ winner' = IF AllFinished(pieces', team) THEN team ELSE winner
          /\ pending' = NoMove /\ UNCHANGED <<flow, options>>
  BY CompleteMoveMachine
<1>2. PICK plan \in SelectedPlans(PlansOf(id, pending.piece), pending.route) :
        /\ phase = "resolve_stack_capture_finish"
        /\ Turn!CompleteMove(id, c, w)
        /\ w <=> AllFinished(pieces', team)
        /\ pieces' = ApplyMoveResolution(pieces, team,
                       MovingPieces(pieces, pending.piece, options.stacking), plan,
                       options.stacking)
        /\ winner' = IF AllFinished(pieces', team) THEN team ELSE winner
        /\ pending' = NoMove /\ UNCHANGED <<flow, options>>
  BY <1>1
<1> DEFINE p == pending.piece
           stacking == options.stacking
           moving == MovingPieces(pieces, p, stacking)
<1>3. FlowOK /\ PiecesOK /\ MoveIsOwn /\ WinnerEndsTurn /\ M!IInv
  BY DEF GameInv, MachineInv
<1>4. stacking \in BOOLEAN
  BY <1>3, OptionsAreBoolean
<1>5. GoodPlan(plan)
  BY <1>2, <1>3, SelectedPlanIsGood
<1>6. p \in TeamPieces(team) /\ pieces[p].state # "finished"
  BY <1>2, <1>3 DEF MoveIsOwn
<1>7. /\ moving \in SUBSET TeamPieces(team) /\ p \in moving
      /\ \A q \in moving : pieces[q].state # "finished"
  BY <1>4, <1>6, MovingPiecesAreOwn
<1> HIDE DEF p, stacking, moving
<1>8. AllPlaced(pieces)
  BY <1>3 DEF PiecesOK
<1>9. ResolutionIsSound(pieces, team, moving, plan, stacking, pieces')
  <2>1. pieces' = ApplyMoveResolution(pieces, team, moving, plan, stacking)
    BY <1>2 DEF moving, stacking, p
  <2>2. ResolutionIsSound(pieces, team, moving, plan, stacking,
                          ApplyMoveResolution(pieces, team, moving, plan, stacking))
    BY <1>4, <1>5, <1>7, <1>8, ApplyMoveResolutionIsSound
  <2> QED
    BY <2>1, <2>2
<1>10. /\ team' = team /\ turns' = turns /\ cpuControlled' = cpuControlled /\ options' = options
       /\ pending' = NoMove
  BY <1>2 DEF flow
<1>11. winner = NoTeam
  BY <1>2, <1>3 DEF WinnerEndsTurn
<1> DEFINE F == AllFinished(pieces', team)
<1>12. phase' = "match_end" <=> F
  BY <1>2 DEF Turn!CompleteMove, Turn!AdvanceAfterResolution, Turn!SetState
<1>13. phase' \notin {"wait_route_selection", "apply_move", "resolve_stack_capture_finish"}
  BY <1>2 DEF Turn!CompleteMove, Turn!AdvanceAfterResolution, Turn!SetState
<1>14. winner' = IF F THEN team ELSE NoTeam
  BY <1>2, <1>11
<1>15. FlowOK'
  <2>1. winner' \in Teams \union {NoTeam}
    BY <1>3, <1>14 DEF FlowOK
  <2> HIDE DEF F
  <2> QED
    BY <1>3, <1>10, <2>1 DEF FlowOK, NoMove
<1>16. PiecesOK'
  <2>1. AllPlaced(pieces') /\ Apart(pieces') /\ (stacking => Joined(pieces'))
    BY <1>3, <1>9 DEF ResolutionIsSound, PiecesOK, stacking
  <2>2. options.stacking' = stacking
    BY <1>10 DEF stacking
  <2>3. AllPlaced(pieces)' /\ Apart(pieces)' /\ (options.stacking' => Joined(pieces)')
    BY <2>1, <2>2 DEF AllPlaced, Apart, Joined
  <2> QED
    BY <2>3 DEF PiecesOK
<1>17. ASSUME NEW t \in Teams, t # team
       PROVE  ~AllFinished(pieces', t)
  <2>1. ~AllFinished(pieces, t)
    BY <1>3, <1>11 DEF WinnerEndsTurn, NoTeam, Teams
  <2>2. PICK q \in TeamPieces(t) : pieces[q].state # "finished"
    BY <2>1 DEF AllFinished
  <2>3. q \in Pieces \ moving
    BY <1>7, <1>17 DEF TeamPieces
  <2>4. pieces'[q].state # "finished"
    BY <1>9, <2>2, <2>3 DEF ResolutionIsSound
  <2> QED
    BY <2>4 DEF AllFinished
<1>18. WinnerEndsTurn'
  <2>1. team \in Teams /\ NoTeam \notin Teams
    BY <1>3 DEF FlowOK, NoTeam, Teams
  <2>2. \A t \in Teams : AllFinished(pieces', t) <=> winner' = t
    <3> SUFFICES ASSUME NEW t \in Teams PROVE AllFinished(pieces', t) <=> winner' = t
      OBVIOUS
    <3>1. CASE t = team
      BY <3>1, <2>1, <1>14
    <3>2. CASE t # team
      BY <3>2, <2>1, <1>14, <1>17
    <3> QED
      BY <3>1, <3>2
  <2>3. \A t \in Teams : AllFinished(pieces, t)' <=> winner' = t
    BY <2>2 DEF AllFinished
  <2> HIDE DEF F
  <2> QED
    BY <1>10, <1>12, <1>14, <2>1, <2>3 DEF WinnerEndsTurn
<1>19. MoveIsOwn'
  BY <1>13 DEF MoveIsOwn
<1>20. TakesOnlyCaptured
  <2> SUFFICES ASSUME NEW q \in Pieces, pieces'[q] # pieces[q]
               PROVE  /\ pieces[q].state # "finished"
                      /\ Team[q] # team =>
                           /\ pieces'[q] = Waiting
                           /\ \E r \in TeamPieces(team) : pieces'[r].space = pieces[q].space
    BY DEF TakesOnlyCaptured
  <2>1. pieces[q].state # "finished"
    BY <1>7, <1>9 DEF ResolutionIsSound
  <2>2. Team[q] # team => pieces'[q] = Waiting /\ pieces[q].space = plan.space
    BY <1>9 DEF ResolutionIsSound
  <2>3. pieces'[p].space = plan.space
    BY <1>7, <1>9 DEF ResolutionIsSound
  <2> QED
    BY <1>6, <2>1, <2>2, <2>3
<1> QED
  BY <1>15, <1>16, <1>18, <1>19, <1>20 DEF GameInv

\* ResolveBukHead: so is a Buk.
LEMMA ResolveBukHeadGame ==
  ASSUME MachineInv, GameInv, ResolveBukHead
  PROVE  GameInv' /\ TakesOnlyCaptured
<1>1. PICK id \in selectedID, n \in BOOLEAN, c \in BOOLEAN,
           outcome \in ResolveBuk(pieces, team, Graph.fixedBuk, options.stacking, options.policy) :
        Turn!CompleteBuk(id, n, c, FALSE) /\ pieces' = outcome.pieces
  BY ResolveBukHeadMachine
<1>2. FlowOK /\ PiecesOK /\ WinnerEndsTurn /\ AllPlaced(pieces) /\ options.stacking \in BOOLEAN
  BY OptionsAreBoolean DEF GameInv, PiecesOK
<1>3. BukIsSound(pieces, team, options.stacking, pieces')
  BY <1>1, <1>2, ResolveBukIsSound
<1>4. /\ winner = NoTeam /\ winner' = winner /\ team' = team /\ turns' = turns
      /\ cpuControlled' = cpuControlled /\ options' = options /\ pending' = pending
  BY DEF ResolveBukHead, flow
<1>5. phase' \in {"turn_end", "resolve_queue", "wait_throw"}
  BY <1>1 DEF Turn!CompleteBuk, Turn!AdvanceAfterResolution, Turn!SetState
<1>6. FlowOK'
  BY <1>2, <1>4 DEF FlowOK
<1>7. PiecesOK'
  <2>1. AllPlaced(pieces') /\ Apart(pieces') /\ (options.stacking => Joined(pieces'))
    BY <1>2, <1>3 DEF BukIsSound, PiecesOK
  <2>2. AllPlaced(pieces)' /\ Apart(pieces)' /\ (options.stacking' => Joined(pieces)')
    BY <1>4, <2>1 DEF AllPlaced, Apart, Joined
  <2> QED
    BY <2>2 DEF PiecesOK
<1>8. ASSUME NEW t \in Teams PROVE ~AllFinished(pieces', t)
  <2>1. ~AllFinished(pieces, t)
    BY <1>2, <1>4 DEF WinnerEndsTurn, NoTeam, Teams
  <2>2. PICK q \in TeamPieces(t) : pieces[q].state # "finished"
    BY <2>1 DEF AllFinished
  <2>3. pieces'[q].state # "finished"
    BY <1>3, <2>2 DEF BukIsSound, TeamPieces
  <2> QED
    BY <2>3 DEF AllFinished
<1>9. WinnerEndsTurn'
  BY <1>4, <1>5, <1>8 DEF WinnerEndsTurn, AllFinished, NoTeam, Teams
<1>10. MoveIsOwn'
  BY <1>5 DEF MoveIsOwn
<1>11. TakesOnlyCaptured
  BY <1>3 DEF BukIsSound, TakesOnlyCaptured
<1> QED
  BY <1>6, <1>7, <1>9, <1>10, <1>11 DEF GameInv

\* The pieces stay where they are.
LEMMA NothingTaken ==
  ASSUME pieces' = pieces
  PROVE  TakesOnlyCaptured
  BY DEF TakesOnlyCaptured

\* Every step of the match keeps the invariant of the game and takes from the
\* other team only what is captured.
LEMMA NextGameInv ==
  ASSUME MachineInv, GameInv, [Next]_vars
  PROVE  GameInv' /\ TakesOnlyCaptured
<1>1. FlowOK /\ MoveIsOwn /\ WinnerEndsTurn
  BY DEF GameInv
<1>2. /\ cpuControlled \in BOOLEAN
      /\ pending = [piece |-> pending.piece, route |-> pending.route, byCpu |-> pending.byCpu]
  BY <1>1 DEF FlowOK
<1>3. ASSUME UNCHANGED <<pieces, winner, options, team, turns, cpuControlled, pending>>,
             phase # "match_end", phase' # "match_end",
             phase' \notin {"wait_route_selection", "apply_move", "resolve_stack_capture_finish"}
      PROVE  GameInv' /\ TakesOnlyCaptured
  <2>1. MoveIsOwn'
    BY <1>3 DEF MoveIsOwn
  <2> QED
    BY <1>2, <1>3, <2>1, QuietStep, NothingTaken
<1>4. ASSUME NEW id, Turn!DiscardUnusableResult(id), UNCHANGED <<game, flow, options, pending>>
      PROVE  GameInv' /\ TakesOnlyCaptured
  BY <1>3, <1>4 DEF Turn!DiscardUnusableResult, Turn!SetState, game, flow
<1>5. ASSUME NEW id, NEW p, NEW byCpu, SelectMoveInternal(id, p, byCpu)
      PROVE  GameInv' /\ TakesOnlyCaptured
  <2>1. PICK r \in BOOLEAN : Turn!SelectMove(id, r)
    BY <1>5, SelectMoveInternalMachine
  <2>2. phase = "wait_move_selection" /\ phase' \in {"wait_route_selection", "apply_move"}
    BY <2>1 DEF Turn!SelectMove, Turn!SetState
  <2>3. p \in TeamPieces(team) /\ pieces[p].state # "finished"
    BY <1>5 DEF SelectMoveInternal, Candidates
  <2>4. /\ pending' = [piece |-> p, route |-> NoSpace, byCpu |-> byCpu]
        /\ UNCHANGED <<pieces, winner, options, team, turns, cpuControlled>>
    BY <1>5 DEF SelectMoveInternal, game, flow
  <2>5. MoveIsOwn'
    BY <2>3, <2>4 DEF MoveIsOwn, TeamPieces
  <2>6. pending' = [piece |-> pending'.piece, route |-> pending'.route, byCpu |-> pending'.byCpu]
    BY <2>4
  <2> QED
    BY <1>2, <2>2, <2>4, <2>5, <2>6, QuietStep, NothingTaken
<1>6. ASSUME NEW id, Turn!RouteSelected(id), NEW route, pending' = [pending EXCEPT !.route = route],
             UNCHANGED <<game, flow, options>>
      PROVE  GameInv' /\ TakesOnlyCaptured
  <2>1. phase = "wait_route_selection" /\ phase' = "apply_move"
    BY <1>6 DEF Turn!RouteSelected, Turn!SetState
  <2>2. pending' = [piece |-> pending.piece, route |-> route, byCpu |-> pending.byCpu]
    BY <1>2, <1>6
  <2>3. UNCHANGED <<pieces, winner, options, team, turns, cpuControlled>>
    BY <1>6 DEF game, flow
  <2>4. MoveIsOwn'
    BY <1>1, <2>1, <2>2, <2>3 DEF MoveIsOwn, TeamPieces
  <2> QED
    BY <1>2, <2>1, <2>2, <2>3, <2>4, QuietStep, NothingTaken
<1>7. CASE BeginTurn
  BY <1>3, <1>7 DEF BeginTurn, Turn!Start, Turn!SetState, game, flow
<1>8. CASE BeginThrow
  BY <1>3, <1>8 DEF BeginThrow, Turn!BeginThrow, Turn!SetState, game, flow
<1>9. CASE RecordThrow
  BY <1>3, <1>9 DEF RecordThrow, Turn!RecordThrow, Turn!SetState, game, flow
<1>10. CASE ResolveQueue
  BY <1>3, <1>10 DEF ResolveQueue, Turn!ResolveQueue, Turn!SetState, game, flow
<1>11. CASE ResolveBukHead
  BY <1>11, ResolveBukHeadGame
<1>12. CASE EnterMoveSelection
  BY <1>4, <1>12 DEF EnterMoveSelection
<1>13. CASE SelectMove
  BY <1>5, <1>13 DEF SelectMove
<1>14. CASE SelectRoute
  BY <1>6, <1>14 DEF SelectRoute
<1>15. CASE ApplySelectedMove
  <2>1. phase = "apply_move" /\ phase' = "resolve_stack_capture_finish"
    BY <1>15 DEF ApplySelectedMove, Turn!MoveApplied, Turn!SetState
  <2>2. UNCHANGED <<pieces, winner, options, team, turns, cpuControlled, pending>>
    BY <1>15 DEF ApplySelectedMove, game, flow
  <2>3. MoveIsOwn'
    BY <1>1, <2>1, <2>2 DEF MoveIsOwn, TeamPieces
  <2> QED
    BY <1>2, <2>1, <2>2, <2>3, QuietStep, NothingTaken
<1>16. CASE CompleteMove
  BY <1>16, CompleteMoveGame
<1>17. CASE TakeOver
  <2>1. /\ UNCHANGED <<pieces, winner, options, team, turns, phase, pending>> /\ cpuControlled' = TRUE
        /\ phase \in {"wait_throw", "wait_move_selection", "wait_route_selection"}
    BY <1>17 DEF TakeOver, game, machine, settings
  <2>2. MoveIsOwn'
    BY <1>1, <2>1 DEF MoveIsOwn, TeamPieces
  <2> QED
    BY <1>2, <2>1, <2>2, QuietStep, NothingTaken
<1>18. CASE CpuChooseMove
  BY <1>4, <1>5, <1>18 DEF CpuChooseMove
<1>19. CASE CpuChooseRoute
  BY <1>6, <1>19 DEF CpuChooseRoute
<1>20. CASE EndTurn
  <2>1. /\ UNCHANGED <<pieces, winner, options, pending>> /\ team' \in Teams
        /\ cpuControlled' \in BOOLEAN /\ turns < MaxTurns /\ turns' = turns + 1
        /\ phase = "turn_end" /\ phase' = "turn_start"
    BY <1>20 DEF EndTurn, game, settings
  <2>2. FlowOK'
    BY <1>1, <2>1, PlayAssumption DEF FlowOK
  <2>3. PiecesOK'
    BY <2>1 DEF GameInv, PiecesOK, AllPlaced, Apart, Joined
  <2>4. WinnerEndsTurn'
    BY <1>1, <2>1 DEF WinnerEndsTurn, AllFinished
  <2>5. MoveIsOwn'
    BY <2>1 DEF MoveIsOwn
  <2> QED
    BY <2>1, <2>2, <2>3, <2>4, <2>5, NothingTaken DEF GameInv
<1>21. CASE UNCHANGED vars
  <2>1. UNCHANGED <<pieces, winner, options, team, turns, cpuControlled, phase, pending>>
    BY <1>21 DEF vars, machine, game, flow, settings
  <2>2. GameInv'
    BY <2>1 DEF GameInv, FlowOK, PiecesOK, AllPlaced, Apart, Joined, WinnerEndsTurn, AllFinished,
                MoveIsOwn, TeamPieces
  <2> QED
    BY <2>1, <2>2, NothingTaken
<1> QED
  BY <1>7, <1>8, <1>9, <1>10, <1>11, <1>12, <1>13, <1>14, <1>15, <1>16, <1>17, <1>18, <1>19,
     <1>20, <1>21 DEF Next
-----------------------------------------------------------------------------
(* The CPU *)

\* The distance by which pieces are compared is a number.
LEMMA DistanceIsNumber ==
  ASSUME NEW pos, pos.space \in Graph.nodes, NEW policy \in Policies
  PROVE  RemainingForwardDistance(Graph, pos, policy) \in 1 .. Size
<1> DEFINE levels == HomeLevels(Graph, policy)
           space == pos.space
           here == {i \in 1 .. Size : space \in levels[i]}
<1>1. DOMAIN levels = 1 .. Size
  <2>1. levels \in Seq(SUBSET Graph.nodes) /\ Len(levels) = Size
    BY LevelsFacts DEF LevelsUpTo
  <2> HIDE DEF levels
  <2> QED
    BY <2>1
<1>2. levels[Size] = Graph.nodes
  BY GameAssumption DEF ValidateReachability, ValidateSpaces, Size
<1> HIDE DEF levels
<1>3. Size \in here /\ here \in SUBSET Nat
  BY <1>2, SizeIsNumber
<1>4. PICK i \in here : \A j \in here : i <= j
  <2> HIDE DEF here
  <2> QED
    BY <1>3, LeastNumber
<1>5. i \in DOMAIN levels /\ space \in levels[i] /\ (i > 1 => space \notin levels[i - 1])
  <2>1. i \in 1 .. Size /\ space \in levels[i]
    BY <1>4
  <2>2. ASSUME i > 1, space \in levels[i - 1] PROVE FALSE
    <3>1. i - 1 \in here
      BY <2>1, <2>2, SizeIsNumber
    <3> HIDE DEF here
    <3> QED
      BY <1>4, <2>1, <3>1, SizeIsNumber
  <2> QED
    BY <1>1, <2>1, <2>2
<1>6. DistanceIn(levels, space) \in DOMAIN levels
  BY <1>5 DEF DistanceIn
<1> QED
  BY <1>1, <1>6 DEF RemainingForwardDistance, levels

\* What the CPU compares pieces by: six numbers, none above one.
IsMerits(m) == DOMAIN m = 1 .. 6 /\ \A i \in 1 .. 6 : m[i] \in Int /\ 1 - m[i] \in Nat

\* What EnumerateCPUCandidates makes of a piece and a plan can be compared.
LEMMA CandidateFacts ==
  ASSUME NEW pp, NEW p \in Pieces, Placed(pp[p]), pp[p].state # "finished", NEW result,
         NEW stacking \in BOOLEAN, NEW policy \in Policies
  PROVE  LET c == CpuCandidate(pp, p, result, stacking, policy)
             plans == MovePlans(pp, p, result, policy) IN
         /\ c.piece = p /\ IsMerits(c.merits)
         /\ c.route = IF Len(plans) = 2 THEN plans[Len(plans)].route ELSE NoSpace
         /\ c.merits[4] = 1 <=> result # "backdo" /\ plans[Len(plans)].route = "shortcut"
<1> DEFINE c == CpuCandidate(pp, p, result, stacking, policy)
           plans == MovePlans(pp, p, result, policy)
           plan == plans[Len(plans)]
           moving == MovingPieces(pp, p, stacking)
           allies == PiecesAt(pp, plan, {Team[p]}) \ moving
           known == pp[p].state # "waiting"
           m1 == IF plan.state = "finished" THEN 1 ELSE 0
           m2 == IF Captured(pp, Team[p], plan) # {} THEN 1 ELSE 0
           m3 == IF stacking /\ allies # {} THEN 1 ELSE 0
           m4 == IF result # "backdo" /\ plan.route = "shortcut" THEN 1 ELSE 0
           m5 == IF known THEN 1 ELSE 0
           m6 == IF known THEN -RemainingForwardDistance(Graph, pp[p], policy) ELSE 0
<1>1. /\ c.piece = p /\ c.merits = <<m1, m2, m3, m4, m5, m6>>
      /\ c.route = IF Len(plans) = 2 THEN plan.route ELSE NoSpace
  BY DEF CpuCandidate
<1>2. {m1, m2, m3, m4, m5} \subseteq {0, 1}
  OBVIOUS
<1>3. m6 \in Int /\ 1 - m6 \in Nat
  <2>1. CASE known
    <3>1. pp[p].space \in Graph.nodes
      BY <2>1 DEF Placed, PieceStates
    <3>2. RemainingForwardDistance(Graph, pp[p], policy) \in 1 .. Size
      BY <3>1, DistanceIsNumber
    <3> QED
      BY <2>1, <3>2, SizeIsNumber
  <2>2. CASE ~known
    BY <2>2
  <2> QED
    BY <2>1, <2>2
<1>4. m4 = 1 <=> result # "backdo" /\ plan.route = "shortcut"
  OBVIOUS
<1> HIDE DEF c, plans, m1, m2, m3, m4, m5, m6
<1>5. DOMAIN c.merits = 1 .. 6 /\ c.merits[4] = m4
  BY <1>1
<1>6. \A i \in 1 .. 6 : c.merits[i] \in {m1, m2, m3, m4, m5, m6}
  BY <1>1
<1>7. IsMerits(c.merits)
  <2>1. \A m \in {m1, m2, m3, m4, m5} : m = 0 \/ m = 1
    BY <1>2
  <2>2. \A m \in {m1, m2, m3, m4, m5, m6} : m \in Int /\ 1 - m \in Nat
    BY <1>3, <2>1
  <2>3. \A i \in 1 .. 6 : c.merits[i] \in Int /\ 1 - c.merits[i] \in Nat
    BY <1>6, <2>2
  <2> QED
    BY <1>5, <2>3 DEF IsMerits
<1> QED
  BY <1>1, <1>4, <1>5, <1>7 DEF c, plans

\* A set of such candidates has one with the greatest i-th merit.
LEMMA GreatestMerit ==
  ASSUME NEW S, S # {}, \A c \in S : IsMerits(c.merits), NEW i \in 1 .. 6
  PROVE  \E c \in S : \A d \in S : c.merits[i] >= d.merits[i]
<1> DEFINE T == {1 - c.merits[i] : c \in S}
<1>1. T \in SUBSET Nat /\ T # {}
  BY DEF IsMerits
<1>2. PICK x \in T : \A y \in T : x <= y
  <2> HIDE DEF T
  <2> QED
    BY <1>1, LeastNumber
<1>3. PICK c \in S : x = 1 - c.merits[i]
  BY <1>2
<1>4. ASSUME NEW d \in S PROVE c.merits[i] >= d.merits[i]
  <2>1. 1 - c.merits[i] <= 1 - d.merits[i]
    BY <1>2, <1>3
  <2>2. c.merits[i] \in Int /\ d.merits[i] \in Int
    BY DEF IsMerits
  <2> QED
    BY <2>1, <2>2
<1> QED
  BY <1>4

\* Among candidates that are compared by their merits one is best.
LEMMA SomeCandidateIsBest ==
  ASSUME NEW S, S # {}, \A c \in S : IsMerits(c.merits)
  PROVE  \E c \in S : \A d \in S : ~Better(d, c)
<1> DEFINE Top(X, i) == {c \in X : \A d \in X : c.merits[i] >= d.merits[i]}
           S1 == Top(S, 1)
           S2 == Top(S1, 2)
           S3 == Top(S2, 3)
           S4 == Top(S3, 4)
           S5 == Top(S4, 5)
           S6 == Top(S5, 6)
<1>1. ASSUME NEW X \in SUBSET S, X # {}, NEW i \in 1 .. 6
      PROVE  Top(X, i) \in SUBSET S /\ Top(X, i) # {}
  <2>1. \A c \in X : IsMerits(c.merits)
    OBVIOUS
  <2>2. \E c \in X : \A d \in X : c.merits[i] >= d.merits[i]
    BY <1>1, <2>1, GreatestMerit
  <2> QED
    BY <2>2
<1>2. \A X, i : \A c \in Top(X, i) : c \in X /\ \A d \in X : c.merits[i] >= d.merits[i]
  OBVIOUS
<1>3. \A X, i : \A c \in Top(X, i) : \A d \in X : d.merits[i] = c.merits[i] => d \in Top(X, i)
  OBVIOUS
<1> HIDE DEF Top
<1>4. S1 \in SUBSET S /\ S1 # {}
  BY <1>1
<1>5. S2 \in SUBSET S /\ S2 # {}
  BY <1>1, <1>4
<1>6. S3 \in SUBSET S /\ S3 # {}
  BY <1>1, <1>5
<1>7. S4 \in SUBSET S /\ S4 # {}
  BY <1>1, <1>6
<1>8. S5 \in SUBSET S /\ S5 # {}
  BY <1>1, <1>7
<1>9. S6 \in SUBSET S /\ S6 # {}
  BY <1>1, <1>8
<1>10. PICK c : c \in S6
  BY <1>9
<1>11. c \in S5 /\ c \in S4 /\ c \in S3 /\ c \in S2 /\ c \in S1 /\ c \in S
  BY <1>2, <1>10
<1>12. ASSUME NEW d \in S, Better(d, c) PROVE FALSE
  <2>1. IsMerits(c.merits) /\ IsMerits(d.merits)
    BY <1>11
  <2>2. PICK i \in 1 .. 6 : /\ d.merits[i] > c.merits[i]
                            /\ \A j \in 1 .. (i - 1) : d.merits[j] = c.merits[j]
    BY <1>12, <2>1 DEF Better, IsMerits
  <2>3. \A j \in 1 .. 6 : c.merits[j] \in Int /\ d.merits[j] \in Int
    BY <2>1 DEF IsMerits
  <2>4. ~(c.merits[i] >= d.merits[i])
    BY <2>2, <2>3
  <2>5. i > 1 => d \in S1
    BY <1>3, <1>11, <2>2
  <2>6. i > 2 => d \in S2
    BY <1>3, <1>11, <2>2, <2>5
  <2>7. i > 3 => d \in S3
    BY <1>3, <1>11, <2>2, <2>6
  <2>8. i > 4 => d \in S4
    BY <1>3, <1>11, <2>2, <2>7
  <2>9. i > 5 => d \in S5
    BY <1>3, <1>11, <2>2, <2>8
  <2>10. i \in {1, 2, 3, 4, 5, 6}
    BY <2>2
  <2> HIDE DEF S1, S2, S3, S4, S5, S6
  <2>11. CASE i = 1
    BY <1>2, <1>11, <2>4, <2>11 DEF S1
  <2>12. CASE i = 2
    BY <1>2, <1>11, <2>4, <2>5, <2>12 DEF S2
  <2>13. CASE i = 3
    BY <1>2, <1>11, <2>4, <2>6, <2>13 DEF S3
  <2>14. CASE i = 4
    BY <1>2, <1>11, <2>4, <2>7, <2>14 DEF S4
  <2>15. CASE i = 5
    BY <1>2, <1>11, <2>4, <2>8, <2>15 DEF S5
  <2>16. CASE i = 6
    BY <1>2, <1>10, <2>4, <2>9, <2>16 DEF S6
  <2> QED
    BY <2>10, <2>11, <2>12, <2>13, <2>14, <2>15, <2>16
<1> QED
  BY <1>11, <1>12

\* Two candidates neither of which is better have the same merits.
LEMMA EqualsHaveEqualMerits ==
  ASSUME NEW c, NEW d, IsMerits(c.merits), IsMerits(d.merits), ~Better(c, d), ~Better(d, c)
  PROVE  c.merits[4] = d.merits[4]
<1>1. \A j \in 1 .. 6 : c.merits[j] \in Int /\ d.merits[j] \in Int
  BY DEF IsMerits
<1>2. \A i \in 1 .. 6 : (\A j \in 1 .. (i - 1) : c.merits[j] = d.merits[j]) =>
                          ~(c.merits[i] > d.merits[i]) /\ ~(d.merits[i] > c.merits[i])
  BY DEF Better, IsMerits
<1>3. \A i \in 1 .. 6 : (\A j \in 1 .. (i - 1) : c.merits[j] = d.merits[j]) =>
                          c.merits[i] = d.merits[i]
  BY <1>1, <1>2
<1>4. c.merits[1] = d.merits[1]
  BY <1>3
<1>5. c.merits[2] = d.merits[2]
  <2>1. \A j \in 1 .. (2 - 1) : c.merits[j] = d.merits[j]
    BY <1>4
  <2> QED
    BY <1>3, <2>1
<1>6. c.merits[3] = d.merits[3]
  <2>1. \A j \in 1 .. (3 - 1) : c.merits[j] = d.merits[j]
    BY <1>4, <1>5
  <2> QED
    BY <1>3, <2>1
<1>7. \A j \in 1 .. (4 - 1) : c.merits[j] = d.merits[j]
  BY <1>4, <1>5, <1>6
<1> QED
  BY <1>3, <1>7

\* While a move has to be selected there is a result to use.
HeadWaits == phase = "wait_move_selection" => 1 \in DOMAIN tokens

\* Where the CPU chose a move that needs a route, nothing has changed since:
\* the move is one of its best for the head of the queue.
CpuChoiceStands ==
  phase = "wait_route_selection" /\ pending.byCpu = TRUE =>
    /\ 1 \in DOMAIN tokens /\ selectedID = {tokens[1].id}
    /\ Len(PlansOf(tokens[1].id, pending.piece)) = 2
    /\ \E c \in BestCandidates(pieces, team, tokens[1].result, options.stacking, options.policy) :
         c.piece = pending.piece

\* What the CPU relies on between its choice of a move and of a route.
CpuInv == HeadWaits /\ CpuChoiceStands

\* The queue and the pieces as they are.
LEMMA SameChoice ==
  ASSUME CpuInv, UNCHANGED <<pieces, options, team, tokens, selectedID, pending, phase>>
  PROVE  CpuInv'
  BY DEF CpuInv, HeadWaits, CpuChoiceStands, PlansOf, ResultOf

\* A step that leaves the selection of moves and routes.
LEMMA NoChoice ==
  ASSUME phase' \notin {"wait_move_selection", "wait_route_selection"}
  PROVE  CpuInv'
  BY DEF CpuInv, HeadWaits, CpuChoiceStands

\* SelectMove remembers a choice of the CPU only if it is one of its best.
LEMMA SelectMoveInternalCpu ==
  ASSUME NEW id, NEW p, NEW byCpu \in BOOLEAN, SelectMoveInternal(id, p, byCpu),
         byCpu => /\ 1 \in DOMAIN tokens /\ id = tokens[1].id
                  /\ \E c \in BestCandidates(pieces, team, tokens[1].result, options.stacking,
                                             options.policy) : c.piece = p
  PROVE  CpuInv'
<1>1. PICK r \in BOOLEAN : Turn!SelectMove(id, r) /\ (r <=> Len(PlansOf(id, p)) = 2)
  BY SelectMoveInternalMachine
<1>2. /\ phase' = IF r THEN "wait_route_selection" ELSE "apply_move"
      /\ selectedID' = {id} /\ tokens' = tokens
  BY <1>1 DEF Turn!SelectMove, Turn!SetState, Turn!queue
<1>3. /\ pending' = [piece |-> p, route |-> NoSpace, byCpu |-> byCpu]
      /\ pieces' = pieces /\ team' = team /\ options' = options
  BY DEF SelectMoveInternal, game, flow
<1>4. pending'.piece = p /\ pending'.byCpu = byCpu
  BY <1>3
<1>5. HeadWaits'
  BY <1>2 DEF HeadWaits
<1>6. CpuChoiceStands'
  <2> SUFFICES ASSUME phase' = "wait_route_selection", byCpu
               PROVE  CpuChoiceStands'
    BY <1>4 DEF CpuChoiceStands
  <2>1. r
    BY <1>2
  <2>2. Len(PlansOf(tokens[1].id, p)) = 2
    BY <1>1, <2>1
  <2>3. Len(PlansOf(tokens[1].id, pending.piece)') = 2
    BY <1>2, <1>3, <1>4, <2>2 DEF PlansOf, ResultOf
  <2>4. PICK c \in BestCandidates(pieces, team, tokens[1].result, options.stacking, options.policy) :
          c.piece = p
    OBVIOUS
  <2>5. c \in BestCandidates(pieces, team, tokens[1].result, options.stacking, options.policy)'
    BY <1>2, <1>3, <2>4
  <2> QED
    BY <1>2, <1>4, <2>3, <2>4, <2>5 DEF CpuChoiceStands
<1> QED
  BY <1>5, <1>6 DEF CpuInv

\* Every step of the match keeps it.
LEMMA NextCpuInv ==
  ASSUME MachineInv, GameInv, CpuInv, [Next]_vars
  PROVE  CpuInv'
<1>1. M!IInv /\ DOMAIN tokens = 1 .. Len(tokens) /\ Turn!AvailableIndices \subseteq DOMAIN tokens
  BY MachineIDs DEF MachineInv
<1>2. CASE BeginTurn
  BY <1>2, NoChoice DEF BeginTurn, Turn!Start, Turn!SetState
<1>3. CASE BeginThrow
  BY <1>3, NoChoice DEF BeginThrow, Turn!BeginThrow, Turn!SetState
<1>4. CASE RecordThrow
  BY <1>4, NoChoice DEF RecordThrow, Turn!RecordThrow, Turn!SetState
<1>5. CASE ResolveQueue
  <2>1. CASE phase' = "wait_move_selection"
    <3>1. PICK i \in Turn!AvailableIndices : TRUE
      BY <1>5, <2>1 DEF ResolveQueue, Turn!ResolveQueue, Turn!SetState
    <3>2. tokens' = tokens
      BY <1>5 DEF ResolveQueue, Turn!ResolveQueue, Turn!queue
    <3>3. 1 \in DOMAIN tokens
      <4>1. i \in 1 .. Len(tokens)
        BY <1>1, <3>1
      <4>2. tokens \in Seq(M!ResultToken)
        BY <1>1, MachineIDs
      <4>3. Len(tokens) \in Nat
        BY <4>2
      <4> QED
        BY <1>1, <4>1, <4>3
    <3> QED
      BY <2>1, <3>2, <3>3 DEF CpuInv, HeadWaits, CpuChoiceStands
  <2>2. CASE phase' # "wait_move_selection"
    BY <1>5, <2>2, NoChoice DEF ResolveQueue, Turn!ResolveQueue, Turn!SetState
  <2> QED
    BY <2>1, <2>2
<1>6. CASE ResolveBukHead
  <2>1. PICK id \in selectedID, n \in BOOLEAN, c \in BOOLEAN : Turn!CompleteBuk(id, n, c, FALSE)
    BY <1>6, ResolveBukHeadMachine
  <2> QED
    BY <2>1, NoChoice DEF Turn!CompleteBuk, Turn!AdvanceAfterResolution, Turn!SetState
<1>7. CASE EnterMoveSelection
  BY <1>7, NoChoice DEF EnterMoveSelection, Turn!DiscardUnusableResult, Turn!SetState
<1>8. CASE SelectMove
  BY <1>8, SelectMoveInternalCpu DEF SelectMove
<1>9. CASE SelectRoute
  BY <1>9, NoChoice DEF SelectRoute, Turn!RouteSelected, Turn!SetState
<1>10. CASE ApplySelectedMove
  BY <1>10, NoChoice DEF ApplySelectedMove, Turn!MoveApplied, Turn!SetState
<1>11. CASE CompleteMove
  <2>1. PICK id \in selectedID, c \in BOOLEAN, w \in BOOLEAN : Turn!CompleteMove(id, c, w)
    BY <1>11, CompleteMoveMachine
  <2> QED
    BY <2>1, NoChoice DEF Turn!CompleteMove, Turn!AdvanceAfterResolution, Turn!SetState
<1>12. CASE TakeOver
  BY <1>12, SameChoice DEF TakeOver, machine, game, settings
<1>13. CASE CpuChooseMove
  <2>1. CASE \E d \in Decisions : SelectMoveInternal(d.id, d.piece, TRUE)
    <3>1. PICK d \in Decisions : SelectMoveInternal(d.id, d.piece, TRUE)
      BY <2>1
    <3>2. PICK c \in BestCandidates(pieces, team, tokens[1].result, options.stacking, options.policy) :
            d = [id |-> tokens[1].id, piece |-> c.piece, route |-> c.route]
      BY DEF Decisions
    <3>3. d.id = tokens[1].id /\ d.piece = c.piece
      BY <3>2
    <3>4. 1 \in DOMAIN tokens
      BY <1>13 DEF CpuChooseMove, CpuInv, HeadWaits
    <3> QED
      BY <3>1, <3>3, <3>4, SelectMoveInternalCpu
  <2>2. CASE Turn!DiscardUnusableResult(tokens[1].id)
    BY <2>2, NoChoice DEF Turn!DiscardUnusableResult, Turn!SetState
  <2> QED
    BY <1>13, <2>1, <2>2 DEF CpuChooseMove
<1>14. CASE CpuChooseRoute
  BY <1>14, NoChoice DEF CpuChooseRoute, Turn!RouteSelected, Turn!SetState
<1>15. CASE EndTurn
  BY <1>15, NoChoice DEF EndTurn
<1>16. CASE UNCHANGED vars
  BY <1>16, SameChoice DEF vars, machine, game, flow, settings
<1> QED
  BY <1>2, <1>3, <1>4, <1>5, <1>6, <1>7, <1>8, <1>9, <1>10, <1>11, <1>12, <1>13, <1>14, <1>15,
     <1>16 DEF Next

\* The CPU's candidates for a result that is not a Buk.
LEMMA CpuCandidatesFacts ==
  ASSUME GameInv, NEW result \in {"do", "gae", "geol", "yut", "mo", "backdo"},
         NEW c \in CpuCandidates(pieces, team, result, options.stacking, options.policy)
  PROVE  LET plans == MovePlans(pieces, c.piece, result, options.policy) IN
         /\ c.piece \in TeamPieces(team) /\ pieces[c.piece].state # "finished" /\ plans # <<>>
         /\ IsMerits(c.merits)
         /\ c.route # NoSpace <=> Len(plans) = 2
         /\ options.policy = "selectable" /\ c.merits[4] = 1 => Len(plans) = 2
         /\ Len(plans) = 2 => /\ options.policy = "selectable" /\ c.route = "shortcut"
                              /\ c.merits[4] = 1
                              /\ DOMAIN plans = 1 .. 2 /\ plans[2].route = "shortcut"
<1> DEFINE stacking == options.stacking
           policy == options.policy
<1>1. stacking \in BOOLEAN /\ policy \in Policies
  BY OptionsAreBoolean DEF GameInv
<1>2. PICK p \in TeamPieces(team) : /\ pieces[p].state # "finished"
                                    /\ MovePlans(pieces, p, result, policy) # <<>>
                                    /\ c = CpuCandidate(pieces, p, result, stacking, policy)
  BY DEF CpuCandidates
<1>3. p \in Pieces /\ Placed(pieces[p])
  BY DEF GameInv, PiecesOK, AllPlaced, TeamPieces
<1> DEFINE plans == MovePlans(pieces, p, result, policy)
<1>4. /\ c.piece = p /\ IsMerits(c.merits)
      /\ c.route = IF Len(plans) = 2 THEN plans[Len(plans)].route ELSE NoSpace
      /\ c.merits[4] = 1 <=> result # "backdo" /\ plans[Len(plans)].route = "shortcut"
  <2> HIDE DEF stacking, policy
  <2> QED
    BY <1>1, <1>2, <1>3, CandidateFacts
<1>5. /\ DOMAIN plans = 1 .. Len(plans) /\ Len(plans) \in {1, 2}
      /\ result = "backdo" => Len(plans) = 1
      /\ result # "backdo" => PlansAreGood(plans, policy)
  <2> HIDE DEF stacking, policy
  <2> QED
    BY <1>1, <1>2, <1>3, MovePlansAreGood
<1>6. plans # <<>> /\ plans = MovePlans(pieces, c.piece, result, options.policy)
  BY <1>2, <1>4
<1>7. Len(plans) = 2 => /\ policy = "selectable" /\ plans[2].route = "shortcut"
                        /\ result # "backdo" /\ DOMAIN plans = 1 .. 2
  <2> HIDE DEF plans, policy
  <2> QED
    BY <1>5 DEF PlansAreGood
<1>8. Len(plans) = 1 /\ policy = "selectable" => c.merits[4] # 1
  <2> HIDE DEF plans, policy
  <2> QED
    BY <1>4, <1>5 DEF PlansAreGood
<1>9. Len(plans) = 2 => c.merits[4] = 1 /\ c.route = "shortcut"
  <2> HIDE DEF plans, policy
  <2> QED
    BY <1>4, <1>7
<1>10. Len(plans) # 2 => c.route = NoSpace
  BY <1>4
<1> HIDE DEF plans
<1> QED
  BY <1>2, <1>4, <1>5, <1>6, <1>7, <1>8, <1>9, <1>10 DEF NoSpace, policy

\* The head of the queue while a move or a route has to be chosen.
LEMMA HeadFacts ==
  ASSUME M!IInv, 1 \in DOMAIN tokens, phase \in {"wait_move_selection", "wait_route_selection"}
  PROVE  /\ tokens[1].id \in AvailableTokens
         /\ tokens[1].result \in {"do", "gae", "geol", "yut", "mo", "backdo"}
         /\ ResultOf(tokens[1].id) = tokens[1].result
<1>1. M!BukIndices = {}
  BY DEF M!IInv, M!BukResolvedFirst, M!SelectionPhases
<1>2. tokens[1].result # "buk"
  BY <1>1 DEF M!BukIndices
<1>3. 1 \in Turn!AvailableIndices
  BY <1>1, AvailableIsMachine DEF M!AvailableIndices
<1>4. tokens[1].result \in Results
  BY MachineIDs
<1>5. ResultOf(tokens[1].id) = tokens[1].result
  BY ResultOfToken
<1>6. tokens[1].id \in AvailableTokens
  BY <1>3 DEF AvailableTokens
<1> QED
  BY <1>2, <1>4, <1>5, <1>6, PlayAssumption

-----------------------------------------------------------------------------
(* Theorems *)

\* The inductive invariant: the machine of the turn in progress keeps the
\* invariant of TurnMachine, and the game keeps its own.
PlayInv == MachineInv /\ GameInv /\ CpuInv

\* Every reachable state of a match satisfies the inductive invariant: whatever
\* is thrown, chosen, resolved by a Buk or decided by the CPU.
THEOREM PlayInvariance == Spec => []PlayInv
<1>1. Init => PlayInv
  <2> SUFFICES ASSUME Init PROVE PlayInv
    OBVIOUS
  <2>1. M!Init
    BY DEF Init, Turn!NewMachine, M!Init, M!NewMachine, Turn!Orders, M!Orders, Turn!NoOrigin, M!NoOrigin
  <2>2. MachineInv
    BY <2>1, MachineInit DEF MachineInv, ThrowHasID, Init, Turn!NewMachine
  <2>3. CpuInv
    BY DEF CpuInv, HeadWaits, CpuChoiceStands, Init, Turn!NewMachine
  <2> QED
    BY <2>2, <2>3, InitGameInv DEF PlayInv
<1>2. PlayInv /\ [Next]_vars => PlayInv'
  BY NextMachineInv, NextGameInv, NextCpuInv DEF PlayInv
<1> QED
  BY <1>1, <1>2, PTL DEF Spec

\* Type correctness of the match: pieces, pending move, winner, flow and queue.
THEOREM TypeCorrect == Spec => []TypeOK
<1>1. PlayInv => TypeOK
  BY DEF PlayInv, GameInv, FlowOK, PiecesOK, AllPlaced, Placed, TypeOK
<1> QED
  BY <1>1, PlayInvariance, PTL

\* Pieces of two teams never stand on one space, whatever moves, stacks and Buk
\* relocations applyMoveResolutionLocked resolves.
THEOREM TeamsStayApart == Spec => []NoHostileCoexistence
<1>1. PlayInv => NoHostileCoexistence
  BY DEF PlayInv, GameInv, PiecesOK, Apart, NoHostileCoexistence, OnOneSpace
<1> QED
  BY <1>1, PlayInvariance, PTL

\* With stacking, allied pieces on one space have the same previous space, which
\* a later Backdo of the stack goes back to.
THEOREM StacksStayJoined == Spec => []StackSharesHistory
<1>1. PlayInv => StackSharesHistory
  BY DEF PlayInv, GameInv, PiecesOK, Joined, StackSharesHistory, OnOneSpace
<1> QED
  BY <1>1, PlayInvariance, PTL

\* The game and the turn machine agree on the end of the match: a winner is
\* recorded exactly when the turn has gone to match_end.
THEOREM WinnerEndsTheTurn == Spec => []WinnerEndsTurn
<1>1. PlayInv => WinnerEndsTurn
  BY DEF PlayInv, GameInv
<1> QED
  BY <1>1, PlayInvariance, PTL

\* A step takes from the other team only what it lands on, and never moves a
\* finished piece.
THEOREM OnlyCapturesHurt == Spec => OthersOnlyCaptured
<1>1. PlayInv /\ [Next]_vars => [TakesOnlyCaptured]_vars
  BY NextGameInv DEF PlayInv
<1>2. [TakesOnlyCaptured]_vars =>
        [ \A p \in Pieces :
            pieces'[p] # pieces[p] =>
              /\ pieces[p].state # "finished"
              /\ Team[p] # team => /\ pieces'[p] = Waiting
                                   /\ \E q \in TeamPieces(team) : pieces'[q].space = pieces[p].space
        ]_vars
  BY DEF TakesOnlyCaptured
<1> QED
  BY <1>1, <1>2, PlayInvariance, PTL DEF Spec, OthersOnlyCaptured

\* The invariants of the turn machine hold in every turn of a match: a throw
\* is recordable, the selected token is consumable and a Buk goes first.
THEOREM TurnsKeepMachine ==
  Spec => [](Turn!ThrowIsRecordable /\ Turn!SelectedIsConsumable /\ Turn!BukResolvedFirst)
<1>1. PlayInv => Turn!ThrowIsRecordable /\ Turn!SelectedIsConsumable /\ Turn!BukResolvedFirst
  <2> SUFFICES ASSUME M!ThrowIsRecordable, M!SelectedIsConsumable, M!BukResolvedFirst
               PROVE  Turn!ThrowIsRecordable /\ Turn!SelectedIsConsumable /\ Turn!BukResolvedFirst
    BY DEF PlayInv, MachineInv, M!IInv
  <2>1. Turn!BukIndices = M!BukIndices /\ Turn!SelectionPhases = M!SelectionPhases
    BY DEF Turn!BukIndices, M!BukIndices, Turn!SelectionPhases, M!SelectionPhases
  <2>2. Turn!ThrowIsRecordable /\ Turn!BukResolvedFirst
    BY <2>1 DEF Turn!ThrowIsRecordable, M!ThrowIsRecordable, Turn!BukResolvedFirst, M!BukResolvedFirst
  <2>3. Turn!SelectedIsConsumable
    BY <2>1, AvailableIsMachine DEF Turn!SelectedIsConsumable, M!SelectedIsConsumable,
                                    Turn!OrdinaryAvailable, M!OrdinaryAvailable
  <2> QED
    BY <2>2, <2>3
<1> QED
  BY <1>1, PlayInvariance, PTL

\* While forward results wait, the team has a piece that can use each: only a
\* Backdo is ever discarded as unusable.
THEOREM ForwardResultsAreUsable == Spec => []OnlyBackdoIsUnusable
<1>1. PlayInv => OnlyBackdoIsUnusable
  <2> SUFFICES ASSUME PlayInv, phase = "wait_move_selection", NEW id \in UnusableTokens,
                      ResultOf(id) # "backdo"
               PROVE  FALSE
    BY DEF OnlyBackdoIsUnusable
  <2>1. M!IInv /\ GameInv /\ FlowOK /\ WinnerEndsTurn /\ AllPlaced(pieces)
    BY DEF PlayInv, MachineInv, GameInv, PiecesOK
  <2>2. id \in AvailableTokens /\ ResultOf(id) # "buk" /\ ~\E c \in Candidates : c[1] = id
    BY DEF UnusableTokens
  <2>3. ResultOf(id) \in {"do", "gae", "geol", "yut", "mo"}
    <3>1. PICK i \in Turn!AvailableIndices : tokens[i].id = id
      BY <2>2 DEF AvailableTokens
    <3>2. i \in DOMAIN tokens /\ tokens[i].result \in Results
      BY <2>1, <3>1, MachineIDs
    <3>3. ResultOf(id) = tokens[i].result
      BY <2>1, <3>1, <3>2, ResultOfToken
    <3> QED
      BY <2>2, <3>2, <3>3, PlayAssumption
  <2>4. PICK q \in TeamPieces(team) : pieces[q].state # "finished"
    <3>1. winner = NoTeam /\ team \in Teams
      BY <2>1 DEF WinnerEndsTurn, FlowOK
    <3>2. ~AllFinished(pieces, team)
      BY <2>1, <3>1 DEF WinnerEndsTurn, NoTeam, Teams
    <3> QED
      BY <3>2 DEF AllFinished
  <2>5. Placed(pieces[q]) /\ options.policy \in Policies
    BY <2>1, OptionsAreBoolean DEF AllPlaced, TeamPieces
  <2> DEFINE plans == PlansOf(id, q)
             n == MovementSpaces[ResultOf(id)]
  <2>6. n \in Nat \ {0}
    BY <2>3 DEF MovementSpaces
  <2>7. plans = ForwardPlans(Graph, pieces[q], n, options.policy)
    BY <2>3 DEF PlansOf, MovePlans
  <2> HIDE DEF n
  <2>8. PlansAreGood(plans, options.policy)
    BY <2>4, <2>5, <2>6, <2>7, PlannerServesEveryPiece
  <2>9. plans # <<>>
    BY <2>8 DEF PlansAreGood
  <2>10. <<id, q>> \in Candidates
    BY <2>2, <2>4, <2>9 DEF Candidates
  <2> QED
    BY <2>2, <2>10
<1> QED
  BY <1>1, PlayInvariance, PTL

\* What the CPU policy decides is a candidate of the runtime, with a route exactly
\* where SelectMove asks for one, and what it discards is unusable.
THEOREM CpuAgreesWithRuntime == Spec => []CpuDecisionIsCandidate
<1>1. PlayInv => CpuDecisionIsCandidate
  <2> SUFFICES ASSUME PlayInv, phase = "wait_move_selection"
               PROVE  CpuDecisionIsCandidate
    BY Zenon DEF CpuDecisionIsCandidate
  <2>1. M!IInv /\ GameInv /\ 1 \in DOMAIN tokens
    BY DEF PlayInv, MachineInv, CpuInv, HeadWaits
  <2> DEFINE head == tokens[1]
             result == head.result
             all == CpuCandidates(pieces, team, result, options.stacking, options.policy)
             best == BestCandidates(pieces, team, result, options.stacking, options.policy)
  <2>2. /\ head.id \in AvailableTokens
        /\ result \in {"do", "gae", "geol", "yut", "mo", "backdo"}
        /\ ResultOf(head.id) = result
    BY <2>1, HeadFacts
  <2>3. \A p : PlansOf(head.id, p) = MovePlans(pieces, p, result, options.policy)
    BY <2>2 DEF PlansOf
  <2>4. best = {c \in all : \A d \in all : ~Better(d, c)}
    BY DEF BestCandidates
  <2>5. ASSUME NEW c \in all
        PROVE  /\ c.piece \in TeamPieces(team) /\ pieces[c.piece].state # "finished"
               /\ PlansOf(head.id, c.piece) # <<>> /\ IsMerits(c.merits)
               /\ c.route # NoSpace <=> Len(PlansOf(head.id, c.piece)) = 2
    BY <2>1, <2>2, <2>3, CpuCandidatesFacts
  <2>6. Decisions = {[id |-> head.id, piece |-> c.piece, route |-> c.route] : c \in best}
    BY DEF Decisions
  <2> HIDE DEF head, result, all, best
  <2>7. ASSUME NEW d \in Decisions
        PROVE  /\ <<d.id, d.piece>> \in Candidates
               /\ d.route # NoSpace <=> Len(PlansOf(d.id, d.piece)) = 2
    <3>1. PICK c \in all : d = [id |-> head.id, piece |-> c.piece, route |-> c.route]
      BY <2>4, <2>6
    <3>2. d.id = head.id /\ d.piece = c.piece /\ d.route = c.route
      BY <3>1
    <3>3. <<head.id, c.piece>> \in Candidates
      BY <2>2, <2>5 DEF Candidates
    <3> QED
      BY <2>5, <3>2, <3>3
  <2>8. ASSUME Decisions = {} PROVE head.id \in UnusableTokens
    <3>1. best = {}
      BY <2>6, <2>8
    <3>2. all = {}
      BY <2>4, <2>5, <3>1, SomeCandidateIsBest
    <3>3. \A q \in TeamPieces(team) :
            ~(pieces[q].state # "finished" /\ MovePlans(pieces, q, result, options.policy) # <<>>)
      BY <3>2 DEF all, CpuCandidates
    <3>4. ~\E c \in Candidates : c[1] = head.id
      BY <2>3, <3>3 DEF Candidates
    <3> QED
      BY <2>2, <3>4 DEF UnusableTokens
  <2> QED
    BY <2>7, <2>8 DEF head, CpuDecisionIsCandidate
<1> QED
  BY <1>1, PlayInvariance, PTL

\* The CPU never strands on its own choice of a move that needs a route: however
\* the draw among equal candidates ends, deciding again gives that move a route.
THEOREM CpuRouteIsFinished == Spec => []CpuFinishesItsRoute
<1>1. PlayInv => CpuFinishesItsRoute
  <2> SUFFICES ASSUME PlayInv, phase = "wait_route_selection", pending.byCpu, NEW d \in Decisions
               PROVE  /\ RouteDecision(d)
                      /\ SelectedPlans(PlansOf(d.id, pending.piece), d.route) # {}
    BY DEF CpuFinishesItsRoute
  <2>1. M!IInv /\ GameInv
    BY DEF PlayInv, MachineInv
  <2> DEFINE head == tokens[1]
             result == head.result
             best == BestCandidates(pieces, team, result, options.stacking, options.policy)
             all == CpuCandidates(pieces, team, result, options.stacking, options.policy)
             plans == PlansOf(head.id, pending.piece)
  <2>2. 1 \in DOMAIN tokens /\ selectedID = {head.id} /\ Len(plans) = 2
    BY DEF PlayInv, CpuInv, CpuChoiceStands
  <2>3. PICK c \in best : c.piece = pending.piece
    BY DEF PlayInv, CpuInv, CpuChoiceStands
  <2>4. PICK e \in best : d = [id |-> head.id, piece |-> e.piece, route |-> e.route]
    BY DEF Decisions
  <2>5. result \in {"do", "gae", "geol", "yut", "mo", "backdo"} /\ ResultOf(head.id) = result
    BY <2>1, <2>2, HeadFacts
  <2>6. plans = MovePlans(pieces, c.piece, result, options.policy)
    BY <2>3, <2>5 DEF PlansOf
  <2>7. c \in all /\ e \in all /\ ~Better(c, e) /\ ~Better(e, c)
    BY <2>3, <2>4 DEF BestCandidates
  <2>8. /\ IsMerits(c.merits) /\ c.merits[4] = 1 /\ options.policy = "selectable"
        /\ DOMAIN plans = 1 .. 2 /\ plans[2].route = "shortcut"
    <3> HIDE DEF head, result, best, plans
    <3> QED
      BY <2>1, <2>2, <2>5, <2>6, <2>7, CpuCandidatesFacts
  <2>9. /\ IsMerits(e.merits)
        /\ e.merits[4] = 1 => e.route = "shortcut"
    <3> HIDE DEF head, result, best, plans
    <3> QED
      BY <2>1, <2>5, <2>7, <2>8, CpuCandidatesFacts
  <2>10. e.merits[4] = 1
    BY <2>7, <2>8, <2>9, EqualsHaveEqualMerits
  <2>11. d.id = head.id /\ d.route = "shortcut"
    BY <2>4, <2>9, <2>10
  <2>12. RouteDecision(d)
    BY <2>2, <2>11 DEF RouteDecision, NoSpace
  <2>13. plans[2] \in SelectedPlans(plans, "shortcut")
    <3> HIDE DEF head, result, best, all, plans
    <3> QED
      BY <2>2, <2>8 DEF SelectedPlans
  <2> QED
    BY <2>11, <2>12, <2>13
<1> QED
  BY <1>1, PlayInvariance, PTL
=============================================================================
