------------------------------- MODULE Board -------------------------------
(***************************************************************************)
(* The board of internal/domain/board: a graph read from                   *)
(* spec/board_graph.yaml, refused at start-up when Validate finds a        *)
(* problem, and the planners that move a piece on it.                      *)
(*                                                                         *)
(* A graph is a record.  Names, rule labels, versions and coordinates of   *)
(* the file are left out: they are compared with constants and never read. *)
(* Lists are sets; the edges the file lists twice are kept apart, since    *)
(* the planner counts them.                                                *)
(***************************************************************************)
EXTENDS Integers, Sequences, FiniteSets

NoSpace == ""
Policies == {"selectable", "forced"}
PieceStates == {"waiting", "on_board", "home_checkpoint", "finished"}

\* What the planner calls an error while it walks, and the conceptual finish
\* node behind the home checkpoint.
Blocked == "blocked"
Finish == "finish"
-----------------------------------------------------------------------------
(* The graph *)

\* rebuildAdjacency: the destinations of a space, and how many edges lead to
\* them when one is listed twice.
Adjacent(g, s) == {e[2] : e \in {x \in g.edges : x[1] = s}}
OutDegree(g, s) ==
  Cardinality({e \in g.edges : e[1] = s}) + Cardinality({e \in g.repeated : e[1] = s})

\* forwardForPolicy.
ForwardForPolicy(g, s, policy) ==
  IF policy = "forced" /\ s \in DOMAIN g.forced THEN {g.forced[s]}
  ELSE Adjacent(g, s)

\* The breadth-first search of shortestDistance, for every space at once: the
\* i-th set holds the spaces less than i steps away from the checkpoint.
HomeLevels(g, policy) ==
  LET levels[k \in 1 .. Cardinality(g.nodes)] ==
        IF k = 1 THEN <<{g.home}>>
        ELSE LET nearer == levels[k - 1] IN
             Append(nearer, nearer[k - 1] \union
               {s \in g.nodes : ForwardForPolicy(g, s, policy) \intersect nearer[k - 1] # {}})
  IN levels[Cardinality(g.nodes)]

\* RemainingForwardDistance of a piece on the board or at the checkpoint: the
\* steps to the checkpoint and the one that leaves it.
DistanceIn(levels, space) ==
  CHOOSE i \in DOMAIN levels : space \in levels[i] /\ (i > 1 => space \notin levels[i - 1])

\* ReachableFrom.
ReachableFrom(g, origin, policy) ==
  LET reached[k \in 0 .. Cardinality(g.nodes)] ==
        IF k = 0 THEN {origin}
        ELSE LET before == reached[k - 1] IN
             before \union (g.nodes \intersect
               UNION {ForwardForPolicy(g, s, policy) : s \in before})
  IN reached[Cardinality(g.nodes)]

\* Mutant: the distance ignores the forced edges of the forced policy.
RemainingForwardDistance_AnyEdge(g, pos, policy) ==
  DistanceIn(HomeLevels(g, "selectable"), pos.space)

RemainingForwardDistance(g, pos, policy) ==
  DistanceIn(HomeLevels(g, policy), pos.space)
-----------------------------------------------------------------------------
(* Validation of the loaded file *)

\* The checks Validate makes itself: known spaces, no self edge, no
\* duplicate edge, one space that is start and checkpoint.
ValidateSpaces(g) ==
  /\ g.start \in g.nodes /\ g.home \in g.nodes /\ g.start = g.home
  /\ g.repeated = {}
  /\ \A e \in g.edges : {e[1], e[2]} \subseteq g.nodes /\ e[1] # e[2]

\* Mutant: a space may branch without a route choice.
ValidateRouteChoices_NoBranchCheck(g) ==
  /\ \A s \in DOMAIN g.choices :
       LET c == g.choices[s] IN
       /\ {s, c.normal, c.shortcut} \subseteq g.nodes
       /\ c.normal # c.shortcut
       /\ {c.normal, c.shortcut} \subseteq Adjacent(g, s)
       /\ OutDegree(g, s) = 2
  /\ \A s \in DOMAIN g.forced : s \in DOMAIN g.choices /\ g.forced[s] = g.choices[s].shortcut
  /\ DOMAIN g.choices \subseteq DOMAIN g.forced

ValidateRouteChoices(g) ==
  /\ \A s \in DOMAIN g.choices :
       LET c == g.choices[s] IN
       /\ {s, c.normal, c.shortcut} \subseteq g.nodes
       /\ c.normal # c.shortcut
       /\ {c.normal, c.shortcut} \subseteq Adjacent(g, s)
       /\ OutDegree(g, s) = 2
  /\ \A s \in g.nodes : OutDegree(g, s) > 1 => s \in DOMAIN g.choices
  /\ \A s \in DOMAIN g.forced : s \in DOMAIN g.choices /\ g.forced[s] = g.choices[s].shortcut
  /\ DOMAIN g.choices \subseteq DOMAIN g.forced

ValidateReachability(g) ==
  g.start \in g.nodes =>
    /\ ReachableFrom(g, g.start, "selectable") = g.nodes
    /\ \A policy \in Policies :
         HomeLevels(g, policy)[Cardinality(g.nodes)] = g.nodes

\* validateOuterRing follows the normal outer successor from the start and
\* must be back there after every outer space was visited once.
ValidateOuterRing(g) ==
  LET next(s) == {t \in g.outer : IF s \in DOMAIN g.choices THEN t = g.choices[s].normal
                                  ELSE t \in Adjacent(g, s)}
      ring[k \in 0 .. Cardinality(g.outer)] ==
        IF k = 0 THEN g.start
        ELSE LET s == ring[k - 1] IN
             IF Cardinality(next(s)) # 1 THEN Blocked ELSE CHOOSE t \in next(s) : TRUE
  IN /\ g.start \in g.outer
     /\ ring[Cardinality(g.outer)] = g.start
     /\ {ring[k] : k \in 0 .. (Cardinality(g.outer) - 1)} = g.outer

ValidateBukCandidates(g) ==
  /\ g.candidates \subseteq g.nodes \ DOMAIN g.choices
  /\ g.center \notin g.candidates
  /\ g.candidates = g.tagged
  /\ Cardinality(g.candidates) = 10
  /\ g.fixedBuk \in g.candidates

Validate(g) ==
  /\ ValidateSpaces(g)
  /\ ValidateRouteChoices(g)
  /\ ValidateReachability(g)
  /\ ValidateOuterRing(g)
  /\ ValidateBukCandidates(g)
-----------------------------------------------------------------------------
(* Planners *)

NormalForwardSpace(g, s) ==
  IF s \in DOMAIN g.choices THEN g.choices[s].normal
  ELSE IF OutDegree(g, s) # 1 THEN Blocked
  ELSE CHOOSE t \in Adjacent(g, s) : TRUE

\* Mutant: a piece that passes the home checkpoint goes round again.
ForwardPath_PassesHome(g, origin, spaces, first, force, keep) ==
  LET next(s, k) == IF k = 1 /\ first # NoSpace THEN first
                    ELSE IF (force \/ (keep /\ s = "bang")) /\ s \in DOMAIN g.forced
                    THEN g.forced[s] ELSE NormalForwardSpace(g, s)
      path[k \in 0 .. spaces] ==
        IF k = 0 THEN <<origin>>
        ELSE LET p == path[k - 1] s == p[Len(p)] IN
             IF s = Blocked THEN p ELSE Append(p, next(s, k))
  IN path[spaces]

\* The loop of buildForwardPlan: the origin and the spaces entered after it,
\* ending in Finish when a step is left after the home checkpoint.
ForwardPath(g, origin, spaces, first, force, keep) ==
  LET next(s, k) == IF k = 1 /\ first # NoSpace THEN first
                    ELSE IF (force \/ (keep /\ s = "bang")) /\ s \in DOMAIN g.forced
                    THEN g.forced[s] ELSE NormalForwardSpace(g, s)
      path[k \in 0 .. spaces] ==
        IF k = 0 THEN <<origin>>
        ELSE LET p == path[k - 1] s == p[Len(p)] IN
             IF s \in {Blocked, Finish} THEN p
             ELSE IF k > 1 /\ s = g.home THEN Append(p, Finish)
             ELSE Append(p, next(s, k))
  IN path[spaces]

\* What buildForwardPlan makes of the walk; a blocked walk is its error.
PlanAlong(g, path, last, route) ==
  IF last = Finish
  THEN [route |-> route, state |-> "finished", space |-> NoSpace, previous |-> NoSpace,
        traversed |-> SubSeq(path, 2, Len(path) - 1)]
  ELSE [route |-> route, space |-> last, previous |-> path[Len(path) - 1],
        state |-> IF last = Blocked THEN Blocked
                  ELSE IF last = g.home THEN "home_checkpoint" ELSE "on_board",
        traversed |-> Tail(path)]

BuildForwardPlan(g, path, route) == PlanAlong(g, path, path[Len(path)], route)

\* The walks ForwardPlans asks for: the normal one and, where the player may
\* choose, the shortcut after it.
ForwardRoutes(g, origin, policy) ==
  IF origin \in DOMAIN g.choices /\ policy = "selectable"
  THEN <<[route |-> "normal", first |-> g.choices[origin].normal,
          force |-> FALSE, keep |-> FALSE],
         [route |-> "shortcut", first |-> g.choices[origin].shortcut,
          force |-> FALSE, keep |-> origin = "back_mo"]>>
  ELSE IF origin \in DOMAIN g.choices
  THEN <<[route |-> "shortcut", first |-> g.forced[origin], force |-> TRUE, keep |-> FALSE]>>
  ELSE <<[route |-> "normal", first |-> NoSpace, force |-> policy = "forced",
          keep |-> origin \in {"back_mo", "back_mo_do", "back_mo_gae"}]>>

PlansFrom(g, origin, spaces, routes) ==
  [i \in DOMAIN routes |->
     LET r == routes[i] IN
     BuildForwardPlan(g, ForwardPath(g, origin, spaces, r.first, r.force, r.keep), r.route)]

\* No plan is returned when one of them cannot be built.
AllOrNone(plans) == IF \E i \in DOMAIN plans : plans[i].state = Blocked THEN <<>> ELSE plans

\* ForwardPlans; empty when the piece cannot move forward.
ForwardPlans(g, pos, spaces, policy) ==
  LET origin == IF pos.state = "waiting" THEN g.start ELSE pos.space
  IN IF pos.state = "finished" THEN <<>>
     ELSE IF pos.state = "home_checkpoint"
     THEN <<[route |-> "normal", state |-> "finished", space |-> NoSpace,
             previous |-> NoSpace, traversed |-> <<>>]>>
     ELSE AllOrNone(PlansFrom(g, origin, spaces, ForwardRoutes(g, origin, policy)))

\* BackdoPlan is available to a piece on the board with a recorded history.
BackdoAvailable(pos) ==
  pos.state \in {"on_board", "home_checkpoint"} /\ pos.previous # NoSpace

BackdoPlan(g, pos) ==
  [state |-> IF pos.previous = g.home THEN "home_checkpoint" ELSE "on_board",
   space |-> pos.previous, previous |-> pos.space]
-----------------------------------------------------------------------------
(* The canonical file *)

Chain(s) == {<<s[i], s[i + 1]>> : i \in 1 .. (Len(s) - 1)}

CanonicalRing ==
  <<"chammeogi", "do", "gae", "geol", "yut", "mo", "back_do", "back_gae", "back_geol",
    "back_yut", "back_mo", "jji_do", "jji_gae", "jji_geol", "jji_yut", "jji_mo",
    "nal_do", "nal_gae", "nal_geol", "nal_yut", "chammeogi">>

CanonicalInner ==
  {<<"mo", "mo_do", "mo_gae", "bang", "sok_yut", "sok_mo", "jji_mo">>,
   <<"back_mo", "back_mo_do", "back_mo_gae", "bang", "bangsugi", "anjji", "chammeogi">>}

CanonicalCandidates ==
  {"back_do", "back_gae", "back_geol", "back_yut", "jji_do", "jji_gae", "jji_geol",
   "jji_yut", "sok_yut", "sok_mo"}

CanonicalShortcuts ==
  [mo |-> "mo_do", back_mo |-> "back_mo_do", bang |-> "bangsugi"]

Canonical ==
  LET edges == Chain(CanonicalRing) \union UNION {Chain(s) : s \in CanonicalInner}
      normal == [mo |-> "back_do", back_mo |-> "jji_do", bang |-> "sok_yut"]
  IN [nodes |-> {e[1] : e \in edges},
      start |-> "chammeogi", home |-> "chammeogi", center |-> "bang",
      outer |-> {CanonicalRing[i] : i \in DOMAIN CanonicalRing},
      edges |-> edges, repeated |-> {},
      choices |-> [s \in DOMAIN normal |->
                     [normal |-> normal[s], shortcut |-> CanonicalShortcuts[s]]],
      forced |-> CanonicalShortcuts,
      candidates |-> CanonicalCandidates, tagged |-> CanonicalCandidates,
      fixedBuk |-> "jji_do"]
=============================================================================
