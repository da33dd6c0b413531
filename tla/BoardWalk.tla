------------------------------ MODULE BoardWalk ------------------------------
(***************************************************************************)
(* A board file, possibly with a mistake in it, loaded or refused by the   *)
(* server, and one piece that then moves on it in every way the match      *)
(* engine may ask for.                                                     *)
(***************************************************************************)
EXTENDS Board

CONSTANTS
  MaxEdits,   \* how many mistakes the file may hold
  Targets,    \* the spaces a mistaken line may name
  Spaces      \* the distances an ordinary result moves (1 to 5 in the code)

ASSUME WalkAssumption ==
  /\ MaxEdits \in Nat
  /\ Targets \subseteq Canonical.nodes
  /\ Spaces \subseteq 1 .. 5

VARIABLES
  file,      \* the graph written in the file
  edits,     \* mistakes made so far
  server,    \* "off", "refused" or "running"
  policy,    \* the room's shortcut policy
  piece,     \* [state, space, previous] of match.Piece
  reversed   \* whether a Backdo or a Buk ever moved the piece

vars == <<file, edits, server, policy, piece, reversed>>

WaitingPiece == [state |-> "waiting", space |-> NoSpace, previous |-> NoSpace]

Init ==
  /\ file = Canonical
  /\ edits = 0
  /\ server = "off"
  /\ policy = "selectable"
  /\ piece = WaitingPiece
  /\ reversed = FALSE

\* The mistakes: an edge redirected, dropped, added or listed twice; a route
\* choice or a forced edge changed or forgotten; a Buk space replaced, in the
\* list, in the tags or in both; another checkpoint. One mistake is left out:
\* the checkpoint listed and tagged as a Buk space, which Validate lets pass
\* and the planners do not support.
Without(f, k) == [x \in DOMAIN f \ {k} |-> f[x]]

Edited(g) ==
  {[g EXCEPT !.edges = (@ \ {e}) \union {<<e[1], t>>}] : e \in g.edges, t \in Targets}
  \union {[g EXCEPT !.edges = @ \ {e}] : e \in g.edges}
  \union {[g EXCEPT !.edges = @ \union {<<s, g.home>>}] : s \in g.nodes}
  \union {[g EXCEPT !.repeated = @ \union {e}] : e \in g.edges}
  \union {[g EXCEPT !.choices[s].normal = t] : s \in DOMAIN g.choices, t \in Targets}
  \union {[g EXCEPT !.choices[s] = [normal |-> @.shortcut, shortcut |-> @.normal],
                    !.forced[s] = g.choices[s].normal] : s \in DOMAIN g.choices}
  \union {[g EXCEPT !.choices = Without(@, s), !.forced = Without(@, s)] : s \in DOMAIN g.choices}
  \union {[g EXCEPT !.forced[s] = t] : s \in DOMAIN g.forced, t \in Targets}
  \union {[g EXCEPT !.forced = Without(@, s)] : s \in DOMAIN g.forced}
  \union {[g EXCEPT !.candidates = (@ \ {s}) \union {t}] :
            s \in {"sok_mo", g.fixedBuk}, t \in Targets}
  \union {[g EXCEPT !.candidates = (@ \ {s}) \union {t}, !.tagged = (@ \ {s}) \union {t}] :
            s \in {"sok_mo", g.fixedBuk}, t \in Targets \ {g.home}}
  \union {[g EXCEPT !.fixedBuk = t] : t \in Targets \union {"sok_yut"}}
  \union {[g EXCEPT !.home = t] : t \in Targets}

EditFile ==
  /\ server = "off" /\ edits < MaxEdits
  /\ file' \in Edited(file)
  /\ edits' = edits + 1
  /\ UNCHANGED <<server, policy, piece, reversed>>

\* LoadCanonical: the server does not start with an invalid board. A room
\* then chooses its policy.
Load ==
  /\ server = "off"
  /\ \/ ~Validate(file) /\ server' = "refused" /\ UNCHANGED policy
     \/ Validate(file) /\ server' = "running" /\ policy' \in Policies
  /\ UNCHANGED <<file, edits, piece, reversed>>

\* ApplyOrdinaryMove along one of the plans.
MoveForward ==
  /\ server = "running"
  /\ \E spaces \in Spaces :
       LET plans == ForwardPlans(file, piece, spaces, policy) IN
       \E i \in DOMAIN plans :
         piece' = [state |-> plans[i].state, space |-> plans[i].space,
                   previous |-> plans[i].previous]
  /\ UNCHANGED <<file, edits, server, policy, reversed>>

\* ApplyBackdoMove.
MoveBack ==
  /\ server = "running"
  /\ BackdoAvailable(piece)
  /\ piece' = BackdoPlan(file, piece)
  /\ reversed' = TRUE
  /\ UNCHANGED <<file, edits, server, policy>>

\* ResolveBuk moves the piece to the fixed destination; the only piece of a
\* team also leaves the waiting area.
MoveByBuk ==
  /\ server = "running"
  /\ piece.state # "finished"
  /\ piece.space # file.fixedBuk
  /\ piece' = [state |-> "on_board", space |-> file.fixedBuk, previous |-> piece.space]
  /\ reversed' = TRUE
  /\ UNCHANGED <<file, edits, server, policy>>

Next == EditFile \/ Load \/ MoveForward \/ MoveBack \/ MoveByBuk

\* A match goes on as long as turns are driven, so a piece that can move
\* forward is moved again.
FairSpec == Init /\ [][Next]_vars /\ WF_vars(MoveForward)
-----------------------------------------------------------------------------
(* Properties *)

\* Types, and that a piece is at the home checkpoint exactly when it stands
\* on that space: ForwardPlans, BackdoPlan and RemainingForwardDistance refuse
\* a piece for which the two disagree.
TypeOK ==
  /\ edits \in 0 .. MaxEdits
  /\ server \in {"off", "refused", "running"}
  /\ policy \in Policies
  /\ reversed \in BOOLEAN
  /\ piece.state \in PieceStates
  /\ server = "running" =>
       /\ piece.state \in {"waiting", "finished"} <=> piece.space = NoSpace
       /\ piece.state = "home_checkpoint" <=> piece.space = file.home
       /\ {piece.space, piece.previous} \subseteq file.nodes \union {NoSpace}

\* What validateForwardPlan of the match engine demands of one plan.
WellFormedPlan(plan) ==
  LET n == Len(plan.traversed) IN
  IF plan.state = "finished" THEN plan.space = NoSpace /\ plan.previous = NoSpace
  ELSE /\ n > 0 /\ plan.traversed[n] = plan.space
       /\ n > 1 => plan.traversed[n - 1] = plan.previous
       /\ plan.previous # NoSpace

\* Whatever mistake the file holds, if Validate lets the server start then
\* every piece that is not home can use every ordinary result, and the plans
\* are ones the match engine accepts: a single plan is a normal one under the
\* selectable policy, two plans are the normal and the shortcut one.
PlannerIsTotal ==
  server = "running" /\ piece.state # "finished" =>
    \A spaces \in Spaces :
      LET plans == ForwardPlans(file, piece, spaces, policy) IN
      /\ Len(plans) \in {1, 2}
      /\ policy = "forced" => Len(plans) = 1
      /\ policy = "selectable" => /\ plans[1].route = "normal"
                                  /\ Len(plans) = 2 => plans[2].route = "shortcut"
      /\ \A i \in DOMAIN plans : WellFormedPlan(plans[i])

\* The least number of spaces in which moves of the planner bring the piece
\* to the finish, found by moving it one space at a time.
LeastSpaces(pos) ==
  LET onward(p) == LET plans == ForwardPlans(file, p, 1, policy) IN
                   {[state |-> plans[i].state, space |-> plans[i].space] : i \in DOMAIN plans}
      after[k \in 0 .. (Cardinality(file.nodes) + 1)] ==
        IF k = 0 THEN <<{[state |-> pos.state, space |-> pos.space]}>>
        ELSE LET before == after[k - 1] IN
             Append(before, UNION {onward(p) : p \in before[Len(before)]})
      levels == after[Cardinality(file.nodes) + 1]
      arrivals == {k \in DOMAIN levels : \E p \in levels[k] : p.state = "finished"}
  IN (CHOOSE k \in arrivals : \A j \in arrivals : k <= j) - 1

\* RemainingForwardDistance, by which Buk picks its target and the CPU its
\* piece, is the distance the planner really needs: the search over the edges
\* and the walk of the planner agree on every board that is accepted.
DistanceIsExact ==
  server = "running" /\ piece = WaitingPiece =>
    \A space \in file.nodes :
      LET pos == [space |-> space,
                  state |-> IF space = file.home THEN "home_checkpoint" ELSE "on_board"]
      IN RemainingForwardDistance(file, pos, policy) = LeastSpaces(pos)

\* Wherever a Buk puts a piece, its next move needs no route choice, under
\* either policy and for every destination the file allows.
BukNeedsNoRoute ==
  server = "running" /\ piece = WaitingPiece =>
    \A destination \in file.candidates \union {file.fixedBuk} :
      /\ destination # file.home
      /\ Len(ForwardPlans(file, [state |-> "on_board", space |-> destination], 1,
                          "selectable")) = 1

\* A piece that only moves forward gets home: on the canonical board whatever
\* routes are chosen, and under the forced policy on every board that Validate
\* accepts (it does accept boards on which normal routes run in a circle).
ForwardMovesFinish ==
  (server = "running" /\ (edits = 0 \/ policy = "forced"))
    ~> (reversed \/ piece.state = "finished")
=============================================================================
