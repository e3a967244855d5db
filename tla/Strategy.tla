------------------------------ MODULE Strategy ------------------------------
(***************************************************************************)
(* The movement strategies of libs/transit: BeelineStrategy, the path      *)
(* strategies (AstarStrategy, DfsStrategy, DijkstraStrategy) and the       *)
(* celebrations that decorate them (SpinDecorator, JumpDecorator).         *)
(*                                                                         *)
(* A strategy is a record:                                                 *)
(*   route  - what it follows;                                             *)
(*   left   - the distance still to go, in units of the slowest pace;      *)
(*   layers - the decorators around it, the outermost first;               *)
(*   spent  - how long each of them has celebrated, in ticks.              *)
(* The position is abstracted to left, so Move takes the distance covered  *)
(* in the tick (entity->GetSpeed() * dt) as its pace.  GraphBase::GetPath  *)
(* names the last node of a path twice and a Move reaches one name at most *)
(* (PathStrategy::Move), so the last unit of a path is a Move of its own,  *)
(* for which the entity need not move.  Other nodes are further apart than *)
(* the radius 4 in which one counts as reached: an entity that stands      *)
(* still gets no further along a path, or along a straight line.           *)
(***************************************************************************)
EXTENDS Integers, SequencesExt

CONSTANT Celebration   \* ticks a celebration takes: the 4.0 of IsCompleted

ASSUME CelebrationAssumption == Celebration \in Nat \ {0}

Decorators == {"spin", "jump"}
Paths == {"astar", "dfs", "dijkstra"}
Routes == Paths \cup {"beeline"}

Decorated(route, left, layers) ==
  [route |-> route, left |-> left, layers |-> layers,
   spent |-> [k \in DOMAIN layers |-> 0]]

\* The null pointer.
NoStrategy == [route |-> "none", left |-> 0, layers |-> <<>>, spent |-> <<>>]

Beeline(left) == Decorated("beeline", left, <<>>)
Path(route, left) == Decorated(route, left, <<>>)
SpinAstar(left) == Decorated("astar", left, <<"spin">>)

\* What Drone::GetNearestEntity builds for each name of the schedule page.
Delivery(name, left) ==
  CASE name = "astar"    -> Decorated("astar", left, <<"jump">>)
    [] name = "dfs"      -> Decorated("dfs", left, <<"spin", "jump">>)
    [] name = "dijkstra" -> Decorated("dijkstra", left, <<"jump", "spin">>)
    [] OTHER             -> Beeline(left)

\* Mutants of InnerCompleted: asks the route alone, and the inner celebration
\* a tick too early.
RouteCompleted(s, k) == s.left = 0
InnerNearlyCompleted(s, k) ==
  IF k = Len(s.layers) THEN s.left = 0 ELSE s.spent[k + 1] >= Celebration - 1

\* IsCompleted of what decorator k decorates: the next decorator, or the route.
InnerCompleted(s, k) ==
  IF k = Len(s.layers) THEN s.left = 0 ELSE s.spent[k + 1] >= Celebration

\* Mutants of IsCompleted: a tick too early, and never (> for >=).
EarlyCompleted(s) ==
  IF s.layers = <<>> THEN s.left = 0 ELSE s.spent[1] >= Celebration - 1
StrictlyCompleted(s) ==
  IF s.layers = <<>> THEN s.left = 0 ELSE s.spent[1] > Celebration

\* CelebrationDecorator::IsCompleted looks at the outermost celebration only.
IsCompleted(s) ==
  IF s.layers = <<>> THEN s.left = 0 ELSE s.spent[1] >= Celebration

\* Mutant of Ready: the celebration does not look at its own clock.
ReadyForever(s, k) == InnerCompleted(s, k)

\* The condition of JumpDecorator::Move and SpinDecorator::Move.
Ready(s, k) == InnerCompleted(s, k) /\ s.spent[k] < Celebration

\* The decorator at k celebrates: none outside it does, each of those passed
\* the call on to what it decorates.
Celebrates(s, k) == Ready(s, k) /\ \A j \in 1 .. k - 1 : ~Ready(s, j)

\* What is left of the route after a Move along it.
Advance(route, left, pace) ==
  LET covered == IF route \in Paths /\ left = 1 THEN 1 ELSE pace
      least == IF route \in Paths /\ left > 1 THEN 1 ELSE 0
  IN  IF left - covered > least THEN left - covered ELSE least

\* Move(entity, dt), called on the outermost decorator.
Move(s, pace) ==
  [route  |-> s.route,
   left   |-> IF \E k \in DOMAIN s.layers : Ready(s, k) THEN s.left
              ELSE Advance(s.route, s.left, pace),
   layers |-> s.layers,
   spent  |-> [k \in DOMAIN s.layers |->
                 IF Celebrates(s, k) THEN s.spent[k] + 1 ELSE s.spent[k]]]

\* How the program decorates a route.
Layouts == {<<>>, <<"spin">>, <<"jump">>, <<"spin", "jump">>, <<"jump", "spin">>}

\* The strategies with at most Bound to go: as many clocks as decorators, none
\* of which has run past its end.
StrategyOf(Bound) ==
  UNION {[route : Routes \cup {"none"}, left : 0 .. Bound, layers : {l},
          spent : [DOMAIN l -> 0 .. Celebration]] : l \in Layouts}
=============================================================================
