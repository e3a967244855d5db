------------------------------- MODULE Flight -------------------------------
(***************************************************************************)
(* One entity flown by one strategy: Drone::Update, Human::Update and      *)
(* Satellite::Update call Move on it at the pace the weather allows until  *)
(* IsCompleted.  It is the strategy any of them may hold, from any         *)
(* distance up to MaxLen.                                                  *)
(***************************************************************************)
EXTENDS Strategy

CONSTANTS
  MaxLen,   \* the longest route
  Paces     \* the distances a tick may cover, 0 for an entity that is halted

ASSUME FlightAssumption ==
  /\ MaxLen \in Nat
  /\ Paces \subseteq Nat

VARIABLE strategy

Init ==
  \/ \E n \in 0 .. MaxLen : strategy = Beeline(n)
  \/ \E n \in 1 .. MaxLen : strategy \in {Path("astar", n), SpinAstar(n)}
  \/ \E n \in 1 .. MaxLen, name \in Paths : strategy = Delivery(name, n)

Fly(pace) == strategy' = Move(strategy, pace)

Next == \E pace \in Paces : Fly(pace)

Spec == Init /\ [][Next]_strategy

\* The entity is not halted forever.
FairSpec == Spec /\ SF_strategy(\E pace \in Paces \ {0} : Fly(pace))

-----------------------------------------------------------------------------
(* Properties.                                                             *)

\* The strategy stays one of those the program builds, with as many clocks as
\* decorators, none of which runs beyond its end.
TypeOK == strategy \in StrategyOf(MaxLen)

\* IsCompleted asks the outermost decorator alone, and yet when it answers
\* yes the route is at its end and every celebration has run its full time.
CompletedMeansAllDone ==
  IsCompleted(strategy) =>
    /\ strategy.left = 0
    /\ \A k \in DOMAIN strategy.spent : strategy.spent[k] = Celebration

\* A celebration begins only at the destination and after those inside it.
CelebratesInsideOut ==
  \A k \in DOMAIN strategy.spent :
    strategy.spent[k] > 0 =>
      /\ strategy.left = 0
      /\ \A j \in DOMAIN strategy.spent : j > k => strategy.spent[j] = Celebration

\* Every Move of a strategy that is not completed either gets it closer or
\* makes exactly one celebration longer, unless the entity is halted on the
\* way; a completed one is not changed by Move.
OneThingAtATime ==
  [][LET flown == strategy.left - strategy'.left
         longer == {k \in DOMAIN strategy.spent :
                      strategy'.spent[k] = strategy.spent[k] + 1}
         same == {k \in DOMAIN strategy.spent :
                    strategy'.spent[k] = strategy.spent[k]}
     IN  /\ ~IsCompleted(strategy)
         /\ \/ flown > 0 /\ longer = {}
            \/ flown = 0 /\ Cardinality(longer) = 1
         /\ longer \cup same = DOMAIN strategy.spent]_strategy

\* An entity that is not halted forever gets to the end of its strategy.
EventuallyCompleted == <>IsCompleted(strategy)
=============================================================================
