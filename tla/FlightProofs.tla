----------------------------- MODULE FlightProofs -----------------------------
(***************************************************************************)
(* The strategies, proved for routes and celebrations of any length.       *)
(***************************************************************************)
EXTENDS Flight, FiniteSetTheorems, TLAPS

\* The shape of a strategy: what TypeOK says of it, spelt out.
Shape ==
  /\ strategy = [route |-> strategy.route, left |-> strategy.left,
                 layers |-> strategy.layers, spent |-> strategy.spent]
  /\ strategy.route \in Routes
  /\ strategy.left \in 0 .. MaxLen
  /\ strategy.layers \in Layouts
  /\ DOMAIN strategy.spent = DOMAIN strategy.layers
  /\ strategy.spent \in [DOMAIN strategy.layers -> 0 .. Celebration]

\* The inductive invariant: celebrations inside out need no more than types.
Inv == Shape /\ CelebratesInsideOut

\* A sequence of layers has as many positions as names.
LEMMA LayoutDomain ==
  ASSUME NEW l \in Layouts
  PROVE  /\ Len(l) \in 0 .. 2
         /\ DOMAIN l = 1 .. Len(l)
         /\ l = <<>> <=> Len(l) = 0
BY DEF Layouts

\* Shape is the type invariant.
LEMMA ShapeIsType == Shape => TypeOK
BY DEF Shape, TypeOK, StrategyOf, Layouts

\* Move keeps the shape, shortens the route only if no celebration is due,
\* and lets at most the outermost due celebration go on.
LEMMA MoveFacts ==
  ASSUME Shape, NEW pace \in Paces, Fly(pace)
  PROVE  LET s == strategy
             t == strategy'
         IN  /\ t.route = s.route /\ t.layers = s.layers
             /\ t = [route |-> t.route, left |-> t.left,
                     layers |-> t.layers, spent |-> t.spent]
             /\ t.left = IF \E k \in DOMAIN s.layers : Ready(s, k) THEN s.left
                         ELSE Advance(s.route, s.left, pace)
             /\ t.spent = [k \in DOMAIN s.layers |->
                             IF Celebrates(s, k) THEN s.spent[k] + 1 ELSE s.spent[k]]
BY DEF Shape, Fly, Move

\* The same, by cases.
LEMMA MoveCases ==
  ASSUME Shape, NEW pace \in Paces, Fly(pace)
  PROVE  /\ (\E k \in DOMAIN strategy.layers : Ready(strategy, k))
              => strategy'.left = strategy.left
         /\ ~(\E k \in DOMAIN strategy.layers : Ready(strategy, k))
              => strategy'.left = Advance(strategy.route, strategy.left, pace)
         /\ \A k \in DOMAIN strategy.layers :
              strategy'.spent[k] = IF Celebrates(strategy, k)
                                   THEN strategy.spent[k] + 1 ELSE strategy.spent[k]
BY DEF Shape, Fly, Move

\* Shape is preserved by every Move.
LEMMA ShapeStep ==
  ASSUME Shape, NEW pace \in Paces, Fly(pace)
  PROVE  Shape'
<1> DEFINE s == strategy
<1>1. Advance(s.route, s.left, pace) \in 0 .. MaxLen
  BY FlightAssumption DEF Shape, Advance
<1>2. strategy'.left \in 0 .. MaxLen
  BY <1>1, MoveFacts DEF Shape
<1>3. ASSUME NEW k \in DOMAIN s.layers
      PROVE  (IF Celebrates(s, k) THEN s.spent[k] + 1 ELSE s.spent[k])
                \in 0 .. Celebration
  BY <1>3, CelebrationAssumption DEF Shape, Celebrates, Ready
<1>4. strategy'.spent \in [DOMAIN s.layers -> 0 .. Celebration]
  BY <1>3, MoveFacts
<1>5. QED
  BY <1>2, <1>4, MoveFacts DEF Shape

\* A celebration that has run its full time is over for good.
LEMMA DoneIsDone ==
  ASSUME Shape, NEW pace \in Paces, Fly(pace),
         NEW j \in DOMAIN strategy.layers, strategy.spent[j] = Celebration
  PROVE  strategy'.spent[j] = Celebration
<1>1. ~Celebrates(strategy, j)
  BY CelebrationAssumption DEF Celebrates, Ready
<1>2. QED
  BY <1>1, MoveFacts

\* A due celebration finds the destination reached and those inside it over.
LEMMA ReadyFacts ==
  ASSUME Inv, NEW k \in DOMAIN strategy.layers, Ready(strategy, k)
  PROVE  /\ strategy.left = 0
         /\ \A j \in DOMAIN strategy.layers :
              j > k => strategy.spent[j] = Celebration
<1> DEFINE s == strategy
<1> USE CelebrationAssumption DEF Inv
<1>1. /\ Len(s.layers) \in 0 .. 2
      /\ DOMAIN s.layers = 1 .. Len(s.layers)
  BY LayoutDomain DEF Shape
<1>2. CASE k = Len(s.layers)
  BY <1>1, <1>2 DEF Ready, InnerCompleted
<1>3. CASE k # Len(s.layers)
  <2>1. k + 1 \in DOMAIN s.layers /\ s.spent[k + 1] >= Celebration
    BY <1>1, <1>3 DEF Ready, InnerCompleted
  <2>2. s.spent[k + 1] = Celebration
    BY <2>1 DEF Shape
  <2>3. /\ s.left = 0
        /\ \A j \in DOMAIN s.spent : j > k + 1 => s.spent[j] = Celebration
    BY <2>1, <2>2 DEF Shape, CelebratesInsideOut
  <2>4. QED
    BY <1>1, <2>2, <2>3 DEF Shape
<1>4. QED
  BY <1>2, <1>3

\* Celebrations stay inside out.
LEMMA InsideOutStep ==
  ASSUME Inv, NEW pace \in Paces, Fly(pace)
  PROVE  CelebratesInsideOut'
<1> DEFINE s == strategy
           t == strategy'
<1> USE CelebrationAssumption DEF Inv
<1> SUFFICES ASSUME NEW k \in DOMAIN s.layers, t.spent[k] > 0
             PROVE  /\ t.left = 0
                    /\ \A j \in DOMAIN s.layers : j > k => t.spent[j] = Celebration
  BY MoveFacts DEF CelebratesInsideOut
<1>1. CASE Ready(s, k)
  <2>1. t.left = 0
    BY <1>1, ReadyFacts, MoveFacts
  <2>2. QED
    BY <1>1, <2>1, ReadyFacts, DoneIsDone
<1>2. CASE ~Ready(s, k)
  <2>1. s.spent[k] > 0
    BY <1>2, MoveFacts DEF Celebrates
  <2>2. /\ s.left = 0
        /\ \A j \in DOMAIN s.layers : j > k => s.spent[j] = Celebration
    BY <2>1 DEF Shape, CelebratesInsideOut
  <2>3. Advance(s.route, s.left, pace) = 0
    BY <2>2, FlightAssumption DEF Advance
  <2>4. t.left = 0
    BY <2>2, <2>3, MoveFacts
  <2>5. QED
    BY <2>2, <2>4, DoneIsDone
<1>3. QED
  BY <1>1, <1>2

\* Every strategy the program builds has the shape and has not celebrated.
LEMMA InitInv == Init => Inv
<1> SUFFICES ASSUME Init PROVE Inv
  OBVIOUS
<1> USE FlightAssumption, CelebrationAssumption
<1>1. ASSUME NEW route \in Routes, NEW n \in 0 .. MaxLen, NEW l \in Layouts,
             strategy = Decorated(route, n, l)
      PROVE  Inv
  BY <1>1 DEF Decorated, Inv, Shape, CelebratesInsideOut
<1>2. ASSUME NEW n \in 0 .. MaxLen, strategy = Beeline(n) PROVE Inv
  BY <1>1, <1>2 DEF Beeline, Routes, Layouts
<1>3. ASSUME NEW n \in 1 .. MaxLen, strategy \in {Path("astar", n), SpinAstar(n)}
      PROVE  Inv
  BY <1>1, <1>3 DEF Path, SpinAstar, Routes, Paths, Layouts
<1>4. ASSUME NEW n \in 1 .. MaxLen, NEW name \in Paths, strategy = Delivery(name, n)
      PROVE  Inv
  BY <1>1, <1>4 DEF Delivery, Beeline, Routes, Paths, Layouts
<1>5. QED
  BY <1>2, <1>3, <1>4 DEF Init

\* The invariant holds throughout.
LEMMA Invariance == Spec => []Inv
<1>1. Inv /\ [Next]_strategy => Inv'
  <2>1. ASSUME Inv, NEW pace \in Paces, Fly(pace) PROVE Inv'
    BY <2>1, ShapeStep, InsideOutStep DEF Inv
  <2>2. ASSUME Inv, UNCHANGED strategy PROVE Inv'
    BY <2>2 DEF Inv, Shape, CelebratesInsideOut
  <2>3. QED
    BY <2>1, <2>2 DEF Next
<1>2. QED
  BY <1>1, InitInv, PTL DEF Spec

\* The strategy keeps its type: no clock of a celebration runs past its end.
THEOREM TypeCorrect == Spec => []TypeOK
BY Invariance, ShapeIsType, PTL DEF Inv

\* Where the invariant holds, IsCompleted tells the truth.
LEMMA CompletionNow == Inv => CompletedMeansAllDone
<1> SUFFICES ASSUME Inv, IsCompleted(strategy)
             PROVE  /\ strategy.left = 0
                    /\ \A k \in DOMAIN strategy.spent : strategy.spent[k] = Celebration
  BY DEF CompletedMeansAllDone
<1> USE CelebrationAssumption DEF Inv, Shape, IsCompleted
<1>1. /\ Len(strategy.layers) \in 0 .. 2
      /\ DOMAIN strategy.layers = 1 .. Len(strategy.layers)
      /\ strategy.layers = <<>> <=> Len(strategy.layers) = 0
  BY LayoutDomain
<1>2. CASE strategy.layers = <<>>
  BY <1>1, <1>2
<1>3. CASE strategy.layers # <<>>
  <2>1. 1 \in DOMAIN strategy.spent /\ strategy.spent[1] = Celebration
    BY <1>1, <1>3
  <2>2. QED
    BY <1>1, <2>1 DEF CelebratesInsideOut
<1>4. QED
  BY <1>2, <1>3

\* A celebration begins only at the destination, and only when all inside it
\* are over, although Move asks each decorator for itself.
THEOREM CelebrationsInsideOut == Spec => []CelebratesInsideOut
BY Invariance, PTL DEF Inv

\* IsCompleted may ask the outermost decorator alone: when it says yes, the
\* destination is reached and every celebration is over.
THEOREM CompletionIsSound == Spec => []CompletedMeansAllDone
BY CompletionNow, Invariance, PTL DEF Inv

\* A Move that is due to a celebration lengthens exactly one of them and leaves
\* the route as it is.
LEMMA CelebrationStep ==
  ASSUME Inv, NEW pace \in Paces, Fly(pace),
         \E k \in DOMAIN strategy.layers : Ready(strategy, k)
  PROVE  \E k \in DOMAIN strategy.layers :
           /\ Celebrates(strategy, k)
           /\ \A j \in DOMAIN strategy.layers : Celebrates(strategy, j) => j = k
<1>1. PICK n \in 0 .. 2 : DOMAIN strategy.layers = 1 .. n
  BY LayoutDomain DEF Inv, Shape
<1>2. CASE 1 \in DOMAIN strategy.layers /\ Ready(strategy, 1)
  <2>1. Celebrates(strategy, 1)
    BY <1>2 DEF Celebrates
  <2>2. QED
    BY <1>1, <1>2, <2>1 DEF Celebrates
<1>3. CASE ~(1 \in DOMAIN strategy.layers /\ Ready(strategy, 1))
  <2>1. 2 \in DOMAIN strategy.layers /\ Ready(strategy, 2)
    <3>1. PICK k \in DOMAIN strategy.layers : Ready(strategy, k)
      OBVIOUS
    <3>2. k \in 1 .. n /\ n \in 0 .. 2
      BY <1>1, <3>1
    <3>3. k = 1 \/ k = 2
      BY <3>2
    <3>4. QED
      BY <1>3, <3>1, <3>3
  <2>2. Celebrates(strategy, 2)
    BY <1>1, <1>3, <2>1 DEF Celebrates
  <2>3. QED
    BY <1>1, <1>3, <2>1, <2>2 DEF Celebrates
<1>4. QED
  BY <1>2, <1>3

\* A Move of an uncompleted strategy gets it closer or makes exactly one
\* celebration longer, and Move no longer changes a completed one.
THEOREM OneStepAtATime == Spec => OneThingAtATime
<1> DEFINE s == strategy
           t == strategy'
           flown == s.left - t.left
           longer == {k \in DOMAIN s.spent : t.spent[k] = s.spent[k] + 1}
           same == {k \in DOMAIN s.spent : t.spent[k] = s.spent[k]}
           Step == /\ ~IsCompleted(s)
                   /\ \/ flown > 0 /\ longer = {}
                      \/ flown = 0 /\ Cardinality(longer) = 1
                   /\ longer \cup same = DOMAIN s.spent
<1>1. ASSUME Inv, NEW pace \in Paces, Fly(pace), t # s PROVE Step
  <2> USE <1>1, CelebrationAssumption, FlightAssumption DEF Inv
  <2>1. longer \cup same = DOMAIN s.spent
    BY MoveFacts DEF Shape
  <2>2. CASE \E k \in DOMAIN s.layers : Ready(s, k)
    <3>1. PICK k \in DOMAIN s.layers :
             Celebrates(s, k) /\ \A j \in DOMAIN s.layers : Celebrates(s, j) => j = k
      BY <2>2, CelebrationStep
    <3>2. longer = {k}
      <4>1. ASSUME NEW j \in DOMAIN s.layers PROVE t.spent[j] = s.spent[j] + 1 <=> j = k
        BY <3>1, MoveCases DEF Shape
      <4>2. QED
        BY <4>1 DEF Shape
    <3>3. flown = 0
      <4>1. t.left = s.left
        BY <2>2, MoveCases
      <4>2. QED
        BY <4>1 DEF Shape
    <3>4. ~IsCompleted(s)
      <4>1. Len(s.layers) \in 0 .. 2 /\ DOMAIN s.layers = 1 .. Len(s.layers)
        BY LayoutDomain DEF Shape
      <4>2. k = 1 => s.spent[1] < Celebration
        BY <3>1 DEF Celebrates, Ready
      <4>3. k # 1 => ~Ready(s, 1) /\ Ready(s, k)
        BY <3>1, <4>1 DEF Celebrates
      <4>4. CASE k = 1
        BY <4>1, <4>2, <4>4 DEF Shape, IsCompleted
      <4>5. CASE k # 1
        <5>1. s.spent[1] # Celebration
          <6>1. k > 1
            BY <4>1, <4>5
          <6>2. s.spent[k] # Celebration
            BY <4>3, <4>5 DEF Ready
          <6>3. s.spent[1] > 0 => s.spent[k] = Celebration
            BY <4>1, <6>1 DEF CelebratesInsideOut, Shape
          <6>4. QED
            BY <6>2, <6>3
        <5>2. 1 \in DOMAIN s.layers
          BY <4>1, <4>5
        <5>3. QED
          BY <4>1, <5>1, <5>2 DEF Shape, IsCompleted
      <4>6. QED
        BY <4>4, <4>5
    <3>5. QED
      BY <2>1, <3>2, <3>3, <3>4, FS_Singleton
  <2>3. CASE ~\E k \in DOMAIN s.layers : Ready(s, k)
    <3>1. t.spent = s.spent
      BY <2>3, MoveFacts DEF Celebrates, Shape
    <3>2. t.left # s.left
      BY <3>1, MoveFacts DEF Shape
    <3>3. flown > 0
      <4>1. t.left = Advance(s.route, s.left, pace)
        BY <2>3, MoveCases
      <4>2. QED
        BY <3>2, <4>1 DEF Shape, Advance
    <3>4. longer = {}
      BY <3>1 DEF Shape
    <3>5. ~IsCompleted(s)
      <4>1. s.left # 0
        BY <3>3, ShapeStep DEF Shape
      <4>2. CompletedMeansAllDone
        BY CompletionNow
      <4>3. QED
        BY <4>1, <4>2 DEF CompletedMeansAllDone
    <3>6. QED
      BY <2>1, <3>3, <3>4, <3>5
  <2>4. QED
    BY <2>2, <2>3
<1>2. Inv /\ [Next]_strategy => [Step]_strategy
  BY <1>1 DEF Next
<1>3. QED
  BY <1>2, Invariance, PTL DEF Spec, OneThingAtATime
=============================================================================
