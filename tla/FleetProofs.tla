----------------------------- MODULE FleetProofs -----------------------------
(***************************************************************************)
(* What Fleet keeps true, proved for any drones, bookings and distances,   *)
(* and that it implements TripService.                                     *)
(***************************************************************************)
EXTENDS Fleet, SequenceLemmas, FiniteSetTheorems

-----------------------------------------------------------------------------
(* Strategies.                                                             *)

\* A strategy with at most MaxLen to go.
Plans == StrategyOf(MaxLen)

\* Flying a strategy changes neither its kind nor what it follows.
LEMMA MoveType ==
  ASSUME NEW s \in Plans, NEW pace \in Nat
  PROVE  Move(s, pace) \in Plans /\ Move(s, pace).route = s.route
<1> DEFINE t == Move(s, pace)
<1>1. PICK l \in Layouts :
        s \in [route : Routes \cup {"none"}, left : 0 .. MaxLen, layers : {l},
               spent : [DOMAIN l -> 0 .. Celebration]]
  BY DEF Plans, StrategyOf
<1>2. t.left \in 0 .. MaxLen
  BY <1>1, FleetAssumption DEF Move, Advance
<1>3. ASSUME NEW k \in DOMAIN l
      PROVE  (IF Celebrates(s, k) THEN s.spent[k] + 1 ELSE s.spent[k])
                \in 0 .. Celebration
  BY <1>1, CelebrationAssumption DEF Celebrates, Ready
<1>4. t.spent \in [DOMAIN l -> 0 .. Celebration]
  BY <1>1, <1>3 DEF Move
<1>5. t = [route |-> s.route, left |-> t.left, layers |-> l, spent |-> t.spent]
  BY <1>1 DEF Move
<1>6. QED
  BY <1>1, <1>2, <1>4, <1>5 DEF Plans, StrategyOf

\* Every strategy the program builds is a plan and follows what it is for.
LEMMA BuildTypes ==
  ASSUME NEW n \in 0 .. MaxLen
  PROVE  /\ Beeline(n) \in Plans /\ Beeline(n).route = "beeline"
         /\ Path("astar", n) \in Plans /\ Path("astar", n).route = "astar"
         /\ SpinAstar(n) \in Plans /\ SpinAstar(n).route = "astar"
         /\ \A name \in Paths : Delivery(name, n) \in Plans
                                /\ Delivery(name, n).route = name
         /\ NoStrategy \in Plans
<1>1. ASSUME NEW route \in Routes \cup {"none"}, NEW m \in 0 .. MaxLen, NEW l \in Layouts
      PROVE  Decorated(route, m, l) \in Plans /\ Decorated(route, m, l).route = route
  BY <1>1, CelebrationAssumption DEF Decorated, Plans, StrategyOf
<1>2. NoStrategy = Decorated("none", 0, <<>>)
  BY DEF NoStrategy, Decorated
<1>3. ASSUME NEW name \in Paths
      PROVE  Delivery(name, n) \in Plans /\ Delivery(name, n).route = name
  BY <1>1 DEF Delivery, Paths, Routes, Layouts
<1>4. QED
  BY <1>1, <1>2, <1>3, FleetAssumption
     DEF Beeline, Path, SpinAstar, Routes, Paths, Layouts

\* Nor is the null pointer forgotten.
LEMMA NullPlan == NoStrategy \in Plans
<1>1. 0 \in 0 .. MaxLen
  BY FleetAssumption
<1>2. QED
  BY <1>1, BuildTypes

\* Whether a plan is completed is a matter of comparing two integers.
LEMMA CompletedType ==
  ASSUME NEW s \in Plans
  PROVE  IsCompleted(s) \in BOOLEAN
<1>1. PICK l \in Layouts :
        s \in [route : Routes \cup {"none"}, left : 0 .. MaxLen, layers : {l},
               spent : [DOMAIN l -> 0 .. Celebration]]
  BY DEF Plans, StrategyOf
<1>2. l = <<>> \/ 1 \in DOMAIN l
  BY DEF Layouts
<1>3. CASE l = <<>>
  BY <1>1, <1>3 DEF IsCompleted
<1>4. CASE l # <<>>
  <2>1. s.spent[1] \in Int /\ Celebration \in Int
    BY <1>1, <1>2, <1>4, CelebrationAssumption
  <2>2. (s.spent[1] >= Celebration) \in BOOLEAN
    BY <2>1
  <2>3. s.layers # <<>>
    BY <1>1, <1>4
  <2>4. QED
    BY <2>2, <2>3, Zenon DEF IsCompleted
<1>5. QED
  BY <1>3, <1>4

-----------------------------------------------------------------------------
(* What one update of a drone does, leg by leg.                            *)

\* The lengths a new route may have are lengths.
LEMMA LengthsType ==
  ASSUME NEW least \in 0 .. 1, NEW s, NEW n \in Lengths(least, s)
  PROVE  n \in 0 .. MaxLen
BY FleetAssumption DEF Lengths

\* A drone never covers a negative distance.
LEMMA PaceType == TypeOK => Pace \in Nat
BY DEF TypeOK, Pace, Weathers

\* The route that FlyToRobot ends up with, and what becomes of the flags.
LEMMA PickupLeg ==
  ASSUME TypeOK, NEW d \in Drones, NEW r, NEW s \in Plans, NEW p,
         FlyToRobot(d, r, s, p)
  PROVE  LET on == forecast = "snow"
             names == Mentioned(d, r)
         IN  \E moved \in Plans, arrived \in BOOLEAN :
               /\ moved.route = IF Reverts(d, on) THEN "beeline"
                                ELSE IF Replans(d, on) THEN "astar" ELSE s.route
               /\ toRobot' = [toRobot EXCEPT ![d] = IF arrived THEN NoStrategy ELSE moved]
               /\ pickedUp' = [pickedUp EXCEPT ![d] = arrived]
               /\ publisher' = [publisher EXCEPT ![d] =
                     IF arrived THEN SendEvents(SendEvents(p, "Picking", names), "Picked", names)
                     ELSE SendEvents(p, "Picking", names)]
               /\ SetFlags(d, on, arrived)
<1> DEFINE on == forecast = "snow"
           names == Mentioned(d, r)
           least == IF Reverts(d, on) THEN 0 ELSE 1
           taken(n) == Rerouted(d, on, s, Path("astar", n), Beeline(n))
<1>1. PICK n \in IF Replans(d, on) \/ Reverts(d, on) THEN Lengths(least, s) ELSE {s.left} :
        LET moved == Move(taken(n), Pace)
            arrived == IsCompleted(moved)
            told == SendEvents(p, "Picking", names)
        IN  /\ toRobot' = [toRobot EXCEPT ![d] = IF arrived THEN NoStrategy ELSE moved]
            /\ pickedUp' = [pickedUp EXCEPT ![d] = arrived]
            /\ publisher' = [publisher EXCEPT
                               ![d] = IF arrived THEN SendEvents(told, "Picked", names) ELSE told]
            /\ SetFlags(d, on, arrived)
  BY DEF FlyToRobot
<1>2. Replans(d, on) \/ Reverts(d, on) => n \in 0 .. MaxLen
  BY LengthsType
<1>3. taken(n) = IF Reverts(d, on) THEN Beeline(n)
                 ELSE IF Replans(d, on) THEN Path("astar", n) ELSE s
  BY DEF Rerouted
<1>4. /\ taken(n) \in Plans
      /\ taken(n).route = IF Reverts(d, on) THEN "beeline"
                          ELSE IF Replans(d, on) THEN "astar" ELSE s.route
  BY <1>2, <1>3, BuildTypes
<1> DEFINE moved == Move(taken(n), Pace)
<1>5. moved \in Plans /\ moved.route = taken(n).route
  BY <1>4, MoveType, PaceType
<1>6. IsCompleted(moved) \in BOOLEAN
  BY <1>5, CompletedType
<1> HIDE DEF taken, on
<1>7. QED
  BY <1>1, <1>4, <1>5, <1>6 DEF on

\* The same for FlyToFinal, which has the robot aboard.
LEMMA DeliveryLeg ==
  ASSUME TypeOK, NEW d \in Drones, FlyToFinal(d)
  PROVE  LET on == forecast = "hot"
             names == Mentioned(d, nearestEntity[d])
             told == IF pickedUp[d] THEN SendEvents(publisher[d], "Delivering", names)
                     ELSE publisher[d]
         IN  \E moved \in Plans, arrived \in BOOLEAN :
               /\ moved.route = IF Reverts(d, on) THEN "astar"
                                ELSE IF Replans(d, on) THEN "beeline" ELSE toFinal[d].route
               /\ toFinal' = [toFinal EXCEPT ![d] = IF arrived THEN NoStrategy ELSE moved]
               /\ delivered' = IF arrived THEN delivered \cup {nearestEntity[d]} ELSE delivered
               /\ nearestEntity' = [nearestEntity EXCEPT ![d] = IF arrived THEN NoEntity ELSE @]
               /\ available' = [available EXCEPT ![d] = arrived]
               /\ pickedUp' = [pickedUp EXCEPT ![d] = ~arrived /\ @]
               /\ publisher' = [publisher EXCEPT
                                  ![d] = IF arrived THEN SendEvents(told, "Delivered", names) ELSE told]
               /\ SetFlags(d, on, arrived)
<1> DEFINE on == forecast = "hot"
           names == Mentioned(d, nearestEntity[d])
           s == toFinal[d]
           least == IF Reverts(d, on) THEN 1 ELSE 0
           taken(n) == Rerouted(d, on, s, Beeline(n), SpinAstar(n))
           told == IF pickedUp[d] THEN SendEvents(publisher[d], "Delivering", names)
                   ELSE publisher[d]
<1>1. PICK n \in IF Replans(d, on) \/ Reverts(d, on) THEN Lengths(least, s) ELSE {s.left} :
        LET moved == Move(taken(n), Pace)
            arrived == IsCompleted(moved)
        IN  /\ toFinal' = [toFinal EXCEPT ![d] = IF arrived THEN NoStrategy ELSE moved]
            /\ delivered' = IF arrived THEN delivered \cup {nearestEntity[d]} ELSE delivered
            /\ nearestEntity' = [nearestEntity EXCEPT ![d] = IF arrived THEN NoEntity ELSE @]
            /\ available' = [available EXCEPT ![d] = arrived]
            /\ pickedUp' = [pickedUp EXCEPT ![d] = ~arrived /\ @]
            /\ publisher' = [publisher EXCEPT
                               ![d] = IF arrived THEN SendEvents(told, "Delivered", names) ELSE told]
            /\ SetFlags(d, on, arrived)
  BY DEF FlyToFinal
<1>2. Replans(d, on) \/ Reverts(d, on) => n \in 0 .. MaxLen
  BY LengthsType
<1>3. taken(n) = IF Reverts(d, on) THEN SpinAstar(n)
                 ELSE IF Replans(d, on) THEN Beeline(n) ELSE s
  BY DEF Rerouted
<1>4. /\ taken(n) \in Plans
      /\ taken(n).route = IF Reverts(d, on) THEN "astar"
                          ELSE IF Replans(d, on) THEN "beeline" ELSE s.route
  <2>1. s \in Plans
    BY DEF TypeOK, Plans
  <2>2. QED
    BY <1>2, <1>3, <2>1, BuildTypes
<1> DEFINE moved == Move(taken(n), Pace)
<1>5. moved \in Plans /\ moved.route = taken(n).route
  BY <1>4, MoveType, PaceType
<1>6. IsCompleted(moved) \in BOOLEAN
  BY <1>5, CompletedType
<1> HIDE DEF taken, on
<1>7. QED
  BY <1>1, <1>4, <1>5, <1>6 DEF on

\* The four kinds of message, and what the publisher of a drone may remember.
MessageKinds == {Messages[i] : i \in 1 .. 4}
Reports == [run : MessageKinds \cup {"none"}, heard : Seq(MessageKinds)]

\* The key found in a notice is the first of those that occur in it.
LEMMA FirstKey ==
  ASSUME NEW key \in MessageKinds, NEW names
  PROVE  /\ KeyFound(key, names) \in MessageKinds
         /\ \A i \in 1 .. 4 :
              Messages[i] \in {key} \cup names
                /\ (\A j \in 1 .. i - 1 : Messages[j] \notin {key} \cup names)
              => KeyFound(key, names) = Messages[i]
<1> DEFINE Occurs(i) == Messages[i] \in {key} \cup names
           Least(i) == Occurs(i) /\ \A j \in 1 .. i - 1 : ~Occurs(j)
<1>1. \E i \in 1 .. 4 : Occurs(i)
  BY DEF MessageKinds
<1>2. \E i \in 1 .. 4 : Least(i)
  <2> HIDE DEF Occurs
  <2>1. CASE Occurs(1)
    BY <2>1
  <2>2. CASE ~Occurs(1) /\ Occurs(2)
    BY <2>2
  <2>3. CASE ~Occurs(1) /\ ~Occurs(2) /\ Occurs(3)
    BY <2>3
  <2>4. CASE ~Occurs(1) /\ ~Occurs(2) /\ ~Occurs(3) /\ Occurs(4)
    BY <2>4
  <2>5. QED
    BY <1>1, <2>1, <2>2, <2>3, <2>4
<1>3. ASSUME NEW i \in 1 .. 4, NEW k \in 1 .. 4, Least(i), Least(k) PROVE i = k
  <2> HIDE DEF Occurs
  <2>1. QED
    BY <1>3
<1>4. KeyFound(key, names) = Messages[CHOOSE i \in 1 .. 4 : Least(i)]
  BY DEF KeyFound
<1> HIDE DEF Least
<1>5. ASSUME NEW i \in 1 .. 4, Least(i) PROVE KeyFound(key, names) = Messages[i]
  BY <1>3, <1>4, <1>5
<1>6. KeyFound(key, names) \in MessageKinds
  BY <1>2, <1>5 DEF MessageKinds
<1>7. QED
  BY <1>5, <1>6 DEF Least

\* A message more leaves the publisher with a report.
LEMMA ReportType ==
  ASSUME NEW p \in Reports, NEW key \in MessageKinds, NEW names
  PROVE  SendEvents(p, key, names) \in Reports
<1>1. KeyFound(key, names) \in MessageKinds
  BY FirstKey
<1>2. QED
  BY <1>1 DEF Reports, SendEvents

\* The kinds of message by name.
LEMMA KindsByName == {"Picking", "Picked", "Delivering", "Delivered"} \subseteq MessageKinds
<1>1. /\ Messages[1] = "Picking" /\ Messages[2] = "Picked"
      /\ Messages[3] = "Delivering" /\ Messages[4] = "Delivered"
  BY DEF Messages
<1>2. QED
  BY <1>1 DEF MessageKinds

\* SetFlags says all there is to say of the two flags of every drone.
LEMMA FlagsFacts ==
  ASSUME TypeOK, NEW d \in Drones, NEW on \in BOOLEAN, NEW arrived \in BOOLEAN,
         SetFlags(d, on, arrived)
  PROVE  /\ run' \in [Drones -> BOOLEAN] /\ emergency' \in [Drones -> BOOLEAN]
         /\ \A e \in Drones \ {d} : run'[e] = run[e] /\ emergency'[e] = emergency[e]
         /\ run'[d] <=> arrived \/ Reverts(d, on) \/ (run[d] /\ ~Replans(d, on))
         /\ emergency'[d] <=> ~Reverts(d, on) /\ (Replans(d, on) \/ emergency[d])
<1>1. /\ run \in [Drones -> BOOLEAN] /\ emergency \in [Drones -> BOOLEAN]
      /\ Reverts(d, on) \in BOOLEAN /\ Replans(d, on) \in BOOLEAN
  BY DEF TypeOK, Reverts, Replans
<1>2. QED
  BY <1>1 DEF SetFlags

-----------------------------------------------------------------------------
(* The inductive invariant.                                                *)

\* What the members of a drone say of its trip agrees: available, the robot it
\* carries, whether it has it aboard and which of its strategies is left.
Phases ==
  \A d \in Drones :
    /\ available[d] <=> nearestEntity[d] = NoEntity
    /\ available[d] <=> toFinal[d] = NoStrategy
    /\ available[d] => toRobot[d] = NoStrategy
    /\ pickedUp[d] <=> ~available[d] /\ toRobot[d] = NoStrategy
    /\ d \notin drones => available[d]

\* Who holds a robot: a robot that waits is in the scene, and one a drone has
\* taken is held by that drone alone.
Custody ==
  /\ CarriedRobotIsSafe
  /\ \A d, e \in Drones :
       nearestEntity[d] = nearestEntity[e] /\ nearestEntity[d] # NoEntity => d = e
  /\ free \cap delivered = {}
  /\ \A r \in free : r \in ToSet(scheduler) => r \in ToSet(parked)
  /\ ToSet(parked) \subseteq awaiting \cup confirmed
  /\ ToSet(scheduler) \subseteq awaiting \cup confirmed
  /\ delivered \subseteq awaiting \cup confirmed
  /\ \A r \in ToSet(scheduler) : strategyName[r] \in Paths

\* run is false exactly while the emergency route is flown.
Fit(d) ==
  /\ toRobot[d] # NoStrategy =>
       toRobot[d].route = IF run[d] THEN "beeline" ELSE "astar"
  /\ toFinal[d] # NoStrategy =>
       IF toRobot[d] = NoStrategy /\ ~run[d] THEN toFinal[d].route = "beeline"
       ELSE toFinal[d].route \in Paths
  /\ run[d] \/ emergency[d]
  /\ ~run[d] => /\ ~available[d]
                /\ d \notin pending => ~completed
                /\ forecast = IF toRobot[d] # NoStrategy THEN "snow" ELSE "hot"
  /\ toRobot[d] # NoStrategy /\ d \notin pending /\ forecast = "snow" /\ ~completed
       => ~run[d]

FlagsFit == \A d \in Drones : Fit(d)

Inv == TypeOK /\ Phases /\ Custody /\ FlagsFit

\* Under the invariant the flags say less: the emergency route is left on
\* arrival and when the weather is completed, and taken when it is not.
LEMMA FlagsUnderInv ==
  ASSUME Inv, NEW d \in Drones, NEW on \in BOOLEAN, NEW arrived \in BOOLEAN,
         SetFlags(d, on, arrived)
  PROVE  /\ Reverts(d, on) <=> on /\ completed
         /\ Replans(d, on) <=> on /\ run[d]
         /\ run' \in [Drones -> BOOLEAN] /\ emergency' \in [Drones -> BOOLEAN]
         /\ \A e \in Drones \ {d} : run'[e] = run[e] /\ emergency'[e] = emergency[e]
         /\ run'[d] <=> arrived \/ (on /\ completed) \/ (run[d] /\ ~on)
         /\ run'[d] \/ emergency'[d]
<1>1. /\ run[d] \in BOOLEAN /\ emergency[d] \in BOOLEAN /\ completed \in BOOLEAN
      /\ run[d] \/ emergency[d]
  BY DEF Inv, TypeOK, FlagsFit, Fit
<1>2. /\ Reverts(d, on) <=> on /\ completed
      /\ Replans(d, on) <=> on /\ run[d]
  BY <1>1 DEF Reverts, Replans
<1>3. QED
  BY <1>1, <1>2, FlagsFacts DEF Inv

\* A plan that follows a route is not the null pointer.
LEMMA RouteIsPlan ==
  ASSUME NEW s, s.route \in Routes
  PROVE  s # NoStrategy
BY DEF Routes, Paths, NoStrategy

-----------------------------------------------------------------------------
(* Its preservation, action by action.                                     *)

\* No drone has set out, no robot is booked.
LEMMA InitInv == Init => Inv
<1> SUFFICES ASSUME Init PROVE Inv
  OBVIOUS
<1> USE FleetAssumption
<1>1. TypeOK
  <2>1. NoStrategy \in StrategyOf(MaxLen)
    BY NullPlan DEF Plans
  <2>2. [run |-> "none", heard |-> <<>>]
          \in [run : {Messages[i] : i \in 1 .. 4} \cup {"none"},
              heard : Seq({Messages[i] : i \in 1 .. 4})]
    OBVIOUS
  <2>3. publisher \in [Drones -> [run : {Messages[i] : i \in 1 .. 4} \cup {"none"},
                                  heard : Seq({Messages[i] : i \in 1 .. 4})]]
    BY <2>2 DEF Init
  <2>4. parked \in Seq(Robots) /\ scheduler \in Seq(Robots)
    BY DEF Init
  <2>5. toRobot \in [Drones -> StrategyOf(MaxLen)] /\ toFinal \in [Drones -> StrategyOf(MaxLen)]
    BY <2>1 DEF Init
  <2>6. QED
    BY <2>3, <2>4, <2>5 DEF Init, TypeOK, Weathers
<1>2. ToSet(<<>>) = {}
  BY DEF ToSet
<1>3. QED
  BY <1>1, <1>2 DEF Init, Inv, Phases, Custody, CarriedRobotIsSafe, FlagsFit, Fit

\* A new drone is available.
LEMMA CreateDroneStep ==
  ASSUME Inv, NEW d \in Drones, CreateDrone(d)
  PROVE  Inv'
<1> USE DEF CreateDrone, robotVars, droneVars, weatherVars
<1>1. TypeOK'
  BY DEF Inv, TypeOK
<1>2. Phases'
  BY DEF Inv, Phases
<1>3. Custody'
  BY DEF Inv, Custody, CarriedRobotIsSafe
<1>4. FlagsFit'
  BY DEF Inv, FlagsFit, Fit
<1>5. QED
  BY <1>1, <1>2, <1>3, <1>4 DEF Inv

\* A new robot is in the scene and awaits its ScheduleTrip.
LEMMA CreateRobotStep ==
  ASSUME Inv, NEW r \in Robots, CreateRobot(r)
  PROVE  Inv'
<1> USE DEF CreateRobot, droneVars, weatherVars
<1>1. parked' \in Seq(Robots) /\ ToSet(parked') = ToSet(parked) \cup {r}
  BY AppendToSet DEF Inv, TypeOK
<1>2. TypeOK'
  BY <1>1 DEF Inv, TypeOK
<1>3. Phases'
  BY DEF Inv, Phases
<1>4. Custody'
  BY <1>1 DEF Inv, Custody, CarriedRobotIsSafe
<1>5. FlagsFit'
  BY DEF Inv, FlagsFit, Fit
<1>6. QED
  BY <1>2, <1>3, <1>4, <1>5 DEF Inv

\* A booking changes the robot it matches, which no drone has taken yet.
LEMMA ScheduleTripStep ==
  ASSUME Inv, NEW b \in Robots, ScheduleTrip(b)
  PROVE  Inv'
<1> USE DEF ScheduleTrip, droneVars, weatherVars
<1>1. CASE UNCHANGED <<scheduler, destination, strategyName>>
  <2>1. TypeOK'
    BY <1>1 DEF Inv, TypeOK
  <2>2. Phases' /\ FlagsFit'
    BY <1>1 DEF Inv, Phases, FlagsFit, Fit
  <2>3. Custody'
    BY <1>1 DEF Inv, Custody, CarriedRobotIsSafe
  <2>4. QED
    BY <2>1, <2>2, <2>3 DEF Inv
<1>2. ASSUME NEW i \in Matches(b),
             destination' = [destination EXCEPT ![parked[i]] = b],
             strategyName' = [strategyName EXCEPT ![parked[i]] = Search[b]],
             scheduler' = Append(scheduler, parked[i])
      PROVE  Inv'
  <2>1. parked[i] \in Robots /\ parked[i] \in ToSet(parked) /\ parked[i] \in free
    BY <1>2, ToSetPositions DEF Matches, Inv, TypeOK
  <2>2. scheduler' \in Seq(Robots) /\ ToSet(scheduler') = ToSet(scheduler) \cup {parked[i]}
    BY <1>2, <2>1, AppendToSet DEF Inv, TypeOK
  <2>3. Search[b] \in Paths
    BY FleetAssumption
  <2>4. TypeOK'
    BY <1>2, <2>1, <2>2, <2>3 DEF Inv, TypeOK
  <2>5. Phases' /\ FlagsFit'
    BY DEF Inv, Phases, FlagsFit, Fit
  <2>6. \A r \in ToSet(scheduler)' : strategyName'[r] \in Paths
    BY <1>2, <2>1, <2>2, <2>3, ToSetPositions DEF Inv, TypeOK, Custody
  <2>7. Custody'
    BY <2>1, <2>2, <2>6 DEF Inv, Custody, CarriedRobotIsSafe
  <2>8. QED
    BY <2>4, <2>5, <2>7 DEF Inv
<1>3. QED
  BY <1>1, <1>2

\* A new weather finds every drone on its usual route.
LEMMA TickStep ==
  ASSUME Inv, Tick
  PROVE  Inv'
<1> USE DEF Tick, robotVars, droneVars
<1>1. TypeOK'
  BY DEF Inv, TypeOK
<1>2. Phases'
  BY DEF Inv, Phases
<1>3. Custody'
  BY DEF Inv, Custody, CarriedRobotIsSafe
<1>4. FlagsFit'
  BY DEF Inv, Phases, FlagsFit, Fit
<1>5. QED
  BY <1>1, <1>2, <1>3, <1>4 DEF Inv

\* What the tornado takes out of the scene, it takes from the delivered robots.
LEMMA TornadoScene ==
  ASSUME Inv, TornadoErase
  PROVE  /\ parked' \in Seq(Robots)
         /\ ToSet(parked)' \subseteq ToSet(parked)
         /\ \A x \in ToSet(parked) \ delivered : x \in ToSet(parked)'
<1>1. PICK i \in DOMAIN parked : parked[i] \in delivered /\ parked' = RemoveAt(parked, i)
  BY DEF TornadoErase
<1>2. /\ parked \in Seq(Robots) /\ Len(parked) \in Nat /\ i \in 1 .. Len(parked)
  BY <1>1 DEF Inv, TypeOK
<1>3. /\ parked' \in Seq(Robots)
      /\ Len(parked') = Len(parked) - 1
      /\ \A j \in 1 .. Len(parked) - 1 : parked'[j] = IF j < i THEN parked[j] ELSE parked[j + 1]
  BY <1>1, <1>2, RemoveAtPositions
<1>4. ToSet(parked)' \subseteq ToSet(parked)
  <2> SUFFICES ASSUME NEW x \in ToSet(parked') PROVE x \in ToSet(parked)
    OBVIOUS
  <2>1. PICK j \in 1 .. Len(parked') : x = parked'[j]
    BY <1>3, ToSetPositions
  <2>2. PICK k \in 1 .. Len(parked) : x = parked[k]
    <3>1. j \in 1 .. Len(parked) - 1
      BY <1>3, <2>1
    <3>2. x = IF j < i THEN parked[j] ELSE parked[j + 1]
      BY <1>3, <2>1, <3>1
    <3>3. QED
      BY <1>2, <3>1, <3>2
  <2>3. QED
    BY <1>2, <2>2, ToSetPositions
<1>5. ASSUME NEW x \in ToSet(parked), x \notin delivered PROVE x \in ToSet(parked')
  <2>1. PICK j \in 1 .. Len(parked) : x = parked[j]
    BY <1>2, ToSetPositions
  <2>2. j # i
    BY <1>1, <1>5, <2>1
  <2>3. CASE j < i
    BY <1>2, <1>3, <2>1, <2>3, ToSetPositions
  <2>4. CASE j > i
    <3>1. parked'[j - 1] = x /\ j - 1 \in 1 .. Len(parked')
      BY <1>2, <1>3, <2>1, <2>4
    <3>2. QED
      BY <1>3, <3>1, ToSetPositions
  <2>5. QED
    BY <2>2, <2>3, <2>4
<1>6. QED
  BY <1>3, <1>4, <1>5

\* The tornado only takes robots that no drone holds or may take.
LEMMA TornadoEraseStep ==
  ASSUME Inv, TornadoErase
  PROVE  Inv'
<1> USE DEF TornadoErase, droneVars, weatherVars
<1>1. TypeOK'
  BY TornadoScene DEF Inv, TypeOK
<1>2. Phases' /\ FlagsFit'
  BY DEF Inv, Phases, FlagsFit, Fit
<1>3. Custody'
  BY TornadoScene DEF Inv, Custody, CarriedRobotIsSafe
<1>4. QED
  BY <1>1, <1>2, <1>3 DEF Inv

\* What a step of DroneUpdate(d) does besides the leg it flies.
Updating(d) ==
  /\ d \in pending
  /\ pending' = pending \ {d}
  /\ UNCHANGED <<drones, weatherVars>>

\* A drone that finds no robot stays as it is.
LEMMA HoverStep ==
  ASSUME Inv, NEW d \in Drones, Updating(d), Hover(d)
  PROVE  Inv'
<1> USE DEF Hover, Updating, robotVars, droneVars, weatherVars
<1>1. TypeOK'
  BY DEF Inv, TypeOK
<1>2. Phases'
  BY DEF Inv, Phases
<1>3. Custody'
  BY DEF Inv, Custody, CarriedRobotIsSafe
<1>4. FlagsFit'
  BY DEF Inv, Phases, FlagsFit, Fit
<1>5. QED
  BY <1>1, <1>2, <1>3, <1>4 DEF Inv

\* A drone on its way to a robot flies by A* while it snows, or has arrived.
LEMMA ApproachStep ==
  ASSUME Inv, NEW d \in Drones, Updating(d), Approach(d)
  PROVE  Inv'
<1> DEFINE on == forecast = "snow"
           names == Mentioned(d, nearestEntity[d])
<1> USE DEF Updating, weatherVars, robotVars
<1>1. toRobot[d] \in Plans
  BY DEF Inv, TypeOK, Plans
<1>2. PICK moved \in Plans, arrived \in BOOLEAN :
        /\ moved.route = IF Reverts(d, on) THEN "beeline"
                         ELSE IF Replans(d, on) THEN "astar" ELSE toRobot[d].route
        /\ toRobot' = [toRobot EXCEPT ![d] = IF arrived THEN NoStrategy ELSE moved]
        /\ pickedUp' = [pickedUp EXCEPT ![d] = arrived]
        /\ publisher' = [publisher EXCEPT ![d] =
              IF arrived THEN SendEvents(SendEvents(publisher[d], "Picking", names), "Picked", names)
              ELSE SendEvents(publisher[d], "Picking", names)]
        /\ SetFlags(d, on, arrived)
  BY <1>1, PickupLeg DEF Inv, Approach
<1>3. /\ Reverts(d, on) <=> on /\ completed
      /\ Replans(d, on) <=> on /\ run[d]
      /\ run' \in [Drones -> BOOLEAN] /\ emergency' \in [Drones -> BOOLEAN]
      /\ \A e \in Drones \ {d} : run'[e] = run[e] /\ emergency'[e] = emergency[e]
      /\ run'[d] <=> arrived \/ (on /\ completed) \/ (run[d] /\ ~on)
      /\ run'[d] \/ emergency'[d]
  BY <1>2, FlagsUnderInv
<1>4. publisher' \in [Drones -> Reports]
  <2>1. publisher \in [Drones -> Reports]
    BY DEF Inv, TypeOK, Reports, MessageKinds
  <2>2. SendEvents(publisher[d], "Picking", names) \in Reports
    BY <2>1, ReportType, KindsByName
  <2>3. SendEvents(SendEvents(publisher[d], "Picking", names), "Picked", names) \in Reports
    BY <2>2, ReportType, KindsByName
  <2>4. QED
    BY <1>2, <2>1, <2>2, <2>3
<1>5. toRobot' \in [Drones -> Plans]
  BY <1>2, NullPlan DEF Inv, TypeOK, Plans
<1>6. TypeOK'
  BY <1>2, <1>3, <1>4, <1>5 DEF Approach, Inv, TypeOK, Plans, Reports, MessageKinds
<1>7. moved.route = IF on /\ ~completed THEN "astar" ELSE "beeline"
  BY <1>2, <1>3 DEF Approach, Inv, FlagsFit, Fit
<1>8. moved # NoStrategy
  BY <1>7, RouteIsPlan DEF Routes, Paths
<1>9. Phases'
  BY <1>2, <1>8 DEF Approach, Inv, TypeOK, Phases
<1>10. Custody'
  BY DEF Approach, Inv, Custody, CarriedRobotIsSafe
<1>11. FlagsFit'
  <2>1. ASSUME NEW e \in Drones, e # d PROVE
          /\ toRobot'[e] = toRobot[e] /\ toFinal'[e] = toFinal[e]
          /\ run'[e] = run[e] /\ emergency'[e] = emergency[e]
          /\ available'[e] = available[e]
          /\ e \in pending' <=> e \in pending
    BY <1>2, <1>3, <2>1 DEF Approach, Inv, TypeOK
  <2>2. /\ toRobot'[d] = IF arrived THEN NoStrategy ELSE moved
        /\ toFinal'[d] = toFinal[d] /\ toFinal[d].route \in Paths
        /\ ~available'[d] /\ d \notin pending'
        /\ run'[d] <=> arrived \/ ~(on /\ ~completed)
    BY <1>2, <1>3 DEF Approach, Inv, TypeOK, Phases, FlagsFit, Fit
  <2>3. ASSUME NEW e \in Drones, e # d PROVE Fit(e)'
    BY <2>1, <2>3 DEF Inv, FlagsFit, Fit
  <2>4. Fit(d)'
    BY <1>3, <1>7, <1>8, <2>2 DEF Fit
  <2>5. QED
    BY <2>3, <2>4 DEF FlagsFit
<1>12. QED
  BY <1>6, <1>9, <1>10, <1>11 DEF Inv

\* A drone that takes a robot takes one no other drone has, on a route that
\* suits the weather.
LEMMA DispatchStep ==
  ASSUME Inv, NEW d \in Drones, Updating(d), Dispatch(d)
  PROVE  Inv'
<1> DEFINE on == forecast = "snow"
           p == [publisher[d] EXCEPT !.heard = <<>>]
<1> USE DEF Updating, weatherVars
<1>1. PICK r \in Waiting, n \in 0 .. MaxLen, m \in 1 .. MaxLen :
        /\ free' = free \ {r}
        /\ available' = [available EXCEPT ![d] = FALSE]
        /\ nearestEntity' = [nearestEntity EXCEPT ![d] = r]
        /\ toFinal' = [toFinal EXCEPT ![d] = Delivery(strategyName[r], m)]
        /\ FlyToRobot(d, r, Beeline(n), p)
  BY DEF Dispatch
<1> DEFINE names == Mentioned(d, r)
<1>2. Beeline(n) \in Plans /\ Beeline(n).route = "beeline"
  BY BuildTypes
<1>3. PICK moved \in Plans, arrived \in BOOLEAN :
        /\ moved.route = IF Reverts(d, on) THEN "beeline"
                         ELSE IF Replans(d, on) THEN "astar" ELSE Beeline(n).route
        /\ toRobot' = [toRobot EXCEPT ![d] = IF arrived THEN NoStrategy ELSE moved]
        /\ pickedUp' = [pickedUp EXCEPT ![d] = arrived]
        /\ publisher' = [publisher EXCEPT ![d] =
              IF arrived THEN SendEvents(SendEvents(p, "Picking", names), "Picked", names)
              ELSE SendEvents(p, "Picking", names)]
        /\ SetFlags(d, on, arrived)
  <2> HIDE DEF p
  <2>1. QED
    BY <1>1, <1>2, PickupLeg DEF Inv
<1>4. /\ Reverts(d, on) <=> on /\ completed
      /\ Replans(d, on) <=> on /\ run[d]
      /\ run' \in [Drones -> BOOLEAN] /\ emergency' \in [Drones -> BOOLEAN]
      /\ \A e \in Drones \ {d} : run'[e] = run[e] /\ emergency'[e] = emergency[e]
      /\ run'[d] <=> arrived \/ (on /\ completed) \/ (run[d] /\ ~on)
      /\ run'[d] \/ emergency'[d]
  BY <1>3, FlagsUnderInv
<1>5. publisher' \in [Drones -> Reports]
  <2>1. publisher \in [Drones -> Reports]
    BY DEF Inv, TypeOK, Reports, MessageKinds
  <2>2. p \in Reports
    <3>1. publisher[d] \in Reports /\ <<>> \in Seq(MessageKinds)
      BY <2>1
    <3>2. QED
      BY <3>1 DEF Reports
  <2> HIDE DEF p
  <2>3. SendEvents(p, "Picking", names) \in Reports
    BY <2>2, ReportType, KindsByName
  <2>4. SendEvents(SendEvents(p, "Picking", names), "Picked", names) \in Reports
    BY <2>3, ReportType, KindsByName
  <2>5. QED
    BY <1>3, <2>1, <2>3, <2>4
<1> HIDE DEF p
<1>6. /\ r \in Robots /\ r \in free /\ r \in ToSet(scheduler) /\ r \in ToSet(parked)
      /\ r \notin delivered /\ r # NoEntity
      /\ strategyName[r] \in Paths
  BY FleetAssumption DEF Waiting, Inv, TypeOK, Custody
<1>7. /\ Delivery(strategyName[r], m) \in Plans
      /\ Delivery(strategyName[r], m).route \in Paths
      /\ Delivery(strategyName[r], m) # NoStrategy
  <2>1. /\ Delivery(strategyName[r], m) \in Plans
        /\ Delivery(strategyName[r], m).route = strategyName[r]
    BY <1>6, BuildTypes, FleetAssumption
  <2>2. QED
    BY <1>6, <2>1, RouteIsPlan DEF Routes
<1>8. toRobot' \in [Drones -> Plans] /\ toFinal' \in [Drones -> Plans]
  BY <1>1, <1>3, <1>7, NullPlan DEF Inv, TypeOK, Plans
<1>9. TypeOK'
  BY <1>1, <1>3, <1>4, <1>5, <1>6, <1>8 DEF Dispatch, Inv, TypeOK, Plans, Reports, MessageKinds
<1>10. available[d] /\ run[d]
  BY DEF Dispatch, Inv, TypeOK, FlagsFit, Fit
<1>11. moved.route = IF on /\ ~completed THEN "astar" ELSE "beeline"
  BY <1>2, <1>3, <1>4, <1>10
<1>12. moved # NoStrategy
  BY <1>11, RouteIsPlan DEF Routes, Paths
<1>13. Phases'
  <2>1. d \in drones
    BY DEF Inv, TypeOK
  <2>2. QED
    BY <1>1, <1>3, <1>6, <1>7, <1>12, <2>1 DEF Inv, TypeOK, Phases
<1>14. Custody'
  <2>1. \A e \in Drones : nearestEntity[e] # r
    BY <1>6 DEF Inv, Custody, CarriedRobotIsSafe
  <2>2. CarriedRobotIsSafe'
    BY <1>1, <1>6, <2>1 DEF Dispatch, Inv, TypeOK, Custody, CarriedRobotIsSafe
  <2>3. \A e, f \in Drones :
          nearestEntity'[e] = nearestEntity'[f] /\ nearestEntity'[e] # NoEntity => e = f
    BY <1>1, <2>1 DEF Inv, TypeOK, Custody
  <2>4. QED
    BY <1>1, <2>2, <2>3 DEF Dispatch, Inv, Custody
<1>15. FlagsFit'
  <2>1. ASSUME NEW e \in Drones, e # d PROVE
          /\ toRobot'[e] = toRobot[e] /\ toFinal'[e] = toFinal[e]
          /\ run'[e] = run[e] /\ emergency'[e] = emergency[e]
          /\ available'[e] = available[e]
          /\ e \in pending' <=> e \in pending
    BY <1>1, <1>3, <1>4, <2>1 DEF Inv, TypeOK
  <2>2. /\ toRobot'[d] = IF arrived THEN NoStrategy ELSE moved
        /\ toFinal'[d].route \in Paths
        /\ ~available'[d] /\ d \notin pending'
        /\ run'[d] <=> arrived \/ ~(on /\ ~completed)
    BY <1>1, <1>3, <1>4, <1>7, <1>10 DEF Inv, TypeOK
  <2>3. ASSUME NEW e \in Drones, e # d PROVE Fit(e)'
    BY <2>1, <2>3 DEF Inv, FlagsFit, Fit
  <2>4. Fit(d)'
    BY <1>4, <1>11, <1>12, <2>2 DEF Fit
  <2>5. QED
    BY <2>3, <2>4 DEF FlagsFit
<1>16. QED
  BY <1>9, <1>13, <1>14, <1>15 DEF Inv

\* A drone with its robot aboard flies straight on in blazing heat, until it
\* has arrived.
LEMMA FlyToFinalStep ==
  ASSUME Inv, NEW d \in Drones, Updating(d), FlyToFinal(d)
  PROVE  Inv'
<1> DEFINE on == forecast = "hot"
           names == Mentioned(d, nearestEntity[d])
           told == IF pickedUp[d] THEN SendEvents(publisher[d], "Delivering", names)
                   ELSE publisher[d]
<1> USE DEF Updating, weatherVars, robotVars
<1>1. PICK moved \in Plans, arrived \in BOOLEAN :
        /\ moved.route = IF Reverts(d, on) THEN "astar"
                         ELSE IF Replans(d, on) THEN "beeline" ELSE toFinal[d].route
        /\ toFinal' = [toFinal EXCEPT ![d] = IF arrived THEN NoStrategy ELSE moved]
        /\ delivered' = IF arrived THEN delivered \cup {nearestEntity[d]} ELSE delivered
        /\ nearestEntity' = [nearestEntity EXCEPT ![d] = IF arrived THEN NoEntity ELSE @]
        /\ available' = [available EXCEPT ![d] = arrived]
        /\ pickedUp' = [pickedUp EXCEPT ![d] = ~arrived /\ @]
        /\ publisher' = [publisher EXCEPT
                           ![d] = IF arrived THEN SendEvents(told, "Delivered", names) ELSE told]
        /\ SetFlags(d, on, arrived)
  BY DeliveryLeg DEF Inv
<1>2. /\ Reverts(d, on) <=> on /\ completed
      /\ Replans(d, on) <=> on /\ run[d]
      /\ run' \in [Drones -> BOOLEAN] /\ emergency' \in [Drones -> BOOLEAN]
      /\ \A e \in Drones \ {d} : run'[e] = run[e] /\ emergency'[e] = emergency[e]
      /\ run'[d] <=> arrived \/ (on /\ completed) \/ (run[d] /\ ~on)
      /\ run'[d] \/ emergency'[d]
  BY <1>1, FlagsUnderInv
<1>3. publisher' \in [Drones -> Reports]
  <2>1. publisher \in [Drones -> Reports]
    BY DEF Inv, TypeOK, Reports, MessageKinds
  <2>2. told \in Reports
    BY <2>1, ReportType, KindsByName
  <2> HIDE DEF told
  <2>3. SendEvents(told, "Delivered", names) \in Reports
    BY <2>2, ReportType, KindsByName
  <2>4. QED
    BY <1>1, <2>1, <2>2, <2>3
<1> HIDE DEF told
<1>4. /\ ~available[d] /\ toRobot[d] = NoStrategy /\ UNCHANGED toRobot
      /\ nearestEntity[d] \in Robots /\ nearestEntity[d] # NoEntity
      /\ toFinal[d] # NoStrategy /\ pickedUp[d]
      /\ nearestEntity[d] \in ToSet(parked) /\ nearestEntity[d] \notin free
  BY DEF FlyToFinal, Inv, TypeOK, Phases, Custody, CarriedRobotIsSafe
<1>5. toFinal' \in [Drones -> Plans]
  BY <1>1, NullPlan DEF Inv, TypeOK, Plans
<1>6. TypeOK'
  BY <1>1, <1>2, <1>3, <1>4, <1>5 DEF FlyToFinal, Inv, TypeOK, Plans, Reports, MessageKinds
<1>7. /\ on /\ ~completed => moved.route = "beeline"
      /\ ~(on /\ ~completed) => moved.route \in Paths
  BY <1>1, <1>2, <1>4 DEF Inv, TypeOK, FlagsFit, Fit, Paths
<1>8. moved # NoStrategy
  BY <1>7, RouteIsPlan DEF Routes, Paths
<1>9. Phases'
  BY <1>1, <1>4, <1>8 DEF FlyToFinal, Inv, TypeOK, Phases
<1>10. Custody'
  <2>1. ASSUME NEW e \in Drones, e # d
        PROVE  nearestEntity'[e] = nearestEntity[e] /\ nearestEntity[e] # nearestEntity[d]
    BY <1>1, <1>4, <2>1 DEF Inv, TypeOK, Custody
  <2>2. nearestEntity'[d] = IF arrived THEN NoEntity ELSE nearestEntity[d]
    BY <1>1 DEF Inv, TypeOK
  <2>3. CarriedRobotIsSafe'
    BY <1>1, <1>4, <2>1, <2>2 DEF FlyToFinal, Inv, Custody, CarriedRobotIsSafe
  <2>4. \A e, f \in Drones :
          nearestEntity'[e] = nearestEntity'[f] /\ nearestEntity'[e] # NoEntity => e = f
    BY <2>1, <2>2 DEF Inv, Custody
  <2>5. nearestEntity[d] \in awaiting \cup confirmed
    BY <1>4 DEF Inv, Custody
  <2>6. QED
    BY <1>1, <1>4, <2>3, <2>4, <2>5 DEF FlyToFinal, Inv, Custody
<1>11. FlagsFit'
  <2>1. ASSUME NEW e \in Drones, e # d PROVE
          /\ toRobot'[e] = toRobot[e] /\ toFinal'[e] = toFinal[e]
          /\ run'[e] = run[e] /\ emergency'[e] = emergency[e]
          /\ available'[e] = available[e]
          /\ e \in pending' <=> e \in pending
    BY <1>1, <1>2, <1>4, <2>1 DEF Inv, TypeOK
  <2>2. /\ toRobot'[d] = NoStrategy
        /\ toFinal'[d] = IF arrived THEN NoStrategy ELSE moved
        /\ available'[d] <=> arrived
        /\ d \notin pending'
    BY <1>1, <1>4 DEF Inv, TypeOK
  <2>3. run'[d] <=> arrived \/ ~(on /\ ~completed)
    BY <1>2, <1>4 DEF Inv, TypeOK, FlagsFit, Fit
  <2>4. ASSUME NEW e \in Drones, e # d PROVE Fit(e)'
    BY <2>1, <2>4 DEF Inv, FlagsFit, Fit
  <2>5. Fit(d)'
    BY <1>2, <1>7, <2>2, <2>3 DEF Fit
  <2>6. QED
    BY <2>4, <2>5 DEF FlagsFit
<1>12. QED
  BY <1>6, <1>9, <1>10, <1>11 DEF Inv

-----------------------------------------------------------------------------
(* The theorems.                                                           *)

\* The invariant holds throughout.
LEMMA Invariance == Spec => []Inv
<1>1. Inv /\ [Next]_vars => Inv'
  <2> SUFFICES ASSUME Inv, [Next]_vars PROVE Inv'
    OBVIOUS
  <2>1. ASSUME NEW d \in Drones, CreateDrone(d) PROVE Inv'
    BY <2>1, CreateDroneStep
  <2>2. ASSUME NEW d \in Drones, DroneUpdate(d) PROVE Inv'
    BY <2>2, HoverStep, DispatchStep, ApproachStep, FlyToFinalStep DEF DroneUpdate, Updating
  <2>3. ASSUME NEW r \in Robots, CreateRobot(r) PROVE Inv'
    BY <2>3, CreateRobotStep
  <2>4. ASSUME NEW r \in Robots, ScheduleTrip(r) PROVE Inv'
    BY <2>4, ScheduleTripStep
  <2>5. CASE Tick
    BY <2>5, TickStep
  <2>6. CASE TornadoErase
    BY <2>6, TornadoEraseStep
  <2>7. CASE UNCHANGED vars
    BY <2>7 DEF vars, robotVars, droneVars, weatherVars, Inv, TypeOK, Phases, Custody,
                CarriedRobotIsSafe, FlagsFit, Fit
  <2>8. QED
    BY <2>1, <2>2, <2>3, <2>4, <2>5, <2>6, <2>7 DEF Next
<1>2. QED
  BY <1>1, InitInv, PTL DEF Spec

\* The state of the robots, the drones and the weather keeps its type.
THEOREM TypeCorrect == Spec => []TypeOK
BY Invariance, PTL DEF Inv

\* However bookings, drones and tornadoes interleave, a robot a drone has taken
\* is in the scene, offered to no other drone, and out of the tornado's reach.
THEOREM CarriedRobotsAreSafe == Spec => []CarriedRobotIsSafe
BY Invariance, PTL DEF Inv, Custody

\* Whatever weathers follow each other, and wherever on its way to a robot a
\* drone is when they change, its route is the one for the present weather.
THEOREM PickupRoutesFit == Spec => []PickupFitsWeather
<1>1. Inv => PickupFitsWeather
  BY DEF Inv, TypeOK, FlagsFit, Fit, PickupFitsWeather
<1>2. QED
  BY <1>1, Invariance, PTL

\* The same of a drone that carries its robot on.
THEOREM DeliveryRoutesFit == Spec => DeliveryFitsWeather
<1> DEFINE A == \A d \in pending \ pending' :
                  toRobot[d] = NoStrategy /\ toFinal[d] # NoStrategy /\ toFinal'[d] # NoStrategy
                    => (toFinal'[d].route = "beeline" <=> forecast = "hot" /\ ~completed)
<1>1. ASSUME Inv, Next PROVE A
  <2> SUFFICES ASSUME NEW d \in pending \ pending', toRobot[d] = NoStrategy,
                      toFinal[d] # NoStrategy, toFinal'[d] # NoStrategy
               PROVE  toFinal'[d].route = "beeline" <=> forecast = "hot" /\ ~completed
    OBVIOUS
  <2> DEFINE on == forecast = "hot"
  <2> USE <1>1 DEF Inv
  <2>1. d \in Drones
    BY DEF TypeOK
  <2>2. DroneUpdate(d)
    BY DEF Next, DroneUpdate, CreateDrone, CreateRobot, ScheduleTrip, Tick, TornadoErase
  <2>3. FlyToFinal(d)
    BY <2>1, <2>2 DEF DroneUpdate, Hover, Dispatch, Approach, Phases
  <2>4. PICK moved \in Plans, arrived \in BOOLEAN :
          /\ moved.route = IF Reverts(d, on) THEN "astar"
                           ELSE IF Replans(d, on) THEN "beeline" ELSE toFinal[d].route
          /\ toFinal' = [toFinal EXCEPT ![d] = IF arrived THEN NoStrategy ELSE moved]
          /\ SetFlags(d, on, arrived)
    <3> HIDE DEF on
    <3>1. QED
      BY <2>1, <2>3, DeliveryLeg DEF on
  <2>5. toFinal'[d] = moved
    BY <2>1, <2>4 DEF TypeOK
  <2>6. (Reverts(d, on) <=> on /\ completed) /\ (Replans(d, on) <=> on /\ run[d])
    BY <2>1, <2>4, FlagsUnderInv
  <2>7. /\ run[d] => toFinal[d].route \in Paths
        /\ ~run[d] => toFinal[d].route = "beeline" /\ on
    BY <2>1 DEF FlagsFit, Fit
  <2>8. QED
    BY <2>1, <2>4, <2>5, <2>6, <2>7 DEF TypeOK, Paths
<1>2. Inv /\ [Next]_vars => [A]_vars
  BY <1>1
<1>3. QED
  BY <1>2, Invariance, PTL DEF Spec, DeliveryFitsWeather

\* No command and no step of a drone changes the destination of a robot that
\* is on its trip.
THEOREM DestinationStays == Spec => DestinationFixedInFlight
<1> DEFINE A == \A d \in Drones :
                  nearestEntity[d] # NoEntity /\ nearestEntity'[d] = nearestEntity[d]
                    => destination'[nearestEntity[d]] = destination[nearestEntity[d]]
<1>1. ASSUME Inv, Next PROVE A
  <2> SUFFICES ASSUME NEW d \in Drones, nearestEntity[d] # NoEntity
               PROVE  destination'[nearestEntity[d]] = destination[nearestEntity[d]]
    OBVIOUS
  <2>1. ASSUME NEW b \in Robots, ScheduleTrip(b)
        PROVE  destination'[nearestEntity[d]] = destination[nearestEntity[d]]
    <3>1. nearestEntity[d] \notin free
      BY <1>1 DEF Inv, Custody, CarriedRobotIsSafe
    <3>2. QED
      BY <1>1, <2>1, <3>1 DEF ScheduleTrip, Matches, Inv, TypeOK
  <2>2. CASE ~\E b \in Robots : ScheduleTrip(b)
    BY <1>1, <2>2 DEF Next, CreateDrone, CreateRobot, DroneUpdate, Hover, Dispatch,
                      Approach, FlyToFinal, Tick, TornadoErase, robotVars
  <2>3. QED
    BY <2>1, <2>2
<1>2. Inv /\ [Next]_vars => [A]_vars
  BY <1>1
<1>3. QED
  BY <1>2, Invariance, PTL DEF Spec, DestinationFixedInFlight

-----------------------------------------------------------------------------
(* The notices of a trip.                                                  *)

\* What a publisher p that started with notice first remembers and has sent,
\* once notice i has been issued for a trip whose names hold these keys.
Told(p, first, names, i) ==
  \E n \in 1 .. i :
    /\ p.run = Messages[n]
    /\ p.heard = SubSeq(Messages, first, n)
    /\ n < i => Messages[n] \in names
    /\ \A j \in 1 .. n - 1 : Messages[j] \notin names

\* A trip starts with its second notice only after one that ended with the
\* first key as the one found last.
Starts(d) ==
  {first \in 1 .. 2 : first = 2 => \E e \in delivered : "Picking" \in Mentioned(d, e)}

\* What the publisher of a drone has sent and remembers, by the state of its
\* trip.
Noticed(d) ==
  LET p == publisher[d]
      names == Mentioned(d, nearestEntity[d])
  IN  /\ available[d] => \/ p = [run |-> "none", heard |-> <<>>]
                         \/ \E first \in Starts(d), r \in delivered :
                              Told(p, first, Mentioned(d, r), 4)
      /\ toRobot[d] # NoStrategy => \E first \in Starts(d) : Told(p, first, names, 1)
      /\ ~available[d] /\ toRobot[d] = NoStrategy =>
           \E first \in Starts(d), i \in 2 .. 3 : Told(p, first, names, i)
AllNoticed == \A d \in Drones : Noticed(d)

\* The kinds by their numbers.
LEMMA MessageFacts ==
  /\ Messages[1] = "Picking" /\ Messages[2] = "Picked"
  /\ Messages[3] = "Delivering" /\ Messages[4] = "Delivered"
  /\ Messages \in Seq(MessageKinds) /\ Len(Messages) = 4
<1>1. /\ Messages[1] = "Picking" /\ Messages[2] = "Picked"
      /\ Messages[3] = "Delivering" /\ Messages[4] = "Delivered" /\ Len(Messages) = 4
  BY DEF Messages
<1>2. Messages \in Seq(MessageKinds)
  BY <1>1, KindsByName DEF Messages
<1>3. QED
  BY <1>1, <1>2

\* No two notices have the same kind.
LEMMA KindsDiffer ==
  ASSUME NEW i \in 1 .. 4, NEW j \in 1 .. 4, i # j
  PROVE  Messages[i] # Messages[j]
BY MessageFacts

\* The messages grow by the next kind.
LEMMA OneMore ==
  ASSUME NEW first \in 1 .. 2, NEW n \in 1 .. 3
  PROVE  Append(SubSeq(Messages, first, n), Messages[n + 1]) = SubSeq(Messages, first, n + 1)
<1> DEFINE front == SubSeq(Messages, first, n)
<1>1. first \in 1 .. Len(Messages) /\ n + 1 \in first .. Len(Messages)
  BY MessageFacts
<1>2. SubSeq(Messages, first, n + 1) = SubSeq(Messages, first, (n + 1) - 1) \o <<Messages[n + 1]>>
  BY <1>1, MessageFacts, SubSeqRecursiveSecond
<1>3. front \in Seq(MessageKinds)
  <2>1. \A i \in first .. n : Messages[i] \in MessageKinds
    BY DEF MessageKinds
  <2>2. QED
    BY <2>1, SubSeqProperties
<1>4. Messages[n + 1] \in MessageKinds
  BY DEF MessageKinds
<1> HIDE DEF front
<1>5. Append(front, Messages[n + 1]) = front \o <<Messages[n + 1]>>
  BY <1>3, <1>4, AppendIsConcat
<1>6. QED
  BY <1>2, <1>5 DEF front

\* The key found in a notice is its own, unless an earlier one is mentioned.
LEMMA KeyOfNotice ==
  ASSUME NEW i \in 1 .. 4, NEW n \in 1 .. i, NEW names,
         n < i => Messages[n] \in names,
         \A j \in 1 .. n - 1 : Messages[j] \notin names
  PROVE  KeyFound(Messages[i], names) = Messages[n]
<1>1. Messages[i] \in MessageKinds /\ n \in 1 .. 4
  BY DEF MessageKinds
<1>2. Messages[n] \in {Messages[i]} \cup names
  OBVIOUS
<1>3. \A j \in 1 .. n - 1 : Messages[j] \notin {Messages[i]} \cup names
  BY KindsDiffer
<1>4. QED
  BY <1>1, <1>2, <1>3, FirstKey

\* The first notice of a trip is dropped if its key is the one found last.
LEMMA SendFirst ==
  ASSUME NEW p, NEW names, p.heard = <<>>
  PROVE  Told(SendEvents(p, "Picking", names), IF p.run = "Picking" THEN 2 ELSE 1, names, 1)
<1>1. KeyFound("Picking", names) = "Picking"
  <2>1. KeyFound(Messages[1], names) = Messages[1]
    BY KeyOfNotice
  <2>2. QED
    BY <2>1, MessageFacts
<1>2. CASE p.run = "Picking"
  <2>1. SendEvents(p, "Picking", names) = p
    BY <1>1, <1>2 DEF SendEvents
  <2>2. SubSeq(Messages, 2, 1) = <<>>
    BY SubSeqEmpty
  <2>3. Told(p, 2, names, 1)
    BY <1>2, <2>2, MessageFacts DEF Told
  <2>4. QED
    BY <1>2, <2>1, <2>3
<1>3. CASE p.run # "Picking"
  <2>1. SendEvents(p, "Picking", names) = [run |-> "Picking", heard |-> Append(<<>>, "Picking")]
    BY <1>1, <1>3 DEF SendEvents
  <2>2. Append(<<>>, "Picking") = SubSeq(Messages, 1, 1)
    <3>1. SubSeq(Messages, 1, 1) = SubSeq(Messages, 1, 1 - 1) \o <<Messages[1]>>
      BY MessageFacts, SubSeqRecursiveSecond
    <3>2. SubSeq(Messages, 1, 1 - 1) = <<>>
      BY SubSeqEmpty
    <3>3. QED
      BY <3>1, <3>2, MessageFacts
  <2>3. Told(SendEvents(p, "Picking", names), 1, names, 1)
    BY <2>1, <2>2, MessageFacts DEF Told
  <2>4. QED
    BY <1>3, <2>3
<1>4. QED
  BY <1>2, <1>3

\* The next notice is sent, unless a key before its own has been found in the
\* names.
LEMMA SendNext ==
  ASSUME NEW p, NEW first \in 1 .. 2, NEW names, NEW i \in 1 .. 3, Told(p, first, names, i)
  PROVE  Told(SendEvents(p, Messages[i + 1], names), first, names, i + 1)
<1> DEFINE q == SendEvents(p, Messages[i + 1], names)
<1>1. PICK n \in 1 .. i :
        /\ p.run = Messages[n]
        /\ p.heard = SubSeq(Messages, first, n)
        /\ n < i => Messages[n] \in names
        /\ \A j \in 1 .. n - 1 : Messages[j] \notin names
  BY DEF Told
<1>2. CASE Messages[n] \in names
  <2>1. KeyFound(Messages[i + 1], names) = Messages[n]
    BY <1>1, <1>2, KeyOfNotice
  <2>2. q = p
    BY <1>1, <2>1 DEF SendEvents
  <2> HIDE DEF q
  <2>3. n \in 1 .. i + 1 /\ (n < i + 1 => Messages[n] \in names)
    BY <1>2
  <2>4. QED
    BY <1>1, <2>2, <2>3 DEF Told, q
<1>3. CASE Messages[n] \notin names
  <2>1. n = i /\ \A j \in 1 .. (i + 1) - 1 : Messages[j] \notin names
    BY <1>1, <1>3
  <2>2. KeyFound(Messages[i + 1], names) = Messages[i + 1]
    BY <2>1, KeyOfNotice
  <2>3. Messages[i + 1] # Messages[i]
    BY KindsDiffer
  <2>4. q = [run |-> Messages[i + 1], heard |-> Append(p.heard, Messages[i + 1])]
    BY <1>1, <2>1, <2>2, <2>3 DEF SendEvents
  <2>5. q.heard = SubSeq(Messages, first, i + 1) /\ q.run = Messages[i + 1]
    BY <1>1, <2>1, <2>4, OneMore
  <2> HIDE DEF q
  <2>6. i + 1 \in 1 .. i + 1 /\ ~(i + 1 < i + 1)
    OBVIOUS
  <2>7. Told(q, first, names, i + 1)
    BY <2>1, <2>5, <2>6 DEF Told
  <2>8. QED
    BY <2>7 DEF q
<1>4. QED
  BY <1>2, <1>3

\* A notice is not sent again.
LEMMA SendAgain ==
  ASSUME NEW p, NEW first, NEW names, NEW i \in 1 .. 4, Told(p, first, names, i)
  PROVE  SendEvents(p, Messages[i], names) = p
<1>1. PICK n \in 1 .. i :
        /\ p.run = Messages[n]
        /\ n < i => Messages[n] \in names
        /\ \A j \in 1 .. n - 1 : Messages[j] \notin names
  BY DEF Told
<1>2. KeyFound(Messages[i], names) = Messages[n]
  BY <1>1, KeyOfNotice
<1>3. QED
  BY <1>1, <1>2 DEF SendEvents

\* The notices of the first leg.
LEMMA ReportPickup ==
  ASSUME NEW p, NEW names, NEW first \in 1 .. 2,
         \/ p.heard = <<>> /\ first = IF p.run = "Picking" THEN 2 ELSE 1
         \/ Told(p, first, names, 1)
  PROVE  /\ Told(SendEvents(p, "Picking", names), first, names, 1)
         /\ Told(SendEvents(SendEvents(p, "Picking", names), "Picked", names), first, names, 2)
<1> DEFINE q == SendEvents(p, "Picking", names)
<1>1. Told(q, first, names, 1)
  <2>1. CASE Told(p, first, names, 1)
    <3>1. SendEvents(p, Messages[1], names) = p
      BY <2>1, SendAgain
    <3>2. QED
      BY <2>1, <3>1, MessageFacts
  <2>2. CASE p.heard = <<>> /\ first = IF p.run = "Picking" THEN 2 ELSE 1
    BY <2>2, SendFirst
  <2>3. QED
    BY <2>1, <2>2
<1> HIDE DEF q
<1>2. Told(SendEvents(q, Messages[1 + 1], names), first, names, 1 + 1)
  BY <1>1, SendNext
<1>3. Told(SendEvents(q, "Picked", names), first, names, 2)
  BY <1>2, MessageFacts
<1>4. QED
  BY <1>1, <1>3 DEF q

\* The notices of the second.
LEMMA ReportDelivery ==
  ASSUME NEW p, NEW names, NEW first \in 1 .. 2,
         Told(p, first, names, 2) \/ Told(p, first, names, 3)
  PROVE  /\ Told(SendEvents(p, "Delivering", names), first, names, 3)
         /\ Told(SendEvents(SendEvents(p, "Delivering", names), "Delivered", names),
                 first, names, 4)
<1> DEFINE q == SendEvents(p, "Delivering", names)
<1>1. Told(q, first, names, 3)
  <2>1. CASE Told(p, first, names, 2)
    <3>1. Told(SendEvents(p, Messages[2 + 1], names), first, names, 2 + 1)
      BY <2>1, SendNext
    <3>2. QED
      BY <3>1, MessageFacts
  <2>2. CASE Told(p, first, names, 3)
    <3>1. SendEvents(p, Messages[3], names) = p
      BY <2>2, SendAgain
    <3>2. QED
      BY <2>2, <3>1, MessageFacts
  <2>3. QED
    BY <2>1, <2>2
<1> HIDE DEF q
<1>2. Told(SendEvents(q, Messages[3 + 1], names), first, names, 3 + 1)
  BY <1>1, SendNext
<1>3. Told(SendEvents(q, "Delivered", names), first, names, 4)
  BY <1>2, MessageFacts
<1>4. QED
  BY <1>1, <1>3 DEF q

\* What the next trip starts with follows from how the last one ended.
LEMMA NextStart ==
  ASSUME TypeOK, NEW d \in Drones, available[d], Noticed(d)
  PROVE  (IF publisher[d].run = "Picking" THEN 2 ELSE 1) \in Starts(d)
<1>1. CASE publisher[d].run # "Picking"
  BY <1>1 DEF Starts
<1>2. CASE publisher[d].run = "Picking"
  <2>1. PICK r \in delivered, first \in Starts(d) : Told(publisher[d], first, Mentioned(d, r), 4)
    BY <1>2 DEF Noticed
  <2>2. PICK n \in 1 .. 4 : /\ publisher[d].run = Messages[n]
                            /\ n < 4 => Messages[n] \in Mentioned(d, r)
    BY <2>1 DEF Told
  <2>3. "Picking" \in Mentioned(d, r)
    BY <1>2, <2>2, MessageFacts
  <2>4. QED
    BY <1>2, <2>3 DEF Starts
<1>3. QED
  BY <1>1, <1>2

\* A drone that a step leaves alone keeps its notices, as delivered grows.
LEMMA NoticedKept ==
  ASSUME NEW e \in Drones, Noticed(e), delivered \subseteq delivered',
         publisher'[e] = publisher[e], available'[e] = available[e],
         toRobot'[e] = toRobot[e], nearestEntity'[e] = nearestEntity[e]
  PROVE  Noticed(e)'
<1>1. Starts(e) \subseteq Starts(e)'
  BY DEF Starts, Mentioned
<1>2. QED
  BY <1>1 DEF Noticed, Told, Mentioned

\* An update of drone d keeps the notices in step with the trips.
LEMMA NoticeStep ==
  ASSUME Inv, Inv', AllNoticed, NEW d \in Drones, DroneUpdate(d)
  PROVE  AllNoticed'
<1> USE DEF Inv
<1>1. CASE Hover(d)
  BY <1>1, NoticedKept DEF Hover, droneVars, AllNoticed
<1>2. CASE Dispatch(d)
  <2> DEFINE p == [publisher[d] EXCEPT !.heard = <<>>]
             first == IF publisher[d].run = "Picking" THEN 2 ELSE 1
  <2>1. PICK r \in Waiting, n \in 0 .. MaxLen :
          /\ available' = [available EXCEPT ![d] = FALSE]
          /\ nearestEntity' = [nearestEntity EXCEPT ![d] = r]
          /\ FlyToRobot(d, r, Beeline(n), p)
    BY <1>2 DEF Dispatch
  <2> DEFINE names == Mentioned(d, r)
             on == forecast = "snow"
  <2>2. p.heard = <<>> /\ p.run = publisher[d].run
    <3>1. publisher[d] \in Reports
      BY DEF TypeOK, Reports, MessageKinds
    <3>2. QED
      BY <3>1 DEF Reports
  <2>3. first \in Starts(d) /\ first \in 1 .. 2
    BY <1>2, NextStart DEF Dispatch, AllNoticed
  <2> HIDE DEF p
  <2>4. PICK moved \in Plans, arrived \in BOOLEAN :
          /\ moved.route = IF Reverts(d, on) THEN "beeline"
                           ELSE IF Replans(d, on) THEN "astar" ELSE Beeline(n).route
          /\ toRobot' = [toRobot EXCEPT ![d] = IF arrived THEN NoStrategy ELSE moved]
          /\ pickedUp' = [pickedUp EXCEPT ![d] = arrived]
          /\ publisher' = [publisher EXCEPT ![d] =
                IF arrived THEN SendEvents(SendEvents(p, "Picking", names), "Picked", names)
                ELSE SendEvents(p, "Picking", names)]
          /\ SetFlags(d, on, arrived)
    <3>1. Beeline(n) \in Plans
      BY BuildTypes
    <3>2. QED
      BY <2>1, <3>1, PickupLeg
  <2>5. /\ arrived => Told(publisher'[d], first, names, 2)
        /\ ~arrived => Told(publisher'[d], first, names, 1)
    <3>1. first = IF p.run = "Picking" THEN 2 ELSE 1
      BY <2>2
    <3> HIDE DEF first, names
    <3>2. /\ Told(SendEvents(p, "Picking", names), first, names, 1)
          /\ Told(SendEvents(SendEvents(p, "Picking", names), "Picked", names), first, names, 2)
      BY <2>2, <2>3, <3>1, ReportPickup
    <3>3. QED
      BY <2>4, <3>2 DEF TypeOK
  <2>6. /\ ~available'[d] /\ (arrived <=> toRobot'[d] = NoStrategy)
        /\ nearestEntity'[d] = r
    BY <2>1, <2>4 DEF TypeOK, Phases
  <2>7. UNCHANGED delivered /\ Starts(d)' = Starts(d)
    BY <1>2 DEF Dispatch, Starts, Mentioned
  <2>8. Noticed(d)'
    <3> HIDE DEF first
    <3>1. first \in Starts(d)' /\ Mentioned(d, nearestEntity'[d]) = names
      BY <2>3, <2>6, <2>7
    <3>2. QED
      BY <2>5, <2>6, <3>1 DEF Noticed
  <2>9. ASSUME NEW e \in Drones, e # d PROVE Noticed(e)'
    BY <2>1, <2>4, <2>7, <2>9, NoticedKept DEF AllNoticed, TypeOK
  <2>10. QED
    BY <2>8, <2>9 DEF AllNoticed
<1>3. CASE Approach(d)
  <2> DEFINE p == publisher[d]
             names == Mentioned(d, nearestEntity[d])
             on == forecast = "snow"
  <2>1. PICK first \in Starts(d) : Told(p, first, names, 1)
    BY <1>3 DEF Approach, AllNoticed, Noticed
  <2>2. PICK moved \in Plans, arrived \in BOOLEAN :
          /\ moved.route = IF Reverts(d, on) THEN "beeline"
                           ELSE IF Replans(d, on) THEN "astar" ELSE toRobot[d].route
          /\ toRobot' = [toRobot EXCEPT ![d] = IF arrived THEN NoStrategy ELSE moved]
          /\ pickedUp' = [pickedUp EXCEPT ![d] = arrived]
          /\ publisher' = [publisher EXCEPT ![d] =
                IF arrived THEN SendEvents(SendEvents(p, "Picking", names), "Picked", names)
                ELSE SendEvents(p, "Picking", names)]
          /\ SetFlags(d, on, arrived)
    <3>1. toRobot[d] \in Plans /\ FlyToRobot(d, nearestEntity[d], toRobot[d], p)
      BY <1>3 DEF Approach, TypeOK, Plans
    <3>2. QED
      BY <3>1, PickupLeg
  <2>3. /\ arrived => Told(publisher'[d], first, names, 2)
        /\ ~arrived => Told(publisher'[d], first, names, 1)
    <3> HIDE DEF p, names
    <3>1. first \in 1 .. 2
      BY DEF Starts
    <3>2. /\ Told(SendEvents(p, "Picking", names), first, names, 1)
          /\ Told(SendEvents(SendEvents(p, "Picking", names), "Picked", names), first, names, 2)
      BY <2>1, <3>1, ReportPickup
    <3>3. QED
      BY <2>2, <3>2 DEF TypeOK
  <2>4. ~available'[d] /\ (arrived <=> toRobot'[d] = NoStrategy)
    BY <1>3, <2>2 DEF Approach, TypeOK, Phases
  <2>5. UNCHANGED <<delivered, available, nearestEntity>> /\ Starts(d)' = Starts(d)
    BY <1>3 DEF Approach, Starts, Mentioned
  <2>6. Noticed(d)'
    BY <2>3, <2>4, <2>5 DEF Noticed
  <2>7. ASSUME NEW e \in Drones, e # d PROVE Noticed(e)'
    BY <2>2, <2>5, <2>7, NoticedKept DEF AllNoticed, TypeOK
  <2>8. QED
    BY <2>6, <2>7 DEF AllNoticed
<1>4. CASE FlyToFinal(d)
  <2> DEFINE p == publisher[d]
             names == Mentioned(d, nearestEntity[d])
  <2>1. pickedUp[d] /\ nearestEntity[d] # NoEntity
    BY <1>4 DEF FlyToFinal, Phases
  <2>2. PICK first \in Starts(d) : Told(p, first, names, 2) \/ Told(p, first, names, 3)
    BY <1>4 DEF FlyToFinal, AllNoticed, Noticed
  <2>3. PICK moved \in Plans, arrived \in BOOLEAN :
          /\ delivered' = IF arrived THEN delivered \cup {nearestEntity[d]} ELSE delivered
          /\ nearestEntity' = [nearestEntity EXCEPT ![d] = IF arrived THEN NoEntity ELSE @]
          /\ available' = [available EXCEPT ![d] = arrived]
          /\ publisher' = [publisher EXCEPT ![d] =
                IF arrived THEN SendEvents(SendEvents(p, "Delivering", names), "Delivered", names)
                ELSE SendEvents(p, "Delivering", names)]
    BY <1>4, <2>1, DeliveryLeg
  <2>4. /\ arrived => Told(publisher'[d], first, names, 4)
        /\ ~arrived => Told(publisher'[d], first, names, 3)
    <3> HIDE DEF p, names
    <3>1. first \in 1 .. 2
      BY DEF Starts
    <3>2. /\ Told(SendEvents(p, "Delivering", names), first, names, 3)
          /\ Told(SendEvents(SendEvents(p, "Delivering", names), "Delivered", names),
                  first, names, 4)
      BY <2>2, <3>1, ReportDelivery
    <3>3. QED
      BY <2>3, <3>2 DEF TypeOK
  <2>5. (available'[d] <=> arrived) /\ toRobot'[d] = NoStrategy /\ UNCHANGED toRobot
    BY <1>4, <2>3 DEF FlyToFinal, TypeOK
  <2>6. /\ delivered \subseteq delivered' /\ Starts(d) \subseteq Starts(d)'
        /\ arrived => nearestEntity[d] \in delivered'
        /\ ~arrived => nearestEntity'[d] = nearestEntity[d]
    BY <2>3 DEF Starts, Mentioned, TypeOK
  <2>7. Noticed(d)'
    <3>1. first \in Starts(d)'
      BY <2>6
    <3>2. CASE arrived
      BY <2>4, <2>5, <2>6, <3>1, <3>2 DEF Noticed
    <3>3. CASE ~arrived
      <4>1. Told(publisher'[d], first, Mentioned(d, nearestEntity'[d]), 3)
        BY <2>4, <2>6, <3>3
      <4>2. QED
        BY <2>5, <3>1, <3>3, <4>1 DEF Noticed
    <3>4. QED
      BY <3>2, <3>3
  <2>8. ASSUME NEW e \in Drones, e # d PROVE Noticed(e)'
    BY <2>3, <2>5, <2>6, <2>8, NoticedKept DEF AllNoticed, TypeOK
  <2>9. QED
    BY <2>7, <2>8 DEF AllNoticed
<1>5. QED
  BY <1>1, <1>2, <1>3, <1>4 DEF DroneUpdate

\* The passenger hears of the stages of the trip in order and of none twice,
\* although the publisher is told of them in every tick; and what the passenger
\* does not hear of is told exactly, for any names: the notices after the first
\* whose key is in a name, and a first notice after a trip that ended so.
THEOREM TripsAreReported == Spec => []TripIsReported
<1>1. Init => AllNoticed
  BY DEF Init, AllNoticed, Noticed
<1>2. Inv /\ Inv' /\ AllNoticed /\ [Next]_vars => AllNoticed'
  <2> SUFFICES ASSUME Inv, Inv', AllNoticed, [Next]_vars PROVE AllNoticed'
    OBVIOUS
  <2>1. ASSUME NEW d \in Drones, DroneUpdate(d) PROVE AllNoticed'
    BY <2>1, NoticeStep
  <2>2. CASE ~\E d \in Drones : DroneUpdate(d)
    <3>1. UNCHANGED <<droneVars, delivered>>
      BY <2>2 DEF Next, CreateDrone, CreateRobot, ScheduleTrip, Tick, TornadoErase, vars
    <3>2. QED
      BY <3>1, NoticedKept DEF droneVars, AllNoticed
  <2>3. QED
    BY <2>1, <2>2
<1>3. ASSUME NEW d \in Drones, NEW r, NEW i \in 1 .. 4, NEW first \in Starts(d),
             Told(publisher[d], first, Mentioned(d, r), i)
      PROVE  Reported(d, r, i)
  BY <1>3 DEF Told, Starts, Reported
<1>4. AllNoticed => TripIsReported
  <2> SUFFICES ASSUME AllNoticed, NEW d \in Drones
               PROVE  /\ available[d] => \/ publisher[d] = [run |-> "none", heard |-> <<>>]
                                         \/ \E r \in delivered : Reported(d, r, 4)
                      /\ toRobot[d] # NoStrategy => Reported(d, nearestEntity[d], 1)
                      /\ ~available[d] /\ toRobot[d] = NoStrategy =>
                           Reported(d, nearestEntity[d], 2) \/ Reported(d, nearestEntity[d], 3)
    BY DEF TripIsReported
  <2>1. Noticed(d)
    BY DEF AllNoticed
  <2>2. available[d] => \/ publisher[d] = [run |-> "none", heard |-> <<>>]
                        \/ \E r \in delivered : Reported(d, r, 4)
    BY <1>3, <2>1 DEF Noticed
  <2>3. toRobot[d] # NoStrategy => Reported(d, nearestEntity[d], 1)
    BY <1>3, <2>1 DEF Noticed
  <2>4. ~available[d] /\ toRobot[d] = NoStrategy =>
          Reported(d, nearestEntity[d], 2) \/ Reported(d, nearestEntity[d], 3)
    BY <1>3, <2>1 DEF Noticed
  <2>5. QED
    BY <2>2, <2>3, <2>4
<1>5. QED
  BY <1>1, <1>2, <1>4, Invariance, PTL DEF Spec

-----------------------------------------------------------------------------
(* Fleet implements TripService.                                           *)

\* The drone that holds a robot is its carrier.
LEMMA CarrierFacts ==
  ASSUME Custody, NEW r \in Robots
  PROVE  /\ \A d \in Drones : nearestEntity[d] = r => CarrierOf(r) = d
         /\ (\A d \in Drones : nearestEntity[d] # r) => CarrierOf(r) = NoEntity
<1>1. r # NoEntity
  BY FleetAssumption
<1>2. ASSUME NEW d \in Drones, nearestEntity[d] = r PROVE CarrierOf(r) = d
  <2>1. \A e \in Drones : nearestEntity[e] = r <=> e = d
    BY <1>1, <1>2 DEF Custody
  <2>2. QED
    BY <1>2, <2>1 DEF CarrierOf
<1>3. QED
  BY <1>2 DEF CarrierOf

\* A step that leaves the hands of the drones, the schedule and the scene as
\* they are, or takes delivered robots out of the scene, is invisible.
LEMMA Invisible ==
  ASSUME Inv, UNCHANGED <<nearestEntity, pickedUp, delivered>>,
         \A r \in Robots \ delivered :
           /\ r \in ToSet(parked)' <=> r \in ToSet(parked)
           /\ r \in ToSet(scheduler)' <=> r \in ToSet(scheduler)
  PROVE  UNCHANGED Service!vars
<1>1. ASSUME NEW r \in Robots PROVE StageOf(r)' = StageOf(r) /\ CarrierOf(r)' = CarrierOf(r)
  BY DEF StageOf, CarrierOf
<1>2. QED
  BY <1>1 DEF Service!vars

\* A step that changes the stage of one robot alone advances it.
LEMMA AdvanceByPoints ==
  ASSUME NEW r \in Robots, NEW from, NEW to, StageOf(r) = from, StageOf(r)' = to,
         \A q \in Robots \ {r} : StageOf(q)' = StageOf(q)
  PROVE  Service!Advance(r, from, to)
BY DEF Service!Advance

\* A new robot arrives.
LEMMA CreateRobotServes ==
  ASSUME Inv, NEW r \in Robots, CreateRobot(r)
  PROVE  Service!Arrive(r)
<1> USE DEF CreateRobot, droneVars, weatherVars
<1>1. ToSet(parked)' = ToSet(parked) \cup {r}
  BY AppendToSet DEF Inv, TypeOK
<1>2. /\ r \notin ToSet(parked) /\ r \notin ToSet(scheduler) /\ r \notin delivered
      /\ \A d \in Drones : nearestEntity[d] # r
  BY FleetAssumption DEF Inv, Custody, CarriedRobotIsSafe
<1>3. StageOf(r) = "absent" /\ StageOf(r)' = "parked"
  BY <1>1, <1>2 DEF StageOf
<1>4. \A q \in Robots \ {r} : StageOf(q)' = StageOf(q)
  BY <1>1 DEF StageOf
<1>5. \A q \in Robots : CarrierOf(q)' = CarrierOf(q)
  BY DEF CarrierOf
<1>6. QED
  BY <1>3, <1>4, <1>5, AdvanceByPoints DEF Service!Arrive

\* A booking requests a trip for the robot it matches, if that has none yet.
LEMMA ScheduleTripServes ==
  ASSUME Inv, NEW b \in Robots, ScheduleTrip(b)
  PROVE  (\E r \in Robots : Service!Request(r)) \/ UNCHANGED Service!vars
<1> USE DEF ScheduleTrip, droneVars, weatherVars
<1>1. CASE UNCHANGED scheduler
  BY <1>1, Invisible
<1>2. ASSUME NEW i \in Matches(b), scheduler' = Append(scheduler, parked[i])
      PROVE  (\E r \in Robots : Service!Request(r)) \/ UNCHANGED Service!vars
  <2>1. PICK r \in Robots : r = parked[i] /\ r \in ToSet(parked) /\ r \in free
    BY <1>2, ToSetPositions DEF Matches, Inv, TypeOK
  <2>2. ToSet(scheduler)' = ToSet(scheduler) \cup {r}
    BY <1>2, <2>1, AppendToSet DEF Inv, TypeOK
  <2>3. r \notin delivered /\ \A d \in Drones : nearestEntity[d] # r
    BY <2>1, FleetAssumption DEF Inv, Custody, CarriedRobotIsSafe
  <2>4. CASE r \in ToSet(scheduler)
    BY <2>2, <2>4, Invisible
  <2>5. CASE r \notin ToSet(scheduler)
    <3>1. r \in ToSet(scheduler)'
      BY <2>2
    <3>2. UNCHANGED <<parked, delivered, nearestEntity, pickedUp>>
      OBVIOUS
    <3>3. StageOf(r) = "parked"
      BY <2>1, <2>3, <2>5 DEF StageOf
    <3>4. StageOf(r)' = "waiting"
      BY <2>3, <3>1, <3>2 DEF StageOf
    <3>5. \A q \in Robots \ {r} : StageOf(q)' = StageOf(q)
      BY <2>2, <3>2 DEF StageOf
    <3>6. \A q \in Robots : CarrierOf(q)' = CarrierOf(q)
      BY DEF CarrierOf
    <3>7. Service!Advance(r, "parked", "waiting")
      BY <2>1, <3>3, <3>4, <3>5, AdvanceByPoints
    <3>8. Service!Request(r)
      BY <3>6, <3>7 DEF Service!Request
    <3>9. QED
      BY <2>1, <3>8
  <2>6. QED
    BY <2>4, <2>5
<1>3. QED
  BY <1>1, <1>2

\* The drone that takes a robot is assigned to it.
LEMMA DispatchServes ==
  ASSUME Inv, Inv', NEW d \in Drones, Dispatch(d)
  PROVE  \E r \in Robots : Service!Assign(r, d)
<1> USE DEF Inv
<1>1. PICK r \in Waiting, n \in 0 .. MaxLen :
        /\ nearestEntity' = [nearestEntity EXCEPT ![d] = r]
        /\ FlyToRobot(d, r, Beeline(n), [publisher[d] EXCEPT !.heard = <<>>])
  BY DEF Dispatch
<1>2. PICK arrived \in BOOLEAN : pickedUp' = [pickedUp EXCEPT ![d] = arrived]
  <2> DEFINE p == [publisher[d] EXCEPT !.heard = <<>>]
  <2>1. Beeline(n) \in Plans /\ FlyToRobot(d, r, Beeline(n), p)
    BY <1>1, BuildTypes
  <2> HIDE DEF p
  <2>2. QED
    BY <2>1, PickupLeg
<1>3. /\ r \in Robots /\ r \in free /\ r \in ToSet(scheduler) /\ r \notin delivered
      /\ r # NoEntity /\ nearestEntity[d] = NoEntity
      /\ \A e \in Drones : nearestEntity[e] # r
  BY FleetAssumption DEF Waiting, Dispatch, TypeOK, Phases, Custody, CarriedRobotIsSafe
<1>4. StageOf(r) = "waiting" /\ StageOf(r)' \in {"assigned", "riding"}
  BY <1>1, <1>2, <1>3 DEF Dispatch, StageOf, TypeOK
<1>5. ASSUME NEW q \in Robots \ {r} PROVE StageOf(q)' = StageOf(q)
  <2>1. \A e \in Drones : nearestEntity'[e] = q <=> nearestEntity[e] = q
    BY <1>1, <1>3, FleetAssumption DEF TypeOK
  <2>2. \A e \in Drones : nearestEntity[e] = q => (pickedUp'[e] <=> pickedUp[e])
    BY <1>2, <1>3, FleetAssumption DEF TypeOK
  <2>3. QED
    BY <2>1, <2>2 DEF Dispatch, StageOf
<1>6. ASSUME NEW q \in Robots PROVE CarrierOf(q)' = IF q = r THEN d ELSE CarrierOf(q)
  <2>1. CASE q = r
    <3>1. nearestEntity'[d] = r
      BY <1>1 DEF TypeOK
    <3>2. \A e \in Drones : nearestEntity'[e] = r <=> e = d
      BY <1>1, <1>3, <3>1 DEF TypeOK
    <3>3. QED
      BY <2>1, <3>1, <3>2 DEF CarrierOf
  <2>2. CASE q # r
    <3>1. \A e \in Drones : nearestEntity'[e] = q <=> nearestEntity[e] = q
      BY <1>1, <1>3, <2>2, FleetAssumption DEF TypeOK
    <3>2. QED
      BY <2>2, <3>1 DEF CarrierOf
  <2>3. QED
    BY <2>1, <2>2
<1>7. \A q \in Robots : CarrierOf(q) # d
  BY <1>3, FleetAssumption DEF CarrierOf
<1>8. Service!Advance(r, "waiting", "assigned") \/ Service!Advance(r, "waiting", "riding")
  BY <1>3, <1>4, <1>5, AdvanceByPoints
<1>9. QED
  BY <1>3, <1>6, <1>7, <1>8 DEF Service!Assign, Service!Idle

\* A drone on its way picks its robot up or is not there yet.
LEMMA ApproachServes ==
  ASSUME Inv, Inv', NEW d \in Drones, Approach(d)
  PROVE  (\E r \in Robots : Service!PickUp(r)) \/ UNCHANGED Service!vars
<1> USE DEF Inv
<1>1. PICK arrived \in BOOLEAN : pickedUp' = [pickedUp EXCEPT ![d] = arrived]
  <2>1. toRobot[d] \in Plans /\ FlyToRobot(d, nearestEntity[d], toRobot[d], publisher[d])
    BY DEF Approach, TypeOK, Plans
  <2>2. QED
    BY <2>1, PickupLeg
<1>2. PICK r \in Robots : nearestEntity[d] = r /\ ~pickedUp[d] /\ r \notin delivered
  BY DEF Approach, TypeOK, Phases, Custody, CarriedRobotIsSafe
<1>3. UNCHANGED <<nearestEntity, delivered, parked, scheduler>>
  BY DEF Approach, robotVars
<1>4. CASE ~arrived
  <2>1. pickedUp' = pickedUp
    BY <1>1, <1>2, <1>4 DEF TypeOK
  <2>2. QED
    BY <1>3, <2>1, Invisible
<1>5. CASE arrived
  <2>1. \A e \in Drones : nearestEntity[e] = r <=> e = d
    BY <1>2, FleetAssumption DEF Custody
  <2>2. pickedUp'[d] /\ \A e \in Drones \ {d} : pickedUp'[e] = pickedUp[e]
    BY <1>1, <1>5 DEF TypeOK
  <2>3. StageOf(r) = "assigned"
    BY <1>2, <2>1 DEF StageOf
  <2>4. StageOf(r)' = "riding"
    BY <1>2, <1>3, <2>1, <2>2 DEF StageOf
  <2>5. \A q \in Robots \ {r} : StageOf(q)' = StageOf(q)
    BY <1>2, <1>3, <2>2 DEF StageOf
  <2>6. \A q \in Robots : CarrierOf(q)' = CarrierOf(q)
    BY <1>3 DEF CarrierOf
  <2>7. Service!PickUp(r)
    BY <2>3, <2>4, <2>5, <2>6, AdvanceByPoints DEF Service!PickUp
  <2>8. QED
    BY <2>7
<1>6. QED
  BY <1>4, <1>5

\* A drone with a robot aboard delivers it or is not there yet.
LEMMA FlyToFinalServes ==
  ASSUME Inv, Inv', NEW d \in Drones, FlyToFinal(d)
  PROVE  (\E r \in Robots : Service!Deliver(r)) \/ UNCHANGED Service!vars
<1> USE DEF Inv
<1>1. PICK arrived \in BOOLEAN :
        /\ delivered' = IF arrived THEN delivered \cup {nearestEntity[d]} ELSE delivered
        /\ nearestEntity' = [nearestEntity EXCEPT ![d] = IF arrived THEN NoEntity ELSE @]
        /\ pickedUp' = [pickedUp EXCEPT ![d] = ~arrived /\ @]
  BY DeliveryLeg
<1>2. PICK r \in Robots : nearestEntity[d] = r /\ pickedUp[d] /\ r \notin delivered
  BY DEF FlyToFinal, TypeOK, Phases, Custody, CarriedRobotIsSafe
<1>3. UNCHANGED <<parked, scheduler>>
  BY DEF FlyToFinal, robotVars
<1>4. CASE ~arrived
  <2>1. UNCHANGED <<nearestEntity, delivered>>
    BY <1>1, <1>4 DEF TypeOK
  <2>2. pickedUp' = pickedUp
    <3>1. pickedUp \in [Drones -> BOOLEAN] /\ pickedUp[d] = TRUE
      BY <1>2 DEF TypeOK
    <3>2. (~arrived /\ pickedUp[d]) = TRUE
      BY <1>4, <3>1
    <3>3. pickedUp' = [pickedUp EXCEPT ![d] = TRUE]
      BY <1>1, <3>2
    <3>4. QED
      BY <3>1, <3>3
  <2>3. QED
    BY <1>3, <2>1, <2>2, Invisible
<1>5. CASE arrived
  <2>1. \A e \in Drones : nearestEntity[e] = r <=> e = d
    BY <1>2, FleetAssumption DEF Custody
  <2>2. /\ delivered' = delivered \cup {r}
        /\ nearestEntity'[d] = NoEntity
        /\ \A e \in Drones \ {d} : nearestEntity'[e] = nearestEntity[e] /\ pickedUp'[e] = pickedUp[e]
    BY <1>1, <1>2, <1>5 DEF TypeOK
  <2>3. StageOf(r) = "riding" /\ StageOf(r)' = "delivered"
    BY <1>2, <2>1, <2>2 DEF StageOf
  <2>4. ASSUME NEW q \in Robots \ {r}
        PROVE  \A e \in Drones :
                 /\ nearestEntity'[e] = q <=> nearestEntity[e] = q
                 /\ nearestEntity[e] = q => (pickedUp'[e] <=> pickedUp[e])
    BY <1>2, <2>2, FleetAssumption
  <2>5. \A q \in Robots \ {r} : StageOf(q)' = StageOf(q)
    BY <1>3, <2>2, <2>4 DEF StageOf
  <2>6. ASSUME NEW q \in Robots
        PROVE  CarrierOf(q)' = IF q = r THEN NoEntity ELSE CarrierOf(q)
    <3>1. CASE q = r
      <4>1. \A e \in Drones : nearestEntity'[e] # r
        BY <2>1, <2>2, FleetAssumption
      <4>2. QED
        BY <3>1, <4>1 DEF CarrierOf
    <3>2. CASE q # r
      <4>1. \A e \in Drones : nearestEntity'[e] = q <=> nearestEntity[e] = q
        BY <2>4, <3>2
      <4>2. QED
        BY <3>2, <4>1 DEF CarrierOf
    <3>3. QED
      BY <3>1, <3>2
  <2>7. Service!Deliver(r)
    BY <2>3, <2>5, <2>6, AdvanceByPoints DEF Service!Deliver
  <2>8. QED
    BY <2>7
<1>6. QED
  BY <1>4, <1>5

\* The tornado takes robots whose trip is over.
LEMMA TornadoEraseServes ==
  ASSUME Inv, TornadoErase
  PROVE  UNCHANGED Service!vars
<1> USE DEF TornadoErase, droneVars, weatherVars
<1>1. \A r \in Robots \ delivered : r \in ToSet(parked)' <=> r \in ToSet(parked)
  BY TornadoScene
<1>2. QED
  BY <1>1, Invisible

\* Whatever the weather does, every trip goes through its stages in order, with
\* one drone, and no drone is given a second robot before it has delivered the
\* first.
THEOREM ImplementsTripService == Spec => ServesTrips
<1>1. Init => Service!Init
  <2> SUFFICES ASSUME Init PROVE Service!Init
    OBVIOUS
  <2>1. ToSet(<<>>) = {}
    BY DEF ToSet
  <2>2. ASSUME NEW r \in Robots PROVE StageOf(r) = "absent" /\ CarrierOf(r) = NoEntity
    BY <2>1, FleetAssumption DEF Init, StageOf, CarrierOf
  <2>3. QED
    BY <2>2 DEF Service!Init
<1>2. Inv /\ Inv' /\ [Next]_vars => [Service!Next]_(Service!vars)
  <2> SUFFICES ASSUME Inv, Inv', [Next]_vars
               PROVE  Service!Next \/ UNCHANGED Service!vars
    OBVIOUS
  <2>1. ASSUME NEW d \in Drones, CreateDrone(d) PROVE UNCHANGED Service!vars
    BY <2>1, Invisible DEF CreateDrone, droneVars, robotVars
  <2>2. ASSUME NEW d \in Drones, DroneUpdate(d)
        PROVE  Service!Next \/ UNCHANGED Service!vars
    <3>1. CASE Hover(d)
      BY <3>1, Invisible DEF Hover, droneVars, robotVars
    <3>2. CASE Dispatch(d)
      BY <3>2, DispatchServes DEF Service!Next
    <3>3. CASE Approach(d)
      BY <3>3, ApproachServes DEF Service!Next
    <3>4. CASE FlyToFinal(d)
      BY <3>4, FlyToFinalServes DEF Service!Next
    <3>5. QED
      BY <2>2, <3>1, <3>2, <3>3, <3>4 DEF DroneUpdate
  <2>3. ASSUME NEW r \in Robots, CreateRobot(r) PROVE Service!Next
    BY <2>3, CreateRobotServes DEF Service!Next
  <2>4. ASSUME NEW r \in Robots, ScheduleTrip(r)
        PROVE  Service!Next \/ UNCHANGED Service!vars
    BY <2>4, ScheduleTripServes DEF Service!Next
  <2>5. CASE Tick
    BY <2>5, Invisible DEF Tick, droneVars, robotVars
  <2>6. CASE TornadoErase
    BY <2>6, TornadoEraseServes
  <2>7. CASE UNCHANGED vars
    BY <2>7, Invisible DEF vars, droneVars, robotVars
  <2>8. QED
    BY <2>1, <2>2, <2>3, <2>4, <2>5, <2>6, <2>7 DEF Next
<1>3. QED
  BY <1>1, <1>2, Invariance, PTL DEF Spec, ServesTrips, Service!Spec

-----------------------------------------------------------------------------
(* Bookings of a name and robots of that name.                             *)

\* The robots of S that have the name of b.
Named(S, b) == {r \in S : Name[r] = Name[b]}

\* A robot that is not in the scheduler is free and, once created, in the
\* scene; and of no name are more robots in the scheduler than bookings of
\* that name have been confirmed.
Bookings ==
  /\ awaiting \cap confirmed = {}
  /\ Robots \ ToSet(scheduler) \subseteq free
  /\ (awaiting \cup confirmed) \ ToSet(scheduler) \subseteq ToSet(parked)
  /\ \A b \in Robots :
       Cardinality(Named(ToSet(scheduler), b)) <= Cardinality(Named(confirmed, b))

\* Robots of a name can be counted, and there are no fewer in a larger set.
LEMMA NamedFinite ==
  ASSUME NEW S \in SUBSET Robots, NEW T \in SUBSET S, NEW b
  PROVE  /\ IsFiniteSet(Named(S, b)) /\ Cardinality(Named(S, b)) \in Nat
         /\ Cardinality(Named(T, b)) \in Nat
         /\ Cardinality(Named(T, b)) <= Cardinality(Named(S, b))
<1>1. IsFiniteSet(Named(S, b))
  <2>1. Named(S, b) \in SUBSET Robots
    BY DEF Named
  <2>2. QED
    BY <2>1, FleetAssumption, FS_Subset
<1>2. Named(T, b) \in SUBSET Named(S, b)
  BY DEF Named
<1>3. QED
  BY <1>1, <1>2, FS_Subset, FS_CardinalityType

\* One robot more of the name counts once, if it is not yet among them.
LEMMA NamedAdd ==
  ASSUME NEW S \in SUBSET Robots, NEW r \in Robots, NEW b, Name[r] = Name[b]
  PROVE  Cardinality(Named(S \cup {r}, b)) =
           IF r \in S THEN Cardinality(Named(S, b)) ELSE Cardinality(Named(S, b)) + 1
<1>1. Named(S \cup {r}, b) = Named(S, b) \cup {r}
  BY DEF Named
<1>2. r \in Named(S, b) <=> r \in S
  BY DEF Named
<1>3. IsFiniteSet(Named(S, b))
  BY NamedFinite
<1>4. QED
  BY <1>1, <1>2, <1>3, FS_AddElement

\* A robot of another name does not count.
LEMMA NamedOther ==
  ASSUME NEW S, NEW r, NEW b, Name[r] # Name[b]
  PROVE  Named(S \cup {r}, b) = Named(S, b)
BY DEF Named

\* A booking takes one robot of its name at most.
LEMMA ScheduleTripCounts ==
  ASSUME Inv, Bookings, NEW b \in Robots, ScheduleTrip(b)
  PROVE  Bookings'
<1> USE DEF ScheduleTrip
<1>1. /\ confirmed \in SUBSET Robots /\ ToSet(scheduler) \in SUBSET Robots
      /\ b \notin confirmed /\ confirmed' = confirmed \cup {b} /\ confirmed' \in SUBSET Robots
  BY ToSetPositions DEF Inv, TypeOK, Bookings
<1>2. awaiting' \cap confirmed' = {} /\ awaiting' \cup confirmed' = awaiting \cup confirmed
  BY DEF Bookings
<1>3. CASE UNCHANGED scheduler
  <2>1. ASSUME NEW c \in Robots
        PROVE  Cardinality(Named(ToSet(scheduler), c)) <= Cardinality(Named(confirmed', c))
    <3>1. Cardinality(Named(ToSet(scheduler), c)) \in Nat
      BY <1>1, NamedFinite
    <3>2. /\ Cardinality(Named(confirmed', c)) \in Nat /\ Cardinality(Named(confirmed, c)) \in Nat
          /\ Cardinality(Named(confirmed, c)) <= Cardinality(Named(confirmed', c))
      BY <1>1, NamedFinite
    <3>3. QED
      BY <3>1, <3>2 DEF Bookings
  <2>2. QED
    BY <1>2, <1>3, <2>1 DEF Bookings, Named
<1>4. ASSUME NEW i \in Matches(b), scheduler' = Append(scheduler, parked[i])
      PROVE  Bookings'
  <2>1. parked[i] \in Robots /\ Name[parked[i]] = Name[b]
    BY <1>4, ToSetPositions DEF Matches, Inv, TypeOK
  <2>2. ToSet(scheduler') = ToSet(scheduler) \cup {parked[i]}
    BY <1>4, <2>1, AppendToSet DEF Inv, TypeOK
  <2>3. ASSUME NEW c \in Robots
        PROVE  Cardinality(Named(ToSet(scheduler'), c)) <= Cardinality(Named(confirmed', c))
    <3>1. /\ Cardinality(Named(ToSet(scheduler), c)) \in Nat
          /\ Cardinality(Named(confirmed, c)) \in Nat
          /\ Cardinality(Named(ToSet(scheduler), c)) <= Cardinality(Named(confirmed, c))
      BY <1>1, NamedFinite DEF Bookings
    <3>2. CASE Name[c] = Name[b]
      <4>1. Cardinality(Named(confirmed', c)) = Cardinality(Named(confirmed, c)) + 1
        <5>1. Cardinality(Named(confirmed \cup {b}, c)) = Cardinality(Named(confirmed, c)) + 1
          BY <1>1, <3>2, NamedAdd
        <5>2. QED
          BY <1>1, <5>1
      <4>2. Cardinality(Named(ToSet(scheduler) \cup {parked[i]}, c))
              <= Cardinality(Named(ToSet(scheduler), c)) + 1
        <5>1. Name[parked[i]] = Name[c]
          BY <2>1, <3>2
        <5>2. Cardinality(Named(ToSet(scheduler) \cup {parked[i]}, c))
                = IF parked[i] \in ToSet(scheduler)
                  THEN Cardinality(Named(ToSet(scheduler), c))
                  ELSE Cardinality(Named(ToSet(scheduler), c)) + 1
          BY <1>1, <2>1, <5>1, NamedAdd
        <5>3. QED
          BY <3>1, <5>2
      <4>3. Cardinality(Named(ToSet(scheduler'), c)) = Cardinality(Named(ToSet(scheduler) \cup {parked[i]}, c))
        BY <2>2
      <4>4. Cardinality(Named(ToSet(scheduler) \cup {parked[i]}, c)) \in Nat
        <5>1. ToSet(scheduler) \cup {parked[i]} \in SUBSET Robots
          BY <1>1, <2>1
        <5>2. QED
          BY <5>1, NamedFinite
      <4>5. QED
        BY <3>1, <4>1, <4>2, <4>3, <4>4
    <3>3. CASE Name[c] # Name[b]
      <4>1. Named(confirmed \cup {b}, c) = Named(confirmed, c)
        BY <3>3, NamedOther
      <4>2. Named(ToSet(scheduler) \cup {parked[i]}, c) = Named(ToSet(scheduler), c)
        BY <2>1, <3>3, NamedOther
      <4>3. QED
        BY <1>1, <2>2, <3>1, <4>1, <4>2
    <3>4. QED
      BY <3>2, <3>3
  <2>4. QED
    BY <1>2, <2>2, <2>3 DEF Bookings, Named
<1>5. QED
  BY <1>3, <1>4

\* A drone only takes a robot that is in the scheduler.
LEMMA DroneUpdateCounts ==
  ASSUME Bookings, NEW d \in Drones, DroneUpdate(d)
  PROVE  Bookings'
<1>1. UNCHANGED <<parked, awaiting, confirmed, scheduler>>
  BY DEF DroneUpdate, Hover, Dispatch, Approach, FlyToFinal, robotVars
<1>2. Robots \ ToSet(scheduler) \subseteq free'
  BY DEF DroneUpdate, Hover, Dispatch, Approach, FlyToFinal, robotVars, Bookings, Waiting
<1>3. QED
  BY <1>1, <1>2 DEF Bookings, Named

\* The counts agree throughout.
LEMMA BookingsCount == Spec => []Bookings
<1>1. Init => Bookings
  <2> SUFFICES ASSUME Init PROVE Bookings
    OBVIOUS
  <2>1. ToSet(<<>>) = {}
    BY DEF ToSet
  <2>2. \A b \in Robots : Named({}, b) = {}
    BY DEF Named
  <2>3. \A b \in Robots : Cardinality(Named(ToSet(scheduler), b)) = 0
                          /\ Cardinality(Named(confirmed, b)) = 0
    <3>1. ToSet(scheduler) = {} /\ confirmed = {}
      BY <2>1 DEF Init
    <3>2. QED
      BY <2>2, <3>1, FS_EmptySet
  <2>4. QED
    BY <2>3 DEF Init, Bookings
<1>2. Inv /\ Bookings /\ [Next]_vars => Bookings'
  <2> SUFFICES ASSUME Inv, Bookings, [Next]_vars PROVE Bookings'
    OBVIOUS
  <2>1. ASSUME NEW d \in Drones, CreateDrone(d) PROVE Bookings'
    BY <2>1 DEF CreateDrone, robotVars, Bookings, Named
  <2>2. ASSUME NEW d \in Drones, DroneUpdate(d) PROVE Bookings'
    BY <2>2, DroneUpdateCounts
  <2>3. ASSUME NEW r \in Robots, CreateRobot(r) PROVE Bookings'
    <3>1. ToSet(parked') = ToSet(parked) \cup {r}
      BY <2>3, AppendToSet DEF CreateRobot, Inv, TypeOK
    <3>2. QED
      BY <2>3, <3>1 DEF CreateRobot, Bookings, Named
  <2>4. ASSUME NEW r \in Robots, ScheduleTrip(r) PROVE Bookings'
    BY <2>4, ScheduleTripCounts
  <2>5. CASE Tick
    BY <2>5 DEF Tick, robotVars, Bookings, Named
  <2>6. CASE TornadoErase
    <3>1. UNCHANGED <<awaiting, confirmed, scheduler, free>>
      BY <2>6 DEF TornadoErase
    <3>2. \A x \in ToSet(parked) \ delivered : x \in ToSet(parked)'
      BY <2>6, TornadoScene
    <3>3. delivered \subseteq ToSet(scheduler)
      BY DEF Inv, TypeOK, Custody, Bookings
    <3>4. QED
      BY <3>1, <3>2, <3>3 DEF Bookings, Named
  <2>7. CASE UNCHANGED vars
    BY <2>7 DEF vars, robotVars, Bookings, Named
  <2>8. QED
    BY <2>1, <2>2, <2>3, <2>4, <2>5, <2>6, <2>7 DEF Next
<1>3. QED
  BY <1>1, <1>2, Invariance, PTL DEF Spec

\* Whatever bookings of one name interleave, ScheduleTrip finds a robot of the
\* name that no drone has taken: more robots of the name have been created than
\* are in the scheduler, as the booking itself is not confirmed yet.
THEOREM EveryBookingFindsRobot == Spec => []BookingFindsRobot
<1>1. Inv /\ Bookings => BookingFindsRobot
  <2> SUFFICES ASSUME Inv, Bookings, NEW b \in awaiting
               PROVE  Matches(b) # {}
    BY DEF BookingFindsRobot
  <2> DEFINE created == awaiting \cup confirmed
             booked == ToSet(scheduler)
  <2>1. /\ created \in SUBSET Robots /\ confirmed \in SUBSET Robots
        /\ booked \in SUBSET Robots /\ b \in Robots /\ b \notin confirmed
        /\ confirmed \cup {b} \in SUBSET created
    BY ToSetPositions DEF Inv, TypeOK, Bookings
  <2>2. PICK r \in created \ booked : Name[r] = Name[b]
    <3>1. SUFFICES ASSUME \A r \in created \ booked : Name[r] # Name[b]
                   PROVE  FALSE
      OBVIOUS
    <3>2. Named(created \cap booked, b) = Named(created, b)
      BY <3>1 DEF Named
    <3>3. /\ Cardinality(Named(created, b)) <= Cardinality(Named(booked, b))
          /\ Cardinality(Named(created, b)) \in Nat /\ Cardinality(Named(booked, b)) \in Nat
      <4>1. created \cap booked \in SUBSET booked
        OBVIOUS
      <4>2. QED
        BY <2>1, <3>2, <4>1, NamedFinite
    <3>4. /\ Cardinality(Named(confirmed \cup {b}, b)) = Cardinality(Named(confirmed, b)) + 1
          /\ Cardinality(Named(confirmed, b)) \in Nat
      BY <2>1, NamedAdd, NamedFinite
    <3>5. Cardinality(Named(confirmed \cup {b}, b)) <= Cardinality(Named(created, b))
      BY <2>1, NamedFinite
    <3>6. Cardinality(Named(booked, b)) <= Cardinality(Named(confirmed, b))
      BY <2>1 DEF Bookings
    <3>7. QED
      BY <3>3, <3>4, <3>5, <3>6
  <2>3. r \in free /\ r \in ToSet(parked)
    BY <2>1, <2>2 DEF Bookings
  <2>4. PICK i \in 1 .. Len(parked) : r = parked[i]
    BY <2>3, ToSetPositions DEF Inv, TypeOK
  <2>5. i \in DOMAIN parked
    BY <2>4 DEF Inv, TypeOK
  <2>6. i \in Matches(b)
    BY <2>2, <2>3, <2>4, <2>5 DEF Matches
  <2>7. QED
    BY <2>6
<1>2. QED
  BY <1>1, Invariance, BookingsCount, PTL

\* With names that differ, every booking gets the robot that was created for it:
\* what is in the scheduler is what has been confirmed, each under its own
\* destination.
OwnRobots ==
  /\ confirmed \subseteq ToSet(scheduler)
  /\ \A r \in ToSet(scheduler) : destination[r] = r

\* When no two bookings have the same name, a trip that is confirmed is one that
\* a robot in the scheduler is bound for, whatever commands come in between.
THEOREM ConfirmedTripsAreBooked ==
  ASSUME \A q, r \in Robots : Name[q] = Name[r] => q = r
  PROVE  Spec => []ConfirmedTripIsBooked
<1>1. Init => OwnRobots
  <2>1. ToSet(<<>>) = {}
    BY DEF ToSet
  <2>2. QED
    BY <2>1 DEF Init, OwnRobots
<1>2. Inv /\ BookingFindsRobot /\ OwnRobots /\ [Next]_vars => OwnRobots'
  <2> SUFFICES ASSUME Inv, BookingFindsRobot, OwnRobots, [Next]_vars PROVE OwnRobots'
    OBVIOUS
  <2>1. ASSUME NEW b \in Robots, ScheduleTrip(b) PROVE OwnRobots'
    <3>1. PICK i \in Matches(b) : /\ destination' = [destination EXCEPT ![parked[i]] = b]
                                  /\ scheduler' = Append(scheduler, parked[i])
      BY <2>1 DEF ScheduleTrip, BookingFindsRobot
    <3>2. parked[i] = b
      BY <3>1, ToSetPositions DEF Matches, Inv, TypeOK
    <3>3. ToSet(scheduler') = ToSet(scheduler) \cup {b} /\ ToSet(scheduler) \subseteq Robots
      BY <3>1, <3>2, AppendToSet, ToSetPositions DEF Inv, TypeOK
    <3>4. QED
      BY <2>1, <3>1, <3>2, <3>3 DEF ScheduleTrip, OwnRobots, Inv, TypeOK
  <2>2. CASE UNCHANGED <<confirmed, scheduler, destination>>
    BY <2>2 DEF OwnRobots
  <2>3. QED
    BY <2>1, <2>2
       DEF Next, CreateDrone, DroneUpdate, Hover, Dispatch, Approach, FlyToFinal, CreateRobot,
           Tick, TornadoErase, vars, robotVars
<1>3. OwnRobots => ConfirmedTripIsBooked
  BY DEF OwnRobots, ConfirmedTripIsBooked
<1>4. QED
  BY <1>1, <1>2, <1>3, Invariance, EveryBookingFindsRobot, PTL DEF Spec
=============================================================================
