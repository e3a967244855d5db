-------------------------------- MODULE Fleet --------------------------------
(***************************************************************************)
(* The trips: SimulationModel::ScheduleTrip, the drones of                 *)
(* libs/transit/src/Drone.cc and the publisher that reports on them        *)
(* (DronePublisher.cc), under a weather that decides how a drone may fly.  *)
(*                                                                         *)
(* The schedule page books a trip with two commands, CreateEntity for the  *)
(* robot and ScheduleTrip with its name; commands of other pages may come  *)
(* between them.  A booking is identified with the robot it creates, and   *)
(* with the destination it asks for.  SimulationModel::Update is a tick    *)
(* followed by one DroneUpdate per drone; no command falls in between.     *)
(*                                                                         *)
(* Distances are abstracted: the nearest robot is any that waits, and a    *)
(* new route may have any length up to MaxLen, but at most Detour more     *)
(* than was left of the one it replaces.                                   *)
(***************************************************************************)
EXTENDS Strategy

CONSTANTS
  Drones, Robots,
  Name,       \* the name given to each booking
  Mentions,   \* the keys of DronePublisher that occur in an entity's name
  Search,     \* the strategy chosen for it: "astar", "dfs", "dijkstra"
  MaxLen,     \* the longest route
  Detour,     \* what a change of route may add to the distance left
  NoEntity    \* stands for the absence of an entity

\* DronePublisher::keys: what tells the notices of a trip apart, in the order
\* in which they are looked for, and in which a trip sends them.
Messages == <<"Picking", "Picked", "Delivering", "Delivered">>

ASSUME FleetAssumption ==
  /\ IsFiniteSet(Drones) /\ IsFiniteSet(Robots)
  /\ NoEntity \notin Robots \cup Drones
  /\ Search \in [Robots -> Paths]
  /\ Mentions \in [Drones \cup Robots -> SUBSET {Messages[i] : i \in 1 .. 4}]
  /\ MaxLen \in Nat \ {0}
  /\ Detour \in Nat

VARIABLES
  parked,        \* the robots of SimulationModel::entities, in order
  awaiting,      \* bookings whose ScheduleTrip has not arrived yet
  confirmed,     \* bookings answered by TripScheduled
  scheduler,     \* SimulationModel::scheduler
  free,          \* robots whose available is true
  destination,   \* the booking a robot's destination was set by
  strategyName,  \* Robot::stratName
  delivered,     \* robots whose status is "delete"
  drones,        \* the drones created so far
  available, pickedUp, run, emergency, nearestEntity, \* members of Drone
  toRobot, toFinal,
  publisher,     \* the last key found, and the notices sent of this trip
  forecast,      \* Weather::Forecast
  completed,     \* Weather::IsCompleted
  pending        \* the drones still to be updated in the present tick

robotVars == <<parked, awaiting, confirmed, scheduler, free, destination, strategyName>>
droneVars == <<available, pickedUp, run, emergency, nearestEntity, toRobot, toFinal, publisher>>
weatherVars == <<forecast, completed>>
vars == <<robotVars, delivered, drones, droneVars, weatherVars, pending>>

Weathers == {"normal", "snow", "tornado", "rain", "hot", "hurricane"}

\* The distance a drone covers in a tick: half of the natural one in snow,
\* twice in blazing heat, none in a tornado or a hurricane.
Pace ==
  CASE forecast = "snow"               -> 1
    [] forecast = "hot"                -> 4
    [] forecast \in {"tornado", "hurricane"} -> 0
    [] OTHER                           -> 2

Init ==
  /\ parked = <<>>
  /\ awaiting = {}
  /\ confirmed = {}
  /\ scheduler = <<>>
  /\ free = Robots
  /\ destination = [r \in Robots |-> NoEntity]
  /\ strategyName = [r \in Robots |-> "none"]
  /\ delivered = {}
  /\ drones = {}
  /\ available = [d \in Drones |-> TRUE]
  /\ pickedUp = [d \in Drones |-> FALSE]
  /\ run = [d \in Drones |-> TRUE]
  /\ emergency = [d \in Drones |-> FALSE]
  /\ nearestEntity = [d \in Drones |-> NoEntity]
  /\ toRobot = [d \in Drones |-> NoStrategy]
  /\ toFinal = [d \in Drones |-> NoStrategy]
  /\ publisher = [d \in Drones |-> [run |-> "none", heard |-> <<>>]]
  /\ forecast = "normal"
  /\ completed = FALSE
  /\ pending = {}

-----------------------------------------------------------------------------
(* Commands of the pages.                                                  *)

CreateDrone(d) ==
  /\ pending = {}
  /\ d \notin drones
  /\ drones' = drones \cup {d}
  /\ UNCHANGED <<robotVars, delivered, droneVars, weatherVars, pending>>

\* The first command of a booking: the robot enters the scene.
CreateRobot(r) ==
  /\ pending = {}
  /\ r \notin awaiting \cup confirmed
  /\ parked' = Append(parked, r)
  /\ awaiting' = awaiting \cup {r}
  /\ UNCHANGED <<confirmed, scheduler, free, destination, strategyName,
                 delivered, drones, droneVars, weatherVars, pending>>

\* Mutants of Matches: without the test of availability, and without that of
\* the name.
MatchesTaken(b) == {i \in DOMAIN parked : Name[parked[i]] = Name[b]}
MatchesAnyone(b) == {i \in DOMAIN parked : parked[i] \in free}

\* The robots in the scene that have the booking's name and are available.
Matches(b) ==
  {i \in DOMAIN parked : Name[parked[i]] = Name[b] /\ parked[i] \in free}

\* The second: the first match gets the destination and the strategy of the
\* booking.  The page is told that the trip is scheduled either way.
ScheduleTrip(b) ==
  /\ pending = {}
  /\ b \in awaiting
  /\ awaiting' = awaiting \ {b}
  /\ confirmed' = confirmed \cup {b}
  /\ \/ /\ Matches(b) = {}
        /\ UNCHANGED <<scheduler, destination, strategyName>>
     \/ \E i \in Matches(b) :
          /\ \A j \in Matches(b) : i <= j
          /\ destination' = [destination EXCEPT ![parked[i]] = b]
          /\ strategyName' = [strategyName EXCEPT ![parked[i]] = Search[b]]
          /\ scheduler' = Append(scheduler, parked[i])
  /\ UNCHANGED <<parked, free, delivered, drones, droneVars, weatherVars, pending>>

-----------------------------------------------------------------------------
(* Drone::Update.                                                          *)

\* Mutants of Waiting: robots of trips that are over, robots another drone has,
\* and no robot but the first in the schedule.
WaitingOrServed == ToSet(scheduler)
WaitingOrTaken == ToSet(scheduler) \ delivered
WaitingFirst == {r \in free : scheduler # <<>> /\ r = scheduler[1]}

Waiting == {r \in free : r \in ToSet(scheduler)}

\* The keys that the names in a notice hold, the drone's and the robot's.
Mentioned(d, r) == Mentions[d] \cup Mentions[r]

\* The first of the keys that occurs in a notice, in its own words (key) or in
\* its names.
KeyFound(key, names) ==
  Messages[CHOOSE i \in 1 .. 4 :
             /\ Messages[i] \in {key} \cup names
             /\ \A j \in 1 .. i - 1 : Messages[j] \notin {key} \cup names]

\* Mutant of SendEvents: does not remember what was found last.
SendAlways(p, key, names) ==
  [run |-> KeyFound(key, names), heard |-> Append(p.heard, key)]

\* DronePublisher::SendEvents, with its one subscriber: a notice in which the
\* key found last is found again is dropped.
SendEvents(p, key, names) ==
  IF p.run = KeyFound(key, names) THEN p
  ELSE [run |-> KeyFound(key, names), heard |-> Append(p.heard, key)]

\* The lengths a route that replaces s may have.
Lengths(least, s) ==
  {n \in least .. MaxLen : n <= s.left + Detour \/ n = least}

\* Mutants of Replans and Reverts: emergency is tested too, and alone.
ReplansUnlessEmergency(d, on) == on /\ run[d] /\ ~emergency[d]
RevertsOnlyEmergency(d, on) == on /\ completed /\ emergency[d]

\* One branch of Drone::UpdateHelper.  In the weather it is about (on), a
\* drone changes to the emergency route once, and back to the usual one in
\* the tick in which the weather is completed.
Replans(d, on) == on /\ run[d]
Reverts(d, on) == on /\ completed /\ (run[d] \/ emergency[d])

Rerouted(d, on, s, unusual, usual) ==
  IF Reverts(d, on) THEN usual ELSE IF Replans(d, on) THEN unusual ELSE s

\* run and emergency after UpdateHelper; run is set again on arrival.
SetFlags(d, on, arrived) ==
  /\ run' = [run EXCEPT ![d] = arrived \/ Reverts(d, on) \/ (run[d] /\ ~Replans(d, on))]
  /\ emergency' = [emergency EXCEPT
                     ![d] = ~Reverts(d, on) /\ (Replans(d, on) \/ emergency[d])]

\* The first branch of Drone::Update, towards robot r along s: by A* in snow.
FlyToRobot(d, r, s, p) ==
  LET names == Mentioned(d, r)
      on == forecast = "snow"
      least == IF Reverts(d, on) THEN 0 ELSE 1
  IN  \E n \in IF Replans(d, on) \/ Reverts(d, on) THEN Lengths(least, s) ELSE {s.left} :
        LET moved == Move(Rerouted(d, on, s, Path("astar", n), Beeline(n)), Pace)
            arrived == IsCompleted(moved)
            told == SendEvents(p, "Picking", names)
        IN  /\ toRobot' = [toRobot EXCEPT ![d] = IF arrived THEN NoStrategy ELSE moved]
            /\ pickedUp' = [pickedUp EXCEPT ![d] = arrived]
            /\ publisher' = [publisher EXCEPT
                               ![d] = IF arrived THEN SendEvents(told, "Picked", names) ELSE told]
            /\ SetFlags(d, on, arrived)

\* GetNearestEntity finds a robot, which takes the drone on its way.
Dispatch(d) ==
  /\ available[d]
  /\ \E r \in Waiting, n \in 0 .. MaxLen, m \in 1 .. MaxLen :
       /\ free' = free \ {r}
       /\ available' = [available EXCEPT ![d] = FALSE]
       /\ nearestEntity' = [nearestEntity EXCEPT ![d] = r]
       /\ toFinal' = [toFinal EXCEPT ![d] = Delivery(strategyName[r], m)]
       /\ FlyToRobot(d, r, Beeline(n), [publisher[d] EXCEPT !.heard = <<>>])
  /\ UNCHANGED <<parked, awaiting, confirmed, scheduler, destination, strategyName, delivered>>

\* No robot waits for the drone: nothing to do.
Hover(d) ==
  /\ available[d]
  /\ Waiting = {}
  /\ UNCHANGED <<robotVars, delivered, droneVars>>

Approach(d) ==
  /\ ~available[d]
  /\ toRobot[d] # NoStrategy
  /\ FlyToRobot(d, nearestEntity[d], toRobot[d], publisher[d])
  /\ UNCHANGED <<robotVars, delivered, available, nearestEntity, toFinal>>

\* The second branch, with the robot aboard: straight on in blazing heat.
\* On arrival the robot gets the status "delete".
FlyToFinal(d) ==
  /\ ~available[d]
  /\ toRobot[d] = NoStrategy
  /\ LET names == Mentioned(d, nearestEntity[d])
         on == forecast = "hot"
         s == toFinal[d]
         least == IF Reverts(d, on) THEN 1 ELSE 0
     IN  \E n \in IF Replans(d, on) \/ Reverts(d, on) THEN Lengths(least, s) ELSE {s.left} :
           LET moved == Move(Rerouted(d, on, s, Beeline(n), SpinAstar(n)), Pace)
               arrived == IsCompleted(moved)
               told == IF pickedUp[d] THEN SendEvents(publisher[d], "Delivering", names)
                       ELSE publisher[d]
           IN  /\ toFinal' = [toFinal EXCEPT ![d] = IF arrived THEN NoStrategy ELSE moved]
               /\ delivered' = IF arrived THEN delivered \cup {nearestEntity[d]} ELSE delivered
               /\ nearestEntity' = [nearestEntity EXCEPT ![d] = IF arrived THEN NoEntity ELSE @]
               /\ available' = [available EXCEPT ![d] = arrived]
               /\ pickedUp' = [pickedUp EXCEPT ![d] = ~arrived /\ @]
               /\ publisher' = [publisher EXCEPT
                     ![d] = IF arrived THEN SendEvents(told, "Delivered", names) ELSE told]
               /\ SetFlags(d, on, arrived)
  /\ UNCHANGED <<robotVars, toRobot>>

DroneUpdate(d) ==
  /\ d \in pending
  /\ pending' = pending \ {d}
  /\ Hover(d) \/ Dispatch(d) \/ Approach(d) \/ FlyToFinal(d)
  /\ UNCHANGED <<drones, weatherVars>>

-----------------------------------------------------------------------------
(* The weather, as the drones see it.                                      *)

\* Mutant of Tick: updates drones nobody has created.
TickAll ==
  /\ pending = {}
  /\ pending' = Drones
  /\ \/ completed /\ completed' = FALSE /\ forecast' \in Weathers
     \/ ~completed /\ completed' \in BOOLEAN /\ forecast' = forecast
  /\ UNCHANGED <<robotVars, delivered, drones, droneVars>>

\* A tick starts.  A weather is drawn when the last one is completed, and is
\* not completed in its first tick (a tick is far shorter than a weather).
Tick ==
  /\ pending = {}
  /\ pending' = drones
  /\ \/ completed /\ completed' = FALSE /\ forecast' \in Weathers
     \/ ~completed /\ completed' \in BOOLEAN /\ forecast' = forecast
  /\ UNCHANGED <<robotVars, delivered, drones, droneVars>>

\* Mutant of TornadoErase: takes robots that have not been delivered.
EraseAny ==
  /\ forecast = "tornado"
  /\ \E i \in DOMAIN parked : parked' = RemoveAt(parked, i)
  /\ UNCHANGED <<awaiting, confirmed, scheduler, free, destination, strategyName,
                 delivered, drones, droneVars, weatherVars, pending>>

\* A tornado erases a robot that has been delivered.
TornadoErase ==
  /\ forecast = "tornado"
  /\ \E i \in DOMAIN parked :
       parked[i] \in delivered /\ parked' = RemoveAt(parked, i)
  /\ UNCHANGED <<awaiting, confirmed, scheduler, free, destination, strategyName,
                 delivered, drones, droneVars, weatherVars, pending>>

Next ==
  \/ \E d \in Drones : CreateDrone(d) \/ DroneUpdate(d)
  \/ \E r \in Robots : CreateRobot(r) \/ ScheduleTrip(r)
  \/ Tick
  \/ TornadoErase

Spec == Init /\ [][Next]_vars

\* The visualization page asks for updates forever, and each runs to its end.
\* Every weather passes, and the draw gives every weather a positive weight:
\* normal weather returns again and again.
Fairness ==
  /\ WF_vars(Tick)
  /\ \A d \in Drones : WF_vars(DroneUpdate(d))
  /\ SF_vars(Tick /\ completed')
  /\ SF_vars(Tick /\ completed /\ forecast' = "normal")

FairSpec == Spec /\ Fairness

-----------------------------------------------------------------------------
(* What Fleet promises: TripService.                                       *)

StageOf(r) ==
  IF r \in delivered THEN "delivered"
  ELSE IF \E d \in Drones : nearestEntity[d] = r /\ pickedUp[d] THEN "riding"
  ELSE IF \E d \in Drones : nearestEntity[d] = r THEN "assigned"
  ELSE IF r \in ToSet(scheduler) THEN "waiting"
  ELSE IF r \in ToSet(parked) THEN "parked" ELSE "absent"

CarrierOf(r) ==
  IF \E d \in Drones : nearestEntity[d] = r
  THEN CHOOSE d \in Drones : nearestEntity[d] = r ELSE NoEntity

Service == INSTANCE TripService WITH
  stage <- [r \in Robots |-> StageOf(r)],
  carrier <- [r \in Robots |-> CarrierOf(r)],
  NoDrone <- NoEntity

\* Every step of the fleet is a step of TripService or none: a robot rides
\* with one drone at a time, in the order of the stages, and is delivered once.
ServesTrips == Service!Spec

-----------------------------------------------------------------------------
(* Properties.                                                             *)

\* Types of the robots', the drones' and the weather's state.
TypeOK ==
  /\ parked \in Seq(Robots)
  /\ awaiting \subseteq Robots
  /\ confirmed \subseteq Robots
  /\ scheduler \in Seq(Robots)
  /\ free \subseteq Robots
  /\ destination \in [Robots -> Robots \cup {NoEntity}]
  /\ strategyName \in [Robots -> Paths \cup {"none"}]
  /\ delivered \subseteq Robots
  /\ drones \subseteq Drones
  /\ available \in [Drones -> BOOLEAN]
  /\ pickedUp \in [Drones -> BOOLEAN]
  /\ run \in [Drones -> BOOLEAN]
  /\ emergency \in [Drones -> BOOLEAN]
  /\ nearestEntity \in [Drones -> Robots \cup {NoEntity}]
  /\ toRobot \in [Drones -> StrategyOf(MaxLen)]
  /\ toFinal \in [Drones -> StrategyOf(MaxLen)]
  /\ publisher \in [Drones -> [run : {Messages[i] : i \in 1 .. 4} \cup {"none"},
                               heard : Seq({Messages[i] : i \in 1 .. 4})]]
  /\ forecast \in Weathers
  /\ completed \in BOOLEAN
  /\ pending \subseteq drones

\* A robot a drone has taken is in the scene, not available to another drone
\* and not yet erasable; the tornado never takes it out of the drone's hands.
CarriedRobotIsSafe ==
  \A d \in Drones : nearestEntity[d] # NoEntity =>
    nearestEntity[d] \in ToSet(parked) \ (free \cup delivered)

\* ScheduleTrip always finds a robot for its booking: whatever bookings of the
\* same name came first, one robot of that name is still available.
BookingFindsRobot == \A b \in awaiting : Matches(b) # {}

\* A trip the page was told is scheduled has a robot bound for it.
ConfirmedTripIsBooked ==
  \A b \in confirmed : \E r \in ToSet(scheduler) : destination[r] = b

\* Once updated, a drone on its way to a robot follows A* while it snows and
\* the straight line in any other weather: UpdateHelper's two flags change the
\* route in the first tick of the snow and change it back in its last.
PickupFitsWeather ==
  \A d \in drones \ pending : toRobot[d] # NoStrategy =>
    toRobot[d].route = IF forecast = "snow" /\ ~completed THEN "astar" ELSE "beeline"

\* A drone that carries its robot on in a step flies straight in blazing heat
\* until the heat is over, and along a path in any other weather.
DeliveryFitsWeather ==
  [][\A d \in pending \ pending' :
       toRobot[d] = NoStrategy /\ toFinal[d] # NoStrategy /\ toFinal'[d] # NoStrategy
         => (toFinal'[d].route = "beeline" <=> forecast = "hot" /\ ~completed)]_vars

\* What the pages have heard of the first i notices of drone d with robot r: in
\* order and once each, up to the first whose key one of the two names holds.
\* The notices after that are dropped, and if it is "Picking", that of the
\* drone's next trip too.
Reported(d, r, i) ==
  \E first \in 1 .. 2, n \in 1 .. i :
    /\ publisher[d].heard = SubSeq(Messages, first, n)
    /\ first = 2 => \E e \in delivered : "Picking" \in Mentioned(d, e)
    /\ n < i => Messages[n] \in Mentioned(d, r)
    /\ \A j \in 1 .. n - 1 : Messages[j] \notin Mentioned(d, r)

\* The notices of a trip are sent in order and none twice, although SendEvents
\* is called in every tick and only remembers the key it found last; with no
\* key in the names, all are sent.
TripIsReported ==
  \A d \in Drones :
    /\ available[d] => \/ publisher[d] = [run |-> "none", heard |-> <<>>]
                       \/ \E r \in delivered : Reported(d, r, 4)
    /\ toRobot[d] # NoStrategy => Reported(d, nearestEntity[d], 1)
    /\ ~available[d] /\ toRobot[d] = NoStrategy =>
         Reported(d, nearestEntity[d], 2) \/ Reported(d, nearestEntity[d], 3)

\* No booking changes the destination of a robot a drone has taken: UpdateHelper
\* may read it again during the flight.
DestinationFixedInFlight ==
  [][\A d \in Drones :
       nearestEntity[d] # NoEntity /\ nearestEntity'[d] = nearestEntity[d]
         => destination'[nearestEntity[d]] = destination[nearestEntity[d]]]_vars

\* A scheduled trip is served, whatever weathers come in between.
EveryTripEnds ==
  \A r \in Robots :
    (r \in ToSet(scheduler) /\ drones # {}) ~> (r \in delivered)

\* The README says the path to the destination is the one the passenger chose
\* (and that in blazing heat it is ignored): out of the heat, the drone
\* follows the passenger's.
UserPathFollowed ==
  \A d \in drones \ pending :
    toFinal[d] # NoStrategy /\ forecast # "hot" =>
      toFinal[d].route = strategyName[nearestEntity[d]]
=============================================================================
