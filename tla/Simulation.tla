------------------------------ MODULE Simulation ------------------------------
(***************************************************************************)
(* The whole of SimulationModel: the loop and the weather of Weather       *)
(* composed with the trips and the drones of Fleet.                        *)
(*                                                                         *)
(* Weather knows of the drones only that one may deliver a robot, Fleet    *)
(* knows of the loop only that every drone is updated once per tick and of *)
(* the weather only what it is; here each gets what the other does.  The   *)
(* robots Fleet calls parked are those in the vector, a drone is pending   *)
(* while the loop has yet to reach it, and the weather is completed when   *)
(* its time says so.                                                       *)
(***************************************************************************)
EXTENDS Integers, FiniteSets, SequencesExt

CONSTANTS
  Drones, Robots, Others,          \* Others: the humans and the satellites
  Kind, Natural, Duration, Warning, Steps, NoEntity,   \* as in Weather
  Name, Mentions, Search, MaxLen, Detour, Celebration  \* as in Fleet

Entities == Drones \cup Robots \cup Others

ASSUME EntitiesAssumption ==
  /\ IsFiniteSet(Entities) /\ NoEntity \notin Entities
  /\ Others \cap (Drones \cup Robots) = {}
  /\ Kind \in [Entities -> {"drone", "robot", "human", "satellite"}]
  /\ \A e \in Entities : /\ Kind[e] = "drone" <=> e \in Drones
                         /\ Kind[e] = "robot" <=> e \in Robots
ASSUME SpeedAssumption ==
  /\ Natural \in [Entities -> Nat]
  /\ \A e \in Entities : Natural[e] > 10
  /\ \A d \in Drones : Natural[d] = 30
ASSUME TimeAssumption ==
  /\ Duration \in Nat /\ Warning \in Nat
  /\ Steps \subseteq 1 .. Duration
ASSUME TripsAssumption ==
  /\ Search \in [Robots -> {"astar", "dfs", "dijkstra"}]
  /\ Mentions \in [Drones \cup Robots ->
                     SUBSET {"Picking", "Picked", "Delivering", "Delivered"}]
  /\ MaxLen \in Nat \ {0} /\ Detour \in Nat /\ Celebration \in Nat \ {0}

VARIABLES
  \* of SimulationModel and Weather
  entities, cursor, forecast, time, run, prev, speed, restore, raised,
  sheltered, delivered, erased, shown, announced, slot,
  \* of SimulationModel, the robots and the drones
  awaiting, confirmed, scheduler, free, destination, strategyName, drones,
  available, pickedUp, droneRun, emergency, nearestEntity, toRobot, toFinal,
  publisher

worldVars == <<entities, cursor, forecast, time, run, prev, speed, restore,
               raised, sheltered, erased, shown, announced, slot>>
tripVars == <<awaiting, confirmed, scheduler, free, destination, strategyName,
              drones, available, pickedUp, droneRun, emergency, nearestEntity,
              toRobot, toFinal, publisher>>
vars == <<worldVars, delivered, tripVars>>

\* The elements of q that are in S, in their order.
Among(q, S) ==
  LET first[n \in 0 .. Len(q)] ==
        IF n = 0 THEN <<>>
        ELSE IF q[n] \in S THEN Append(first[n - 1], q[n]) ELSE first[n - 1]
  IN  first[Len(q)]

Parked == Among(entities, Robots)
Completed == time > Duration
Pending ==
  IF cursor = 0 THEN {}
  ELSE {d \in Drones : \E i \in cursor .. Len(entities) : entities[i] = d}

World == INSTANCE Weather
Trips == INSTANCE Fleet WITH
  parked <- Parked, completed <- Completed, pending <- Pending, run <- droneRun

Init == World!Init /\ Trips!Init

-----------------------------------------------------------------------------
(* Each step, as Weather and as Fleet see it.                              *)

CreateEntity(e) ==
  /\ World!CreateEntity(e)
  /\ \/ e \in Drones /\ Trips!CreateDrone(e)
     \/ e \in Robots /\ Trips!CreateRobot(e)
     \/ e \in Others /\ UNCHANGED tripVars

ScheduleTrip(b) ==
  /\ cursor = 0
  /\ UNCHANGED worldVars
  /\ Trips!ScheduleTrip(b)

BeginUpdate(dt, w) == World!BeginUpdate(dt, w) /\ Trips!Tick

\* Weather::Run and Weather::Reverse leave the trips alone, as far as their
\* own state goes.
Run == (World!TornadoErase \/ World!Spare) /\ UNCHANGED tripVars

\* entities[i]->Update(dt, scheduler): of the entities in the loop only the
\* drones look at the scheduler.
UpdateSlot ==
  /\ World!UpdateSlot
  /\ \/ slot \in Drones /\ Trips!DroneUpdate(slot)
     \/ slot \notin Drones /\ UNCHANGED <<delivered, tripVars>>

EndUpdate == World!EndUpdate /\ UNCHANGED tripVars

Next ==
  \/ \E e \in Entities : CreateEntity(e)
  \/ \E b \in Robots : ScheduleTrip(b)
  \/ \E dt \in Steps, w \in World!Weathers : BeginUpdate(dt, w)
  \/ Run
  \/ UpdateSlot
  \/ EndUpdate

Spec == Init /\ [][Next]_vars

-----------------------------------------------------------------------------
(* Properties.                                                             *)

\* Type correctness of the state of both parts.
TypeOK == World!TypeOK /\ Trips!TypeOK

\* The loop updates every drone exactly once per update, and changes nothing
\* else a trip depends on, although Weather::Run erases entities from the
\* vector while SimulationModel::Update walks along it: to the trips, the
\* whole simulation is a behaviour of Fleet.
LoopServesFleet == Trips!Spec

\* A drone that is updated covers the ground Fleet takes it to cover: whatever
\* weathers came and went, half of its 30 in snow, twice that in blazing heat.
SpeedIsPace == \A d \in Pending : speed[d] = 15 * Trips!Pace

\* The tornado takes no robot that waits for a drone or is with one, nor a
\* drone: what it erases are humans and robots whose trip is over.
TripsSurviveTornado ==
  /\ erased \cap Drones = {}
  /\ erased \cap Robots \subseteq delivered
  /\ \A d \in Drones : nearestEntity[d] \notin erased
=============================================================================
