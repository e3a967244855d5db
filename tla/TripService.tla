----------------------------- MODULE TripService -----------------------------
(***************************************************************************)
(* What the service promises the passenger, whatever the weather: a robot  *)
(* that is scheduled waits, is taken by one drone, rides with that drone   *)
(* and no other, and is delivered once.  A drone carries one robot at a    *)
(* time.  Fleet, the model of the drones and of ScheduleTrip, implements   *)
(* this specification.                                                     *)
(***************************************************************************)
EXTENDS Naturals

CONSTANTS Robots, Drones, NoDrone

Stages == {"absent", "parked", "waiting", "assigned", "riding", "delivered"}

VARIABLES
  stage,     \* how far the trip of every robot has come
  carrier    \* the drone that has taken the robot, or NoDrone

vars == <<stage, carrier>>

Init ==
  /\ stage = [r \in Robots |-> "absent"]
  /\ carrier = [r \in Robots |-> NoDrone]

Advance(r, from, to) ==
  /\ stage[r] = from
  /\ stage' = [stage EXCEPT ![r] = to]

Idle(d) == \A r \in Robots : carrier[r] # d

Arrive(r) == Advance(r, "absent", "parked") /\ UNCHANGED carrier
Request(r) == Advance(r, "parked", "waiting") /\ UNCHANGED carrier

\* A drone takes a waiting robot; when it is above it already, it picks it up
\* at once.
Assign(r, d) ==
  /\ Idle(d)
  /\ Advance(r, "waiting", "assigned") \/ Advance(r, "waiting", "riding")
  /\ carrier' = [carrier EXCEPT ![r] = d]

PickUp(r) == Advance(r, "assigned", "riding") /\ UNCHANGED carrier

Deliver(r) ==
  /\ Advance(r, "riding", "delivered")
  /\ carrier' = [carrier EXCEPT ![r] = NoDrone]

Next ==
  \E r \in Robots :
    \/ Arrive(r) \/ Request(r)
    \/ \E d \in Drones : Assign(r, d)
    \/ PickUp(r) \/ Deliver(r)

Spec == Init /\ [][Next]_vars

-----------------------------------------------------------------------------
(* Properties.                                                             *)

TypeOK ==
  /\ stage \in [Robots -> Stages]
  /\ carrier \in [Robots -> Drones \cup {NoDrone}]

\* A robot has a carrier exactly while it is on its trip, and no drone has
\* two robots: what the promise amounts to for the drones.
OneRobotPerDrone ==
  /\ \A r \in Robots : carrier[r] # NoDrone <=> stage[r] \in {"assigned", "riding"}
  /\ \A r, q \in Robots : carrier[r] = carrier[q] /\ carrier[r] # NoDrone => r = q
=============================================================================
