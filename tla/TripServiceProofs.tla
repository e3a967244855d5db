-------------------------- MODULE TripServiceProofs --------------------------
(***************************************************************************)
(* What TripService promises, proved for any robots and drones.            *)
(***************************************************************************)
EXTENDS TripService, TLAPS

\* Both properties are inductive together: a drone is only assigned while it
\* is idle, and every stage says whether the robot has a carrier.
Inv == TypeOK /\ OneRobotPerDrone

\* Every robot has a stage and a carrier, one a drone carries is on its trip,
\* and no drone ever carries two.
THEOREM ServiceCorrect ==
  ASSUME NoDrone \notin Drones
  PROVE  Spec => [](TypeOK /\ OneRobotPerDrone)
<1>1. Init => Inv
  BY DEF Init, Inv, TypeOK, OneRobotPerDrone, Stages
<1>2. Inv /\ [Next]_vars => Inv'
  <2> SUFFICES ASSUME Inv, [Next]_vars PROVE Inv'
    OBVIOUS
  <2> USE DEF Inv, TypeOK, OneRobotPerDrone, Stages, Advance
  <2>1. ASSUME NEW r \in Robots, Arrive(r) PROVE Inv'
    BY <2>1 DEF Arrive
  <2>2. ASSUME NEW r \in Robots, Request(r) PROVE Inv'
    BY <2>2 DEF Request
  <2>3. ASSUME NEW r \in Robots, NEW d \in Drones, Assign(r, d) PROVE Inv'
    BY <2>3 DEF Assign, Idle
  <2>4. ASSUME NEW r \in Robots, PickUp(r) PROVE Inv'
    BY <2>4 DEF PickUp
  <2>5. ASSUME NEW r \in Robots, Deliver(r) PROVE Inv'
    BY <2>5 DEF Deliver
  <2>6. CASE UNCHANGED vars
    BY <2>6 DEF vars
  <2>7. QED
    BY <2>1, <2>2, <2>3, <2>4, <2>5, <2>6 DEF Next
<1>3. QED
  BY <1>1, <1>2, PTL DEF Spec, Inv
=============================================================================
