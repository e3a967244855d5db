------------------------------- MODULE MCFleet -------------------------------
(***************************************************************************)
(* Small instances of Fleet: one or two drones, two bookings with          *)
(* different or with the same name.                                        *)
(***************************************************************************)
EXTENDS Fleet

CONSTANTS d1, d2, r1, r2

OneDrone == {d1}
TwoDrones == {d1, d2}
MCRobots == {r1, r2}
DifferentNames == (r1 :> "Ann") @@ (r2 :> "Bob")
SameName == (r1 :> "Ann") @@ (r2 :> "Ann")
PlainNames == [e \in Drones \cup Robots |-> {}]
OneNameMentions == [PlainNames EXCEPT ![r2] = {"Picking"}]
MCSearch == (r1 :> "dfs") @@ (r2 :> "dijkstra")
=============================================================================
