----------------------------- MODULE MCSimulation -----------------------------
(***************************************************************************)
(* A small instance of Simulation: two drones, one robot to carry and one  *)
(* human for the tornado to erase.                                         *)
(***************************************************************************)
EXTENDS Simulation

CONSTANTS d, c, r, h

MCDrones == {d, c}
MCRobots == {r}
MCOthers == {h}
MCKind == (d :> "drone") @@ (c :> "drone") @@ (r :> "robot") @@ (h :> "human")
MCNatural == (d :> 30) @@ (c :> 30) @@ (r :> 30) @@ (h :> 20)
MCName == r :> "Ann"
MCMentions == [e \in {d, c, r} |-> {}]
MCSearch == r :> "astar"
=============================================================================
