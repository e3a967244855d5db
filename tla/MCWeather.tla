------------------------------ MODULE MCWeather ------------------------------
(***************************************************************************)
(* A small instance of Weather: one entity of each kind.                   *)
(***************************************************************************)
EXTENDS Weather

CONSTANTS d, r, h, s

MCEntities == {d, r, h, s}
MCKind == (d :> "drone") @@ (r :> "robot") @@ (h :> "human") @@ (s :> "satellite")
MCNatural == (d :> 30) @@ (r :> 30) @@ (h :> 20) @@ (s :> 35)
=============================================================================
