------------------------------ MODULE MCFlight ------------------------------
(***************************************************************************)
(* A small instance of Flight: routes of up to 16, celebrations of 3 ticks,*)
(* the paces of a halted, slowed, normal and urgent drone.                 *)
(***************************************************************************)
EXTENDS Flight

MCPaces == {0, 1, 2, 4}
=============================================================================
