------------------------------ MODULE MCSessions ------------------------------
(***************************************************************************)
(* Small instances of Sessions: two pages, one of them with a single       *)
(* command, and a slider with two positions.                               *)
(***************************************************************************)
EXTENDS Sessions, TLC

CONSTANTS p1, p2

MCPages == {p1, p2}
MCMaxCommands == (p1 :> 2) @@ (p2 :> 1)
MCSimSpeeds == {2, 3}
=============================================================================
