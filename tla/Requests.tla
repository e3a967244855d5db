------------------------------- MODULE Requests -------------------------------
(***************************************************************************)
(* What a page may expect of sendCommand: its commands are carried out     *)
(* once each, in the order it issued them, and the promise of a command is *)
(* resolved once, after the command has been carried out.  Commands are    *)
(* numbered in the order they are issued.  Sessions implements this for    *)
(* every page.                                                             *)
(***************************************************************************)
EXTENDS Naturals, Sequences

VARIABLES
  issued,     \* the number of commands issued
  executed,   \* those carried out, in order
  resolved    \* the commands whose promise is resolved

vars == <<issued, executed, resolved>>

Init ==
  /\ issued = 0
  /\ executed = <<>>
  /\ resolved = {}

Issue ==
  /\ issued' = issued + 1
  /\ UNCHANGED <<executed, resolved>>

Execute ==
  /\ Len(executed) < issued
  /\ executed' = Append(executed, Len(executed) + 1)
  /\ UNCHANGED <<issued, resolved>>

Resolve(n) ==
  /\ n \notin resolved
  /\ resolved' = resolved \cup {n}
  /\ UNCHANGED <<issued, executed>>

Next ==
  \/ Issue
  \/ Execute
  \/ \E n \in 1 .. Len(executed) : Resolve(n)

Spec == Init /\ [][Next]_vars
=============================================================================
