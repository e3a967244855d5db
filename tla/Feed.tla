--------------------------------- MODULE Feed ---------------------------------
(***************************************************************************)
(* What the server promises the pages: the order in which AddEntity,       *)
(* UpdateEntityView and RemoveEntity may follow each other, whatever the   *)
(* weather does.  An entity is created once, hidden only while it is in    *)
(* view, erased only while it is in view, and whatever is hidden comes     *)
(* back at once; there is one weather model in the view at a time.  The    *)
(* page (View) relies on it; Weather implements it.                        *)
(***************************************************************************)
EXTENDS Naturals

CONSTANTS
  Entities,      \* drones, robots, humans and satellites
  WeatherTypes   \* the weathers that have a model

VARIABLES
  scene,   \* the entities of the simulation
  shown,   \* those in view
  gone,    \* those erased from the simulation
  sky      \* the weather whose model is in view, or "none"

vars == <<scene, shown, gone, sky>>

Init ==
  /\ scene = {}
  /\ shown = {}
  /\ gone = {}
  /\ sky = "none"

Create(e) ==
  /\ e \notin scene \cup gone
  /\ scene' = scene \cup {e}
  /\ shown' = shown \cup {e}
  /\ UNCHANGED <<gone, sky>>

Hide(e) ==
  /\ e \in shown
  /\ shown' = shown \ {e}
  /\ UNCHANGED <<scene, gone, sky>>

Erase(e) ==
  /\ e \in shown
  /\ scene' = scene \ {e}
  /\ shown' = shown \ {e}
  /\ gone' = gone \cup {e}
  /\ UNCHANGED sky

Raise(w) ==
  /\ sky = "none"
  /\ sky' = w
  /\ UNCHANGED <<scene, shown, gone>>

GiveBack ==
  /\ sky' = "none"
  /\ shown' = scene
  /\ UNCHANGED <<scene, gone>>

Next ==
  \/ \E e \in Entities : Create(e) \/ Hide(e) \/ Erase(e)
  \/ \E w \in WeatherTypes : Raise(w)
  \/ GiveBack

Spec == Init /\ [][Next]_vars
=============================================================================
