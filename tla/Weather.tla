------------------------------- MODULE Weather -------------------------------
(***************************************************************************)
(* The weather of the simulation: the singleton Weather of                 *)
(* libs/transit/src/Weather.cc and the loop SimulationModel::Update that   *)
(* drives it (libs/transit/src/SimulationModel.cc).                        *)
(*                                                                         *)
(* One call of SimulationModel::Update is a BeginUpdate (Weather::Update   *)
(* and Weather::UpdateGFX), then two steps per entity of the vector:       *)
(* Weather::Run (TornadoErase or Spare), and UpdateSlot (the entity's own  *)
(* Update and the report to the controller); then an EndUpdate             *)
(* (Weather::Reverse).  The server is single threaded, so a command of a   *)
(* client (CreateEntity) only falls between two calls, that is where       *)
(* cursor = 0.                                                             *)
(*                                                                         *)
(* Time advances in ticks; Duration stands for the 60 seconds of           *)
(* IsCompleted and Warning for the 10 seconds of the hurricane warning.    *)
(* Positions are abstracted: whether the tornado is within reach of an     *)
(* entity is a free choice of every Run.  The models of the weathers are   *)
(* in the map GFX from the start: the page creates them with its scene.    *)
(***************************************************************************)
EXTENDS Integers, FiniteSets, SequencesExt

CONSTANTS
  Entities,   \* every entity some client may create
  Kind,       \* its type: "drone", "robot", "human" or "satellite"
  Natural,    \* the speed it is created with
  Duration,   \* a weather is completed once its time exceeds this
  Warning,    \* the hurricane model is shown once its time exceeds this
  Steps,      \* the values dt may take
  NoEntity    \* stands for the absence of an entity

Kinds == {"drone", "robot", "human", "satellite"}
Weathers == {"normal", "snow", "tornado", "rain", "hot", "hurricane"}
NoEntry == -1   \* no key of that id in the map prev

ASSUME EntitiesAssumption ==
  /\ IsFiniteSet(Entities)
  /\ NoEntity \notin Entities
ASSUME KindAssumption == Kind \in [Entities -> Kinds]
\* Every entity the pages create is faster than the 10.0 of Weather::Snow
\* (drones and robots 30, humans 20, satellites 35).
ASSUME NaturalAssumption ==
  /\ Natural \in [Entities -> Nat]
  /\ \A e \in Entities : Natural[e] > 10
ASSUME TimeAssumption ==
  /\ Duration \in Nat
  /\ Warning \in Nat
  /\ Steps \subseteq 1 .. Duration

VARIABLES
  entities,   \* SimulationModel::entities, in order of creation
  cursor,     \* 0 between two updates, else the position the loop is at
  forecast,   \* weather.at(index)
  time,       \* seconds the forecast has lasted
  run,        \* the forecast is still to be announced
  prev,       \* the map from ids to the speeds to give back
  speed,      \* the current speed of every entity
  restore,    \* the weather whose model is in the view, or "none"
  raised,     \* the satellite kept under GFX["satellite"]
  sheltered,  \* the entities kept under GFX[id] by HurricaneAct
  delivered,  \* the robots whose status is "delete"
  erased,     \* the entities the tornado removed from the simulation
  shown,      \* the entities a page that was there from the start displays
  announced,  \* the notices sent since the forecast was drawn
  slot        \* what entities[i] is once Run is done, or NoEntity before

worldVars == <<entities, delivered, erased, shown>>
skyVars == <<forecast, time, run, announced>>
speedVars == <<prev, speed>>
gfxVars == <<restore, raised, sheltered>>
vars == <<worldVars, skyVars, speedVars, gfxVars, cursor, slot>>

Scene == ToSet(entities)
IsCompleted == time > Duration

Init ==
  /\ entities = <<>>
  /\ cursor = 0
  /\ forecast = "normal"
  /\ time = 0
  /\ run = TRUE
  /\ prev = [e \in Entities |-> NoEntry]
  /\ speed = Natural
  /\ restore = "none"
  /\ raised = NoEntity
  /\ sheltered = {}
  /\ delivered = {}
  /\ erased = {}
  /\ shown = {}
  /\ announced = <<>>
  /\ slot = NoEntity

-----------------------------------------------------------------------------
(* Commands of the clients.                                                *)

\* SimulationModel::CreateEntity: a human is refused in severe weather.
CreateEntity(e) ==
  /\ cursor = 0
  /\ e \notin Scene \cup erased
  /\ Kind[e] = "human" => forecast \in {"normal", "rain"}
  /\ entities' = Append(entities, e)
  /\ shown' = shown \cup {e}
  /\ UNCHANGED <<delivered, erased, skyVars, speedVars, gfxVars, cursor, slot>>

-----------------------------------------------------------------------------
(* Weather::Update: what each weather does to the speed of an entity.      *)

\* Drones and humans override SetSpeed; robots and satellites inherit the
\* empty one of IEntity.
SetSpeed(e, old, new) ==
  IF Kind[e] \in {"drone", "human"} THEN new ELSE old

\* One round of Weather::Snow for an entity of speed s and entry p.
Snow(e, s, p) ==
  LET slowed == p \in {NoEntry, 0} /\ s > 10
      frozen == Kind[e] = "human" /\ s > 1
  IN  [speed |-> IF frozen THEN SetSpeed(e, s, 0)
                 ELSE IF slowed THEN SetSpeed(e, s, s \div 2) ELSE s,
       prev  |-> IF frozen \/ slowed THEN s
                 ELSE IF p = NoEntry THEN 0 ELSE p]

\* One round of Weather::Tornado or Weather::Hurricane.
Halt(e, s, p) ==
  IF s > 1 THEN [speed |-> SetSpeed(e, s, 0), prev |-> s]
  ELSE [speed |-> s, prev |-> p]

\* Mutant of Hot: the entity's entry in prev is not consulted.
HotAgain(e, s, p) ==
  IF Kind[e] # "satellite"
  THEN [speed |-> SetSpeed(e, s, 2 * s), prev |-> s] ELSE [speed |-> s, prev |-> p]

\* One round of Weather::Hot.
Hot(e, s, p) ==
  IF Kind[e] # "satellite" /\ p = NoEntry
  THEN [speed |-> SetSpeed(e, s, 2 * s), prev |-> s]
  ELSE [speed |-> s, prev |-> p]

Affect(w, e, s, p) ==
  CASE w = "snow"                    -> Snow(e, s, p)
    [] w \in {"tornado", "hurricane"} -> Halt(e, s, p)
    [] w = "hot"                     -> Hot(e, s, p)
    [] OTHER                         -> [speed |-> s, prev |-> p]

\* Weather::Revert, called when a weather other than "normal" is completed.
Reverting == IsCompleted /\ forecast # "normal"

\* Mutant of RevertedSpeed: gives back a speed that was never taken.
RevertedBlindly(e) ==
  IF Reverting /\ e \in Scene THEN SetSpeed(e, speed[e], prev[e]) ELSE speed[e]

RevertedSpeed(e) ==
  IF Reverting /\ e \in Scene /\ prev[e] # NoEntry
  THEN SetSpeed(e, speed[e], prev[e]) ELSE speed[e]

\* Mutant of RevertedPrev: the map is not cleared.
KeptPrev(e) == prev[e]

RevertedPrev(e) == IF Reverting THEN NoEntry ELSE prev[e]

\* The speed and entry of e once Weather::Update has run under forecast w.
Adjusted(w, e) ==
  IF e \in Scene THEN Affect(w, e, RevertedSpeed(e), RevertedPrev(e))
  ELSE [speed |-> RevertedSpeed(e), prev |-> RevertedPrev(e)]

\* Mutant of Announce: a weather that is drawn again is not announced again.
AnnounceOnChange(w) ==
  LET due == run \/ w # forecast
      sent == IF IsCompleted THEN <<>> ELSE announced
  IN  /\ announced' = IF due THEN Append(sent, w) ELSE sent
      /\ run' = FALSE

\* The notice of Normal, Snow, ..., sent while run is set.
Announce(w) ==
  LET due == run \/ IsCompleted
      sent == IF IsCompleted THEN <<>> ELSE announced
  IN  /\ announced' = IF due THEN Append(sent, w) ELSE sent
      /\ run' = FALSE

\* Weather::UpdateGFX: the model of the forecast enters the view once, the
\* hurricane's only after the warning.
UpdateGFX(w, t) ==
  restore' = IF restore = "none" /\ w # "normal" /\ (w = "hurricane" => t > Warning)
             THEN w ELSE restore

\* Weather::Update(dt) and UpdateGFX(dt); w is the forecast they work under,
\* drawn anew if the one before is completed.
BeginUpdate(dt, w) ==
  /\ cursor = 0
  /\ ~IsCompleted => w = forecast
  /\ speed' = [e \in Entities |-> Adjusted(w, e).speed]
  /\ prev' = [e \in Entities |-> Adjusted(w, e).prev]
  /\ forecast' = w
  /\ time' = (IF IsCompleted THEN 0 ELSE time) + dt
  /\ Announce(w)
  /\ UpdateGFX(w, time')
  /\ cursor' = 1
  /\ UNCHANGED <<worldVars, raised, sheltered, slot>>

-----------------------------------------------------------------------------
(* The loop over the entities.                                             *)

\* Mutant of TornadoErase: the loop moves on from the erased entity at once.
EraseAndSkip ==
  /\ slot = NoEntity
  /\ 0 < cursor /\ cursor <= Len(entities)
  /\ forecast = "tornado"
  /\ LET e == entities[cursor]
     IN  /\ \/ Kind[e] = "human"
            \/ Kind[e] = "robot" /\ e \in delivered
         /\ entities' = RemoveAt(entities, cursor)
         /\ erased' = erased \cup {e}
         /\ shown' = shown \ {e}
  /\ cursor' = cursor + 1
  /\ UNCHANGED <<delivered, slot, skyVars, speedVars, gfxVars>>

\* Mutant of TornadoErase: takes robots whose trip is not over, too.
EraseAnyRobot ==
  /\ slot = NoEntity
  /\ 0 < cursor /\ cursor <= Len(entities)
  /\ forecast = "tornado"
  /\ LET e == entities[cursor]
         left == RemoveAt(entities, cursor)
     IN  /\ Kind[e] \in {"human", "robot"}
         /\ entities' = left
         /\ erased' = erased \cup {e}
         /\ shown' = shown \ {e}
         /\ slot' = IF cursor <= Len(left) THEN left[cursor] ELSE e
  /\ UNCHANGED <<delivered, cursor, skyVars, speedVars, gfxVars>>

\* Weather::TornadoAct erases the entity at the cursor, which the next one
\* then replaces.  When it was the last one, erase leaves its pointer in the
\* slot behind the end, and the rest of the iteration works on that.
TornadoErase ==
  /\ slot = NoEntity
  /\ 0 < cursor /\ cursor <= Len(entities)
  /\ forecast = "tornado"
  /\ LET e == entities[cursor]
         left == RemoveAt(entities, cursor)
     IN  /\ \/ Kind[e] = "human"
            \/ Kind[e] = "robot" /\ e \in delivered
         /\ entities' = left
         /\ erased' = erased \cup {e}
         /\ shown' = shown \ {e}
         /\ slot' = IF cursor <= Len(left) THEN left[cursor] ELSE e
  /\ UNCHANGED <<delivered, cursor, skyVars, speedVars, gfxVars>>

\* Mutant of Spare: the hurricane, like the tornado, hides the first it meets.
SpareOnlyFirst ==
  /\ slot = NoEntity
  /\ 0 < cursor /\ cursor <= Len(entities)
  /\ LET e == entities[cursor]
         raise == forecast = "tornado" /\ Kind[e] = "satellite" /\ raised = NoEntity
         shelter == forecast = "hurricane" /\ sheltered = {}
     IN  /\ raised' = IF raise THEN e ELSE raised
         /\ sheltered' = IF shelter THEN {e} ELSE sheltered
         /\ shown' = IF raise \/ shelter THEN shown \ {e} ELSE shown
         /\ slot' = e
  /\ UNCHANGED <<entities, delivered, erased, cursor, skyVars, speedVars, restore>>

\* A Run that erases nothing: TornadoAct raises the first satellite it meets,
\* HurricaneAct shelters every entity.
Spare ==
  /\ slot = NoEntity
  /\ 0 < cursor /\ cursor <= Len(entities)
  /\ LET e == entities[cursor]
         raise == forecast = "tornado" /\ Kind[e] = "satellite" /\ raised = NoEntity
         shelter == forecast = "hurricane" /\ e \notin sheltered
     IN  /\ raised' = IF raise THEN e ELSE raised
         /\ sheltered' = IF shelter THEN sheltered \cup {e} ELSE sheltered
         /\ shown' = IF raise \/ shelter THEN shown \ {e} ELSE shown
         /\ slot' = e
  /\ UNCHANGED <<entities, delivered, erased, cursor, skyVars, speedVars, restore>>

\* The rest of the iteration: entities[i]->Update and UpdateEntity on what is
\* in slot i.  A drone's Update may bring one robot to its destination.
UpdateSlot ==
  /\ slot # NoEntity
  /\ slot' = NoEntity
  /\ cursor' = cursor + 1
  /\ \/ delivered' = delivered
     \/ /\ Kind[slot] = "drone"
        /\ \E r \in {x \in Scene : Kind[x] = "robot"} \ delivered :
             delivered' = delivered \cup {r}
  /\ UNCHANGED <<entities, erased, shown, skyVars, speedVars, gfxVars>>

\* Mutants of Ended: a second too late, and never.
EndedLate(w) == forecast = w /\ time > Duration + 1
EndedNever(w) == FALSE

Ended(w) == forecast = w /\ IsCompleted

\* Mutant of EndUpdate: the weather's model stays in the view.
EndUnderOldSky ==
  /\ slot = NoEntity
  /\ cursor > Len(entities)
  /\ LET descends == IF Ended("tornado") THEN {raised} \ {NoEntity} ELSE {}
         leaves == IF Ended("hurricane") THEN sheltered \cap Scene ELSE {}
     IN  /\ raised' = IF Ended("tornado") THEN NoEntity ELSE raised
         /\ sheltered' = sheltered \ leaves
         /\ shown' = shown \cup descends \cup leaves
  /\ cursor' = 0
  /\ UNCHANGED <<entities, delivered, erased, restore, slot, skyVars, speedVars>>

\* Weather::Reverse, after the loop: what a completed weather hid comes back.
EndUpdate ==
  /\ slot = NoEntity
  /\ cursor > Len(entities)
  /\ LET descends == IF Ended("tornado") THEN {raised} \ {NoEntity} ELSE {}
         leaves == IF Ended("hurricane") THEN sheltered \cap Scene ELSE {}
     IN  /\ restore' = IF IsCompleted THEN "none" ELSE restore
         /\ raised' = IF Ended("tornado") THEN NoEntity ELSE raised
         /\ sheltered' = sheltered \ leaves
         /\ shown' = shown \cup descends \cup leaves
  /\ cursor' = 0
  /\ UNCHANGED <<entities, delivered, erased, slot, skyVars, speedVars>>

Update ==
  \/ \E dt \in Steps, w \in Weathers : BeginUpdate(dt, w)
  \/ TornadoErase
  \/ Spare
  \/ UpdateSlot
  \/ EndUpdate

Next == Update \/ \E e \in Entities : CreateEntity(e)

Spec == Init /\ [][Next]_vars

\* The visualization page asks for an update on every animation frame, and
\* the server runs each to its end.
FairSpec == Spec /\ WF_vars(Update)

-----------------------------------------------------------------------------
(* Properties.                                                             *)

\* The speed a weather owes an entity: the effect on its natural speed.
SpeedUnder(w, e) == Affect(w, e, Natural[e], NoEntry).speed

\* Type correctness of all the state kept by Weather and SimulationModel.
TypeOK ==
  /\ entities \in Seq(Entities)
  /\ cursor \in Nat
  /\ forecast \in Weathers
  /\ time \in Nat
  /\ run \in BOOLEAN
  /\ prev \in [Entities -> Nat \cup {NoEntry}]
  /\ speed \in [Entities -> Nat]
  /\ restore \in Weathers \cup {"none"}
  /\ raised \in Entities \cup {NoEntity}
  /\ sheltered \subseteq Entities
  /\ delivered \subseteq Entities
  /\ erased \subseteq Entities
  /\ shown \subseteq Entities
  /\ announced \in Seq(Weathers)
  /\ slot \in Entities \cup {NoEntity}
  /\ cursor = 0 => slot = NoEntity

\* Whatever sequence of weathers an entity lived through, its speed is its
\* natural speed under the effect of the present forecast alone (or, for one
\* created since the last update, its natural speed): effects never pile up.
SpeedsDontPileUp ==
  \A e \in Scene :
    /\ speed[e] \in {Natural[e], SpeedUnder(forecast, e)}
    /\ cursor > 0 => speed[e] = SpeedUnder(forecast, e)

\* A page displays exactly the entities of the simulation but those the
\* running tornado or hurricane hides; a completed weather hides nothing.
HiddenOnlyBySevereWeather ==
  /\ shown = Scene \ (sheltered \cup {raised})
  /\ raised # NoEntity => forecast = "tornado"
  /\ sheltered # {} => forecast = "hurricane"
  /\ cursor = 0 /\ IsCompleted => shown = Scene

\* The weather model in the view is the forecast's, and between updates it is
\* gone as soon as the forecast is completed.
SkyMatchesForecast ==
  /\ restore # "none" => restore = forecast
  /\ cursor = 0 /\ IsCompleted => restore = "none"

\* Every weather is announced once, under its own name, however often the
\* same one is drawn again.
AnnouncedOnce == time > 0 => announced = <<forecast>>

\* The pages are told in an order they can follow: whatever the weathers do, an
\* entity is hidden or erased only while it is in view, what is hidden comes
\* back together, and one weather's model leaves before another's enters.
Pages == INSTANCE Feed WITH
  scene <- Scene, gone <- erased, sky <- restore,
  WeatherTypes <- Weathers \ {"normal"}
FeedsPages == Pages!Spec

\* An update under a hurricane that is not over ends with an empty view.
HurricaneHidesEveryone ==
  [][forecast = "hurricane" /\ cursor > 0 /\ cursor' = 0 /\ ~IsCompleted
       => shown' = {}]_vars

\* Whatever a weather hides is displayed again.
HiddenComesBack ==
  \A e \in Entities : (e \in Scene \ shown) ~> (e \in shown)

\* The README says the tornado deletes what it erases: an entity erased is
\* neither updated nor reported to the pages any more.
ErasedStaysErased == slot \notin erased
=============================================================================
