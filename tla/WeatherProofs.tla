---------------------------- MODULE WeatherProofs ----------------------------
(***************************************************************************)
(* Proofs about Weather, for every set of entities, every duration and     *)
(* every set of time steps.                                                *)
(*                                                                         *)
(* TypeCorrect is inductive as it stands.  SpeedsDontPileUp and            *)
(* HiddenOnlyBySevereWeather are not: the first needs to know what the map *)
(* prev holds (Calibrated), the second that entities are in the scene at   *)
(* most once and that what is hidden is there (SceneSound, HiddenSound).   *)
(***************************************************************************)
EXTENDS Weather, SequenceLemmas


-----------------------------------------------------------------------------
(* Types.                                                                  *)

\* The effect of a weather on an entity is a speed and an entry of prev.
LEMMA AffectType ==
  ASSUME NEW w \in Weathers, NEW e \in Entities,
         NEW s \in Nat, NEW p \in Nat \cup {NoEntry}
  PROVE  /\ Affect(w, e, s, p).speed \in Nat
         /\ Affect(w, e, s, p).prev \in Nat \cup {NoEntry}
<1>1. CASE w = "snow"
  BY <1>1 DEF Affect, Snow, SetSpeed, NoEntry
<1>2. CASE w \in {"tornado", "hurricane"}
  BY <1>2 DEF Affect, Halt, SetSpeed, NoEntry
<1>3. CASE w = "hot"
  BY <1>3 DEF Affect, Hot, SetSpeed, NoEntry
<1>4. CASE w \in {"normal", "rain"}
  BY <1>4 DEF Affect
<1>5. QED  BY <1>1, <1>2, <1>3, <1>4 DEF Weathers

\* Weather::Update gives every entity a speed and an entry of the right type.
LEMMA AdjustedType ==
  ASSUME TypeOK, NEW w \in Weathers, NEW e \in Entities
  PROVE  /\ Adjusted(w, e).speed \in Nat
         /\ Adjusted(w, e).prev \in Nat \cup {NoEntry}
<1>1. RevertedSpeed(e) \in Nat /\ RevertedPrev(e) \in Nat \cup {NoEntry}
  BY DEF TypeOK, RevertedSpeed, RevertedPrev, SetSpeed, NoEntry
<1>2. QED  BY <1>1, AffectType DEF Adjusted

\* The types are preserved by every step.
LEMMA TypeStep == TypeOK /\ [Next]_vars => TypeOK'
<1> SUFFICES ASSUME TypeOK, [Next]_vars PROVE TypeOK'
  OBVIOUS
<1>1. ASSUME NEW e \in Entities, CreateEntity(e) PROVE TypeOK'
  BY <1>1 DEF TypeOK, CreateEntity, skyVars, speedVars, gfxVars
<1>2. ASSUME NEW dt \in Steps, NEW w \in Weathers, BeginUpdate(dt, w)
      PROVE  TypeOK'
  <2>1. dt \in Nat
    BY TimeAssumption
  <2>2. time' \in Nat /\ cursor' \in Nat /\ forecast' \in Weathers
    BY <1>2, <2>1 DEF TypeOK, BeginUpdate
  <2>3. speed' \in [Entities -> Nat] /\ prev' \in [Entities -> Nat \cup {NoEntry}]
    BY <1>2, AdjustedType DEF BeginUpdate
  <2>4. run' \in BOOLEAN /\ announced' \in Seq(Weathers)
    <3> DEFINE sent == IF IsCompleted THEN <<>> ELSE announced
    <3>1. sent \in Seq(Weathers)
      BY DEF TypeOK
    <3>2. Append(sent, w) \in Seq(Weathers)
      BY <3>1
    <3>3. QED  BY <1>2, <3>1, <3>2 DEF BeginUpdate, Announce
  <2>5. restore' \in Weathers \cup {"none"}
    BY <1>2 DEF TypeOK, BeginUpdate, UpdateGFX
  <2>6. QED
    BY <1>2, <2>2, <2>3, <2>4, <2>5 DEF TypeOK, BeginUpdate, worldVars
<1>3. CASE TornadoErase
  <2> DEFINE e == entities[cursor]
             left == RemoveAt(entities, cursor)
  <2>1. cursor \in 1 .. Len(entities) /\ e \in Entities
    BY <1>3 DEF TornadoErase, TypeOK
  <2>2. left \in Seq(Entities)
    BY <2>1, RemoveAtPositions DEF TypeOK
  <2>3. (IF cursor <= Len(left) THEN left[cursor] ELSE e) \in Entities
    BY <2>1, <2>2 DEF TypeOK
  <2>4. /\ entities' = left /\ erased' = erased \cup {e} /\ shown' = shown \ {e}
        /\ slot' = IF cursor <= Len(left) THEN left[cursor] ELSE e
        /\ UNCHANGED <<delivered, cursor, skyVars, speedVars, gfxVars>>
    BY <1>3 DEF TornadoErase
  <2> HIDE DEF e, left
  <2>5. slot' \in Entities
    BY <2>3, <2>4
  <2>6. QED
    BY <2>1, <2>2, <2>4, <2>5 DEF TypeOK, skyVars, speedVars, gfxVars
<1>4. CASE Spare
  <2>1. entities[cursor] \in Entities
    BY <1>4 DEF Spare, TypeOK
  <2>2. /\ slot' \in Entities /\ raised' \in Entities \cup {NoEntity}
        /\ sheltered' \subseteq Entities /\ shown' \subseteq Entities
    BY <1>4, <2>1 DEF Spare, TypeOK
  <2>3. QED
    BY <1>4, <2>2 DEF Spare, TypeOK, skyVars, speedVars
<1>5. CASE UpdateSlot
  <2>1. delivered' \subseteq Entities
    BY <1>5, ToSetPositions DEF TypeOK, UpdateSlot, Scene
  <2>2. QED
    BY <1>5, <2>1 DEF TypeOK, UpdateSlot, skyVars, speedVars, gfxVars
<1>6. CASE EndUpdate
  BY <1>6, ToSetPositions DEF EndUpdate, TypeOK, Scene, skyVars, speedVars
<1>7. CASE UNCHANGED vars
  BY <1>7 DEF TypeOK, vars, worldVars, skyVars, speedVars, gfxVars
<1>8. QED
  BY <1>1, <1>2, <1>3, <1>4, <1>6, <1>7, <1>5 DEF Next, Update

\* Every variable of Weather and of the loop of SimulationModel::Update keeps
\* its type, for every scene, duration and time step.
THEOREM TypeCorrect == Spec => []TypeOK
<1>1. Init => TypeOK
  BY NaturalAssumption DEF Init, TypeOK, NoEntry, Weathers
<1>2. QED  BY <1>1, TypeStep, PTL DEF Spec

-----------------------------------------------------------------------------
(* Speeds.                                                                 *)

\* What the map prev holds: an entity without an entry has its natural speed;
\* an entry is the natural speed of an entity that is under the effect of the
\* forecast, and a calm weather has none.
Calibrated(e) ==
  /\ \/ prev[e] = NoEntry /\ speed[e] = Natural[e]
     \/ /\ prev[e] = Natural[e] /\ speed[e] = SpeedUnder(forecast, e)
        /\ e \in Scene /\ forecast \notin {"normal", "rain"}
  /\ cursor > 0 /\ e \in Scene => speed[e] = SpeedUnder(forecast, e)

\* An entity is in the vector at most once, and never again once erased.
SceneSound ==
  /\ Distinct(entities)
  /\ Scene \cap erased = {}

SpeedInv ==
  /\ TypeOK
  /\ SceneSound
  /\ \A e \in Entities \ erased : Calibrated(e)

\* The first round of a weather: it sets an entry to the natural speed or
\* leaves the speed alone, and a calm weather sets none.
LEMMA AffectFresh ==
  ASSUME NEW w \in Weathers, NEW e \in Entities
  PROVE  LET a == Affect(w, e, Natural[e], NoEntry)
         IN  /\ a.speed = SpeedUnder(w, e)
             /\ \/ a.prev = NoEntry /\ a.speed = Natural[e]
                \/ a.prev = Natural[e] /\ w \notin {"normal", "rain"}
<1> USE NaturalAssumption, KindAssumption
<1>1. Natural[e] \in Nat /\ Natural[e] > 10
  OBVIOUS
<1>2. CASE w = "snow"
  BY <1>1, <1>2 DEF Affect, SpeedUnder, Snow, SetSpeed, NoEntry
<1>3. CASE w \in {"tornado", "hurricane"}
  BY <1>1, <1>3 DEF Affect, SpeedUnder, Halt, SetSpeed, NoEntry
<1>4. CASE w = "hot"
  BY <1>1, <1>4 DEF Affect, SpeedUnder, Hot, SetSpeed, NoEntry
<1>5. CASE w \in {"normal", "rain"}
  BY <1>1, <1>5 DEF Affect, SpeedUnder
<1>6. QED  BY <1>2, <1>3, <1>4, <1>5 DEF Weathers

\* Every later round of the same weather changes nothing: the effect is not
\* applied twice.
LEMMA AffectAgain ==
  ASSUME NEW w \in Weathers \ {"normal", "rain"}, NEW e \in Entities
  PROVE  Affect(w, e, SpeedUnder(w, e), Natural[e])
           = [speed |-> SpeedUnder(w, e), prev |-> Natural[e]]
<1> USE NaturalAssumption, KindAssumption
<1>1. Natural[e] \in Nat /\ Natural[e] > 10
  OBVIOUS
<1>2. CASE w = "snow"
  BY <1>1, <1>2 DEF Affect, SpeedUnder, Snow, SetSpeed, NoEntry
<1>3. CASE w \in {"tornado", "hurricane"}
  BY <1>1, <1>3 DEF Affect, SpeedUnder, Halt, SetSpeed, NoEntry
<1>4. CASE w = "hot"
  BY <1>1, <1>4 DEF Affect, SpeedUnder, Hot, SetSpeed, NoEntry
<1>5. QED  BY <1>2, <1>3, <1>4 DEF Weathers

\* An entity whose SetSpeed does nothing is at its natural speed under every
\* weather.
LEMMA InertSpeed ==
  ASSUME NEW w \in Weathers, NEW e \in Entities, Kind[e] \notin {"drone", "human"}
  PROVE  SpeedUnder(w, e) = Natural[e]
<1>1. CASE w = "snow"
  BY <1>1, NaturalAssumption DEF Affect, SpeedUnder, Snow, SetSpeed
<1>2. CASE w \in {"tornado", "hurricane"}
  BY <1>2, NaturalAssumption DEF Affect, SpeedUnder, Halt, SetSpeed
<1>3. CASE w = "hot"
  BY <1>3, NaturalAssumption DEF Affect, SpeedUnder, Hot, SetSpeed
<1>4. CASE w \in {"normal", "rain"}
  BY <1>4 DEF Affect, SpeedUnder
<1>5. QED  BY <1>1, <1>2, <1>3, <1>4 DEF Weathers

\* Revert leaves a calibrated entity at its natural speed without an entry.
LEMMA RevertRestores ==
  ASSUME SpeedInv, NEW e \in Entities \ erased, IsCompleted
  PROVE  RevertedSpeed(e) = Natural[e] /\ RevertedPrev(e) = NoEntry
<1>1. Calibrated(e) /\ forecast \in Weathers
  BY DEF SpeedInv, TypeOK
<1>2. Natural[e] \in Nat /\ Natural[e] # NoEntry
  BY NaturalAssumption DEF NoEntry
<1>3. CASE prev[e] = NoEntry
  BY <1>1, <1>2, <1>3 DEF Calibrated, RevertedSpeed, RevertedPrev
<1>4. CASE prev[e] # NoEntry
  <2>1. /\ prev[e] = Natural[e] /\ speed[e] = SpeedUnder(forecast, e)
        /\ Reverting /\ e \in Scene
    BY <1>1, <1>4 DEF Calibrated, Reverting
  <2>2. Kind[e] \notin {"drone", "human"} => SpeedUnder(forecast, e) = Natural[e]
    BY <1>1, InertSpeed
  <2>3. QED  BY <2>1, <2>2, <1>2 DEF RevertedSpeed, RevertedPrev, SetSpeed
<1>5. QED  BY <1>3, <1>4

\* Weather::Update calibrates every entity to the forecast it works under.
LEMMA AdjustedCalibrated ==
  ASSUME SpeedInv, NEW w \in Weathers, ~IsCompleted => w = forecast,
         NEW e \in Entities \ erased
  PROVE  LET a == Adjusted(w, e)
         IN  /\ \/ a.prev = NoEntry /\ a.speed = Natural[e]
                \/ /\ a.prev = Natural[e] /\ a.speed = SpeedUnder(w, e)
                   /\ e \in Scene /\ w \notin {"normal", "rain"}
             /\ e \in Scene => a.speed = SpeedUnder(w, e)
<1>1. Calibrated(e) /\ forecast \in Weathers
  BY DEF SpeedInv, TypeOK
<1>2. Natural[e] \in Nat /\ Natural[e] # NoEntry
  BY NaturalAssumption DEF NoEntry
<1>3. CASE RevertedSpeed(e) = Natural[e] /\ RevertedPrev(e) = NoEntry
  <2>1. CASE e \in Scene
    BY <1>3, <2>1, AffectFresh DEF Adjusted
  <2>2. CASE e \notin Scene
    BY <1>3, <2>2 DEF Adjusted
  <2>3. QED  BY <2>1, <2>2
<1>4. CASE IsCompleted
  BY <1>4, <1>3, RevertRestores
<1>5. CASE ~IsCompleted /\ prev[e] = NoEntry
  BY <1>5, <1>3, <1>1, <1>2 DEF Calibrated, RevertedSpeed, RevertedPrev, Reverting
<1>6. CASE ~IsCompleted /\ prev[e] # NoEntry
  <2>1. /\ w = forecast /\ e \in Scene /\ w \in Weathers \ {"normal", "rain"}
        /\ RevertedSpeed(e) = SpeedUnder(w, e) /\ RevertedPrev(e) = Natural[e]
    BY <1>6, <1>1 DEF Calibrated, RevertedSpeed, RevertedPrev, Reverting
  <2>2. Adjusted(w, e) = Affect(w, e, SpeedUnder(w, e), Natural[e])
    BY <2>1 DEF Adjusted
  <2>3. Adjusted(w, e) = [speed |-> SpeedUnder(w, e), prev |-> Natural[e]]
    BY <2>1, <2>2, AffectAgain
  <2>4. QED  BY <2>1, <2>3
<1>7. QED  BY <1>4, <1>5, <1>6

\* What CreateEntity and TornadoErase do to the set of entities in the scene.
LEMMA CreateScene ==
  ASSUME TypeOK, SceneSound, NEW x \in Entities, CreateEntity(x)
  PROVE  Scene' = Scene \cup {x} /\ SceneSound'
<1>1. /\ entities \in Seq(Entities) /\ x \notin Scene \cup erased
      /\ entities' = Append(entities, x) /\ erased' = erased
  BY DEF TypeOK, CreateEntity
<1>2. Scene' = Scene \cup {x}
  BY <1>1, AppendToSet DEF Scene
<1>3. \A i \in 1 .. Len(entities) : entities[i] # x
  BY <1>1, ToSetPositions DEF Scene
<1>4. Distinct(entities')
  BY <1>1, <1>3 DEF SceneSound, Distinct
<1>5. QED  BY <1>1, <1>2, <1>4 DEF SceneSound

\* What TornadoErase does to the vector, position by position.
LEMMA EraseFacts ==
  ASSUME TypeOK, TornadoErase
  PROVE  /\ forecast = "tornado" /\ Kind[entities[cursor]] \in {"human", "robot"}
         /\ cursor > 0
         /\ UNCHANGED <<cursor, skyVars, speedVars, gfxVars>>
  BY DEF TypeOK, TornadoErase

\* What TornadoErase does to the set of entities.
LEMMA EraseScene ==
  ASSUME TypeOK, SceneSound, TornadoErase
  PROVE  /\ entities[cursor] \in Scene
         /\ Scene' = Scene \ {entities[cursor]}
         /\ erased' = erased \cup {entities[cursor]}
         /\ shown' = shown \ {entities[cursor]}
         /\ SceneSound'
<1>1. /\ entities \in Seq(Entities) /\ cursor \in 1 .. Len(entities)
      /\ entities' = RemoveAt(entities, cursor)
      /\ erased' = erased \cup {entities[cursor]}
      /\ shown' = shown \ {entities[cursor]}
  BY DEF TypeOK, TornadoErase
<1>2. Scene' = Scene \ {entities[cursor]} /\ Distinct(entities')
  BY <1>1, RemoveAtToSet DEF Scene, SceneSound
<1>3. entities[cursor] \in Scene
  BY <1>1, ToSetPositions DEF Scene
<1>4. QED  BY <1>1, <1>2, <1>3 DEF SceneSound

\* SpeedInv is inductive.
LEMMA SpeedStep == SpeedInv /\ [Next]_vars => SpeedInv'
<1> SUFFICES ASSUME SpeedInv, [Next]_vars PROVE SpeedInv'
  OBVIOUS
<1>0. TypeOK /\ SceneSound /\ TypeOK'
  BY TypeStep DEF SpeedInv
<1>1. ASSUME NEW x \in Entities, CreateEntity(x) PROVE SpeedInv'
  <2>1. Scene' = Scene \cup {x} /\ SceneSound'
    BY <1>0, <1>1, CreateScene
  <2>2. cursor' = 0 /\ UNCHANGED <<erased, prev, speed, forecast>>
    BY <1>1 DEF CreateEntity, skyVars, speedVars
  <2>3. ASSUME NEW e \in Entities \ erased PROVE Calibrated(e)'
    BY <2>1, <2>2, <2>3 DEF SpeedInv, Calibrated, SpeedUnder
  <2>4. QED  BY <1>0, <2>1, <2>2, <2>3 DEF SpeedInv
<1>2. ASSUME NEW dt \in Steps, NEW w \in Weathers, BeginUpdate(dt, w)
      PROVE  SpeedInv'
  <2>1. /\ ~IsCompleted => w = forecast
        /\ forecast' = w /\ cursor' = 1
        /\ speed' = [e \in Entities |-> Adjusted(w, e).speed]
        /\ prev' = [e \in Entities |-> Adjusted(w, e).prev]
        /\ UNCHANGED <<entities, erased>>
    BY <1>2 DEF BeginUpdate, worldVars
  <2>2. Scene' = Scene /\ SceneSound'
    BY <1>0, <2>1 DEF Scene, SceneSound
  <2>3. ASSUME NEW e \in Entities \ erased PROVE Calibrated(e)'
    BY <2>1, <2>2, AdjustedCalibrated DEF Calibrated, SpeedUnder
  <2>4. QED  BY <1>0, <2>1, <2>2, <2>3 DEF SpeedInv
<1>3. CASE TornadoErase
  <2>1. /\ Scene' \subseteq Scene /\ SceneSound' /\ erased \subseteq erased'
        /\ Scene \subseteq Scene' \cup erased'
    BY <1>0, <1>3, EraseScene
  <2>2. cursor > 0 /\ UNCHANGED <<prev, speed, forecast>>
    BY <1>0, <1>3, EraseFacts DEF skyVars, speedVars
  <2>3. ASSUME NEW e \in Entities \ erased' PROVE Calibrated(e)'
    BY <2>1, <2>2, <2>3 DEF SpeedInv, Calibrated, SpeedUnder
  <2>4. QED  BY <1>0, <2>1, <2>3 DEF SpeedInv
<1>4. CASE Spare \/ UpdateSlot
  <2>1. cursor > 0 /\ UNCHANGED <<entities, erased, prev, speed, forecast>>
    BY <1>0, <1>4 DEF TypeOK, Spare, UpdateSlot, skyVars, speedVars
  <2>2. Scene' = Scene /\ SceneSound'
    BY <1>0, <2>1 DEF Scene, SceneSound
  <2>3. ASSUME NEW e \in Entities \ erased PROVE Calibrated(e)'
    BY <2>1, <2>2 DEF SpeedInv, Calibrated, SpeedUnder
  <2>4. QED  BY <1>0, <2>1, <2>2, <2>3 DEF SpeedInv
<1>5. CASE EndUpdate
  <2>1. cursor' = 0 /\ UNCHANGED <<entities, erased, prev, speed, forecast>>
    BY <1>5 DEF EndUpdate, skyVars, speedVars
  <2>2. Scene' = Scene /\ SceneSound'
    BY <1>0, <2>1 DEF Scene, SceneSound
  <2>3. ASSUME NEW e \in Entities \ erased PROVE Calibrated(e)'
    BY <2>1, <2>2 DEF SpeedInv, Calibrated, SpeedUnder
  <2>4. QED  BY <1>0, <2>1, <2>2, <2>3 DEF SpeedInv
<1>6. CASE UNCHANGED vars
  BY <1>0, <1>6 DEF SpeedInv, SceneSound, Calibrated, SpeedUnder, Scene,
                    vars, worldVars, skyVars, speedVars
<1>7. QED
  BY <1>1, <1>2, <1>3, <1>4, <1>5, <1>6 DEF Next, Update

\* No speed has been touched at the start.
LEMMA SpeedInit == Init => SpeedInv
<1> SUFFICES ASSUME Init PROVE SpeedInv
  OBVIOUS
<1>1. TypeOK
  BY NaturalAssumption DEF Init, TypeOK, NoEntry, Weathers
<1>2. SceneSound
  BY DEF Init, SceneSound, Distinct, Scene
<1>3. QED
  BY <1>1, <1>2 DEF Init, SpeedInv, Calibrated

\* Whatever weathers follow each other, the speed of every entity is its
\* natural speed under the effect of the present forecast alone: Snow,
\* Tornado, Hot, Hurricane and Revert never pile up.
THEOREM SpeedsNeverPileUp == Spec => []SpeedsDontPileUp
<1>1. SpeedInv => SpeedsDontPileUp
  <2> SUFFICES ASSUME SpeedInv, NEW e \in Scene
               PROVE  /\ speed[e] \in {Natural[e], SpeedUnder(forecast, e)}
                      /\ cursor > 0 => speed[e] = SpeedUnder(forecast, e)
    BY DEF SpeedsDontPileUp
  <2>1. e \in Entities \ erased
    BY ToSetPositions DEF SpeedInv, TypeOK, SceneSound, Scene
  <2>2. QED  BY <2>1 DEF SpeedInv, Calibrated
<1>2. QED  BY <1>1, SpeedInit, SpeedStep, PTL DEF Spec

-----------------------------------------------------------------------------
(* What is hidden.                                                         *)

\* What the severe weathers hide is in the scene (it can be given back), the
\* raised entity is a satellite (no tornado erases it), and each of the two
\* marks exists only under the weather that clears it.
HiddenSound ==
  /\ shown = Scene \ (sheltered \cup {raised})
  /\ raised # NoEntity =>
       forecast = "tornado" /\ raised \in Scene /\ Kind[raised] = "satellite"
  /\ sheltered # {} => forecast = "hurricane"
  /\ sheltered \subseteq Scene
  /\ cursor = 0 /\ IsCompleted => raised = NoEntity /\ sheltered = {}

HiddenInv == TypeOK /\ SceneSound /\ HiddenSound

\* Every step hides and shows in step with the weather.
LEMMA HiddenStep == HiddenInv /\ [Next]_vars => HiddenInv'
<1> SUFFICES ASSUME HiddenInv, [Next]_vars PROVE HiddenInv'
  OBVIOUS
<1>0. /\ TypeOK /\ SceneSound /\ HiddenSound /\ TypeOK'
      /\ Scene \subseteq Entities /\ NoEntity \notin Scene
  BY TypeStep, ToSetPositions, EntitiesAssumption DEF HiddenInv, TypeOK, Scene
<1>1. ASSUME NEW x \in Entities, CreateEntity(x) PROVE HiddenInv'
  <2>1. Scene' = Scene \cup {x} /\ SceneSound' /\ x \notin Scene /\ x # NoEntity
    BY <1>0, <1>1, CreateScene, EntitiesAssumption DEF CreateEntity
  <2>2. /\ shown' = shown \cup {x}
        /\ UNCHANGED <<raised, sheltered, forecast, time, cursor>>
    BY <1>1 DEF CreateEntity, skyVars, gfxVars
  <2>3. HiddenSound'
    <3>1. IsCompleted' = IsCompleted
      BY <2>2 DEF IsCompleted
    <3>2. shown' = Scene' \ (sheltered' \cup {raised'})
      BY <1>0, <2>1, <2>2 DEF HiddenSound
    <3>3. QED  BY <1>0, <2>1, <2>2, <3>1, <3>2 DEF HiddenSound
  <2>4. QED  BY <1>0, <2>1, <2>3 DEF HiddenInv
<1>2. ASSUME NEW dt \in Steps, NEW w \in Weathers, BeginUpdate(dt, w)
      PROVE  HiddenInv'
  <2>1. /\ cursor = 0 /\ cursor' = 1 /\ forecast' = w
        /\ ~IsCompleted => w = forecast
        /\ UNCHANGED <<entities, erased, shown, raised, sheltered>>
    BY <1>2 DEF BeginUpdate, worldVars
  <2>2. Scene' = Scene /\ SceneSound'
    BY <1>0, <2>1 DEF Scene, SceneSound
  <2>3. HiddenSound'
    BY <1>0, <2>1, <2>2 DEF HiddenSound
  <2>4. QED  BY <1>0, <2>2, <2>3 DEF HiddenInv
<1>3. CASE TornadoErase
  <2>1. /\ entities[cursor] \in Scene
        /\ Scene' = Scene \ {entities[cursor]} /\ SceneSound'
        /\ shown' = shown \ {entities[cursor]}
    BY <1>0, <1>3, EraseScene
  <2>2. /\ forecast = "tornado" /\ Kind[entities[cursor]] # "satellite"
        /\ cursor > 0 /\ cursor' > 0
        /\ UNCHANGED <<raised, sheltered, forecast>>
    BY <1>0, <1>3, EraseFacts DEF skyVars, gfxVars
  <2>3. HiddenSound'
    BY <1>0, <2>1, <2>2 DEF HiddenSound
  <2>4. QED  BY <1>0, <2>1, <2>3 DEF HiddenInv
<1>4. CASE Spare
  <2> DEFINE e == entities[cursor]
             raise == forecast = "tornado" /\ Kind[e] = "satellite" /\ raised = NoEntity
             shelter == forecast = "hurricane" /\ e \notin sheltered
  <2>1. /\ raised' = IF raise THEN e ELSE raised
        /\ sheltered' = IF shelter THEN sheltered \cup {e} ELSE sheltered
        /\ shown' = IF raise \/ shelter THEN shown \ {e} ELSE shown
        /\ cursor \in 1 .. Len(entities) /\ cursor' > 0
        /\ UNCHANGED <<entities, erased, forecast>>
    BY <1>0, <1>4 DEF TypeOK, Spare, skyVars
  <2>2. Scene' = Scene /\ SceneSound' /\ e \in Scene
    BY <1>0, <2>1, ToSetPositions DEF Scene, SceneSound, TypeOK
  <2> HIDE DEF e
  <2>3. HiddenSound'
    BY <1>0, <2>1, <2>2 DEF HiddenSound
  <2>4. QED  BY <1>0, <2>2, <2>3 DEF HiddenInv
<1>5. CASE UpdateSlot
  <2>1. cursor' > 0 /\ UNCHANGED <<entities, erased, shown, forecast, raised, sheltered>>
    BY <1>0, <1>5 DEF TypeOK, UpdateSlot, skyVars, gfxVars
  <2>2. Scene' = Scene /\ SceneSound'
    BY <1>0, <2>1 DEF Scene, SceneSound
  <2>3. HiddenSound'
    BY <1>0, <2>1, <2>2 DEF HiddenSound
  <2>4. QED  BY <1>0, <2>2, <2>3 DEF HiddenInv
<1>6. CASE EndUpdate
  <2>1. UNCHANGED <<entities, erased, forecast, time>>
    BY <1>6 DEF EndUpdate, skyVars
  <2>2. Scene' = Scene /\ SceneSound' /\ IsCompleted' = IsCompleted
    BY <1>0, <2>1 DEF Scene, SceneSound, IsCompleted
  <2>3. HiddenSound'
    <3>1. CASE Ended("tornado")
      BY <1>0, <1>6, <2>1, <2>2, <3>1 DEF HiddenSound, EndUpdate, Ended
    <3>2. CASE Ended("hurricane")
      BY <1>0, <1>6, <2>1, <2>2, <3>2 DEF HiddenSound, EndUpdate, Ended
    <3>3. CASE ~Ended("tornado") /\ ~Ended("hurricane")
      BY <1>0, <1>6, <2>1, <2>2, <3>3 DEF HiddenSound, EndUpdate, Ended
    <3>4. QED  BY <3>1, <3>2, <3>3
  <2>4. QED  BY <1>0, <2>2, <2>3 DEF HiddenInv
<1>7. CASE UNCHANGED vars
  BY <1>0, <1>7 DEF HiddenInv, SceneSound, HiddenSound, Scene, IsCompleted,
                    vars, worldVars, skyVars, gfxVars
<1>8. QED
  BY <1>1, <1>2, <1>3, <1>4, <1>6, <1>7, <1>5 DEF Next, Update

\* Nothing is hidden at the start.
LEMMA HiddenInit == Init => HiddenInv
<1> SUFFICES ASSUME Init PROVE HiddenInv
  OBVIOUS
<1>1. TypeOK /\ SceneSound
  BY SpeedInit DEF SpeedInv
<1>2. Scene = {}
  BY DEF Init, Scene, ToSet
<1>3. ~IsCompleted
  BY TimeAssumption DEF Init, IsCompleted
<1>4. QED
  BY <1>1, <1>2, <1>3 DEF Init, HiddenInv, HiddenSound

\* A page shows every entity but those the tornado or hurricane that is
\* running hides: Reverse gives back all that TornadoAct and HurricaneAct
\* hid, and the tornado never erases what it would have to give back.
THEOREM OnlySevereWeatherHides == Spec => []HiddenOnlyBySevereWeather
<1>1. HiddenInv => HiddenOnlyBySevereWeather
  BY ToSetPositions, EntitiesAssumption
     DEF HiddenInv, HiddenSound, HiddenOnlyBySevereWeather, TypeOK, Scene
<1>2. QED  BY <1>1, HiddenInit, HiddenStep, PTL DEF Spec

\* Under a hurricane, what the loop has passed is sheltered.
PassedSheltered ==
  forecast = "hurricane" =>
    \A i \in 1 .. Len(entities) :
      i < cursor \/ (i = cursor /\ slot # NoEntity) => entities[i] \in sheltered

\* The loop leaves nobody out: only the tornado takes entities away under it.
LEMMA PassedStep == HiddenInv /\ PassedSheltered /\ [Next]_vars => PassedSheltered'
<1> SUFFICES ASSUME HiddenInv, PassedSheltered, [Next]_vars, forecast' = "hurricane",
                    NEW i \in (1 .. Len(entities))',
                    (i < cursor \/ (i = cursor /\ slot # NoEntity))'
             PROVE  (entities[i] \in sheltered)'
  BY DEF PassedSheltered
<1> USE DEF HiddenInv
<1>1. ASSUME NEW x \in Entities, CreateEntity(x) PROVE FALSE
  BY <1>1 DEF CreateEntity, TypeOK
<1>2. ASSUME NEW dt \in Steps, NEW w \in Weathers, BeginUpdate(dt, w) PROVE FALSE
  BY <1>2 DEF BeginUpdate, TypeOK
<1>3. CASE TornadoErase
  BY <1>3 DEF TornadoErase, skyVars
<1>4. CASE Spare
  <2>1. /\ UNCHANGED <<entities, cursor, forecast>>
        /\ slot = NoEntity
        /\ sheltered' = IF forecast = "hurricane" /\ entities[cursor] \notin sheltered
                        THEN sheltered \cup {entities[cursor]} ELSE sheltered
    BY <1>4 DEF Spare, skyVars
  <2>2. QED
    BY <2>1 DEF PassedSheltered
<1>5. CASE UpdateSlot
  <2>1. /\ UNCHANGED <<entities, sheltered, forecast>> /\ cursor' = cursor + 1
        /\ slot # NoEntity /\ slot' = NoEntity
    BY <1>5 DEF UpdateSlot, skyVars, gfxVars
  <2>2. QED
    BY <2>1 DEF PassedSheltered, TypeOK
<1>6. CASE EndUpdate
  BY <1>6 DEF EndUpdate, TypeOK
<1>7. CASE UNCHANGED vars
  BY <1>7 DEF vars, worldVars, skyVars, gfxVars, PassedSheltered
<1>8. QED
  BY <1>1, <1>2, <1>3, <1>4, <1>5, <1>6, <1>7 DEF Next, Update

\* An update under a hurricane that is not over ends with an empty view,
\* however many entities there are and whenever they came.
THEOREM HurricaneEmptiesView == Spec => HurricaneHidesEveryone
<1>1. Init => PassedSheltered
  BY DEF Init, PassedSheltered
<1>2. HiddenInv /\ HiddenInv' /\ PassedSheltered /\ [Next]_vars =>
        [forecast = "hurricane" /\ cursor > 0 /\ cursor' = 0 /\ ~IsCompleted
           => shown' = {}]_vars
  <2> SUFFICES ASSUME HiddenInv, HiddenInv', PassedSheltered, [Next]_vars,
                      forecast = "hurricane", cursor > 0, cursor' = 0, ~IsCompleted
               PROVE  shown' = {} \/ UNCHANGED vars
    OBVIOUS
  <2> USE DEF HiddenInv
  <2>1. CASE EndUpdate
    <3>1. /\ cursor > Len(entities) /\ shown' = shown
      BY <2>1 DEF EndUpdate, Ended
    <3>2. \A i \in 1 .. Len(entities) : i < cursor
      BY <3>1, ToSetPositions DEF TypeOK
    <3>3. \A i \in 1 .. Len(entities) : entities[i] \in sheltered
      BY <3>2 DEF PassedSheltered
    <3>4. \A e \in Scene : \E i \in 1 .. Len(entities) : e = entities[i]
      BY ToSetPositions DEF Scene, TypeOK
    <3>5. QED
      BY <3>1, <3>3, <3>4 DEF HiddenSound
  <2>2. cursor' > 0 \/ EndUpdate \/ UNCHANGED vars
    <3>1. ASSUME NEW x \in Entities, CreateEntity(x) PROVE FALSE
      BY <3>1 DEF CreateEntity
    <3>2. CASE TornadoErase
      BY <3>2, EraseFacts DEF TornadoErase
    <3>3. CASE Spare \/ UpdateSlot
      BY <3>3 DEF Spare, UpdateSlot, TypeOK
    <3>4. ASSUME NEW dt \in Steps, NEW w \in Weathers, BeginUpdate(dt, w) PROVE FALSE
      BY <3>4 DEF BeginUpdate
    <3>5. QED
      BY <3>1, <3>2, <3>3, <3>4 DEF Next, Update
  <2>3. QED
    BY <2>1, <2>2
<1>3. Spec => []HiddenInv
  BY HiddenInit, HiddenStep, PTL DEF Spec
<1>4. Spec => []PassedSheltered
  BY <1>1, <1>3, PassedStep, PTL DEF Spec
<1>5. QED
  BY <1>2, <1>3, <1>4, PTL DEF Spec, HurricaneHidesEveryone

-----------------------------------------------------------------------------
(* The model in the sky and the notices.                                   *)

\* SkyMatchesForecast and AnnouncedOnce are inductive together with the
\* initial notice being due.
SkyInv ==
  /\ TypeOK
  /\ SkyMatchesForecast
  /\ AnnouncedOnce
  /\ time = 0 => run /\ announced = <<>>
  /\ time > 0 => ~run

\* Every step keeps the sky and the notices in step with the forecast.
LEMMA SkyStep == SkyInv /\ [Next]_vars => SkyInv'
<1> SUFFICES ASSUME SkyInv, [Next]_vars PROVE SkyInv'
  OBVIOUS
<1>0. TypeOK' /\ TypeOK
  BY TypeStep DEF SkyInv
<1>1. ASSUME NEW x \in Entities, CreateEntity(x) PROVE SkyInv'
  BY <1>0, <1>1 DEF SkyInv, SkyMatchesForecast, AnnouncedOnce, IsCompleted,
                    CreateEntity, skyVars, gfxVars
<1>2. ASSUME NEW dt \in Steps, NEW w \in Weathers, BeginUpdate(dt, w)
      PROVE  SkyInv'
  <2>1. /\ cursor = 0 /\ cursor' = 1 /\ forecast' = w
        /\ ~IsCompleted => w = forecast
        /\ dt > 0 /\ time' > 0
    BY <1>0, <1>2, TimeAssumption DEF BeginUpdate, TypeOK
  <2>2. SkyMatchesForecast'
    BY <1>2, <2>1 DEF SkyInv, SkyMatchesForecast, BeginUpdate, UpdateGFX
  <2>3. announced' = <<w>> /\ run' = FALSE
    <3>1. CASE IsCompleted
      BY <1>2, <3>1 DEF BeginUpdate, Announce
    <3>2. CASE ~IsCompleted /\ time = 0
      BY <1>2, <3>2 DEF SkyInv, BeginUpdate, Announce
    <3>3. CASE ~IsCompleted /\ time > 0
      BY <1>2, <3>3, <2>1 DEF SkyInv, AnnouncedOnce, BeginUpdate, Announce
    <3>4. time = 0 \/ time > 0
      BY <1>0 DEF TypeOK
    <3>5. QED  BY <3>1, <3>2, <3>3, <3>4
  <2>4. QED  BY <1>0, <2>1, <2>2, <2>3 DEF SkyInv, AnnouncedOnce
<1>3. CASE TornadoErase
  BY <1>0, <1>3, EraseFacts DEF SkyInv, SkyMatchesForecast, AnnouncedOnce, IsCompleted,
                                skyVars, gfxVars
<1>4. CASE Spare \/ UpdateSlot
  <2>1. cursor' > 0 /\ UNCHANGED <<forecast, time, run, announced, restore>>
    BY <1>0, <1>4 DEF TypeOK, Spare, UpdateSlot, skyVars, gfxVars
  <2>2. QED
    BY <1>0, <2>1 DEF SkyInv, SkyMatchesForecast, AnnouncedOnce
<1>5. CASE EndUpdate
  BY <1>0, <1>5 DEF SkyInv, SkyMatchesForecast, AnnouncedOnce, IsCompleted,
                    EndUpdate, skyVars
<1>6. CASE UNCHANGED vars
  BY <1>0, <1>6 DEF SkyInv, SkyMatchesForecast, AnnouncedOnce, IsCompleted,
                    vars, skyVars, gfxVars
<1>7. QED
  BY <1>1, <1>2, <1>3, <1>4, <1>5, <1>6 DEF Next, Update

\* What SkyInv says at the start.
LEMMA SkyInit == Init => SkyInv
BY SpeedInit, TimeAssumption
   DEF Init, SkyInv, SpeedInv, SkyMatchesForecast, AnnouncedOnce

\* The model UpdateGFX put in the view is the forecast's and Reverse takes it
\* away with the weather.
THEOREM SkyFollowsForecast == Spec => []SkyMatchesForecast
BY SkyInit, SkyStep, PTL DEF Spec, SkyInv

\* Every weather is announced exactly once, although run is set and cleared by
\* whichever weather is drawn and sends its notice.
THEOREM EveryWeatherAnnounced == Spec => []AnnouncedOnce
BY SkyInit, SkyStep, PTL DEF Spec, SkyInv

-----------------------------------------------------------------------------
(* Weather implements Feed.                                                *)

\* A Run erases only what is in view: the tornado erases no satellite, and
\* nothing but a satellite is hidden under a tornado.
LEMMA EraseFeeds ==
  ASSUME HiddenInv, TornadoErase
  PROVE  Pages!Erase(entities[cursor]) /\ entities[cursor] \in Entities
<1> USE DEF HiddenInv
<1>1. /\ entities[cursor] \in Scene /\ Scene \subseteq Entities
      /\ Scene' = Scene \ {entities[cursor]}
      /\ shown' = shown \ {entities[cursor]}
  BY EraseScene, ToSetPositions DEF TypeOK, Scene
<1>2. /\ forecast = "tornado" /\ Kind[entities[cursor]] # "satellite"
      /\ UNCHANGED restore
      /\ erased' = erased \cup {entities[cursor]}
  BY EraseFacts DEF gfxVars, TornadoErase
<1>3. entities[cursor] # raised
  BY <1>1, <1>2, EntitiesAssumption DEF HiddenSound
<1>4. entities[cursor] \in shown
  BY <1>1, <1>2, <1>3 DEF HiddenSound
<1>5. QED
  BY <1>1, <1>2, <1>4 DEF Pages!Erase

\* A Run hides only what is in view: a satellite while none is raised, or an
\* entity that is not sheltered yet.
LEMMA SpareFeeds ==
  ASSUME HiddenInv, Spare
  PROVE  (\E e \in Entities : Pages!Hide(e)) \/ UNCHANGED Pages!vars
<1> DEFINE e == entities[cursor]
           raise == forecast = "tornado" /\ Kind[e] = "satellite" /\ raised = NoEntity
           shelter == forecast = "hurricane" /\ e \notin sheltered
<1> USE DEF HiddenInv
<1>1. /\ shown' = IF raise \/ shelter THEN shown \ {e} ELSE shown
      /\ cursor \in 1 .. Len(entities)
      /\ UNCHANGED <<entities, erased, restore>>
  BY DEF TypeOK, Spare
<1>2. Scene' = Scene /\ e \in Scene /\ Scene \subseteq Entities
  BY <1>1, ToSetPositions DEF Scene, TypeOK
<1>3. e # NoEntity
  BY <1>2, EntitiesAssumption
<1> HIDE DEF e
<1>4. CASE raise \/ shelter
  <2>1. e \in shown
    BY <1>2, <1>3, <1>4 DEF HiddenSound
  <2>2. QED
    BY <1>1, <1>2, <1>4, <2>1 DEF Pages!Hide
<1>5. CASE ~(raise \/ shelter)
  BY <1>1, <1>2, <1>5 DEF Pages!vars
<1>6. QED
  BY <1>4, <1>5

\* Reverse gives everything back with the weather that is over, or does nothing.
LEMMA EndFeeds ==
  ASSUME HiddenInv, HiddenInv', EndUpdate
  PROVE  Pages!GiveBack \/ UNCHANGED Pages!vars
<1>1. /\ Scene' = Scene /\ IsCompleted' = IsCompleted /\ cursor' = 0
      /\ erased' = erased
  BY DEF EndUpdate, skyVars, Scene, IsCompleted
<1>2. CASE IsCompleted
  <2>1. raised' = NoEntity /\ sheltered' = {} /\ shown' = Scene' \ (sheltered' \cup {raised'})
    BY <1>1, <1>2 DEF HiddenInv, HiddenSound
  <2>2. NoEntity \notin Scene'
    BY ToSetPositions, EntitiesAssumption DEF HiddenInv, TypeOK, Scene
  <2>3. shown' = Scene'
    BY <2>1, <2>2
  <2>4. restore' = "none"
    BY <1>2 DEF EndUpdate
  <2>5. QED
    BY <1>1, <2>3, <2>4 DEF Pages!GiveBack
<1>3. CASE ~IsCompleted
  BY <1>1, <1>3 DEF EndUpdate, Ended, Pages!vars, HiddenInv, HiddenSound
<1>4. QED
  BY <1>2, <1>3

\* Whatever the weathers do, the pages are told in an order they can follow:
\* Weather implements Feed, for any entities and any weathers.
THEOREM ImplementsFeed == Spec => FeedsPages
<1>1. Init => Pages!Init
  BY DEF Init, Pages!Init, Scene, ToSet
<1>2. HiddenInv /\ HiddenInv' /\ SkyInv /\ [Next]_vars => [Pages!Next]_(Pages!vars)
  <2> SUFFICES ASSUME HiddenInv, HiddenInv', SkyInv, [Next]_vars
               PROVE  Pages!Next \/ UNCHANGED Pages!vars
    OBVIOUS
  <2>1. ASSUME NEW x \in Entities, CreateEntity(x) PROVE Pages!Create(x)
    BY <2>1, CreateScene DEF HiddenInv, CreateEntity, gfxVars, Pages!Create
  <2>2. ASSUME NEW dt \in Steps, NEW w \in Weathers, BeginUpdate(dt, w)
        PROVE  (w # "normal" /\ Pages!Raise(w)) \/ UNCHANGED Pages!vars
    <3>1. UNCHANGED <<Scene, shown, erased>>
      BY <2>2 DEF BeginUpdate, worldVars, Scene
    <3>2. QED
      BY <2>2, <3>1 DEF BeginUpdate, UpdateGFX, Pages!Raise, Pages!vars
  <2>3. CASE TornadoErase
    BY <2>3, EraseFeeds DEF Pages!Next
  <2>4. CASE Spare
    BY <2>4, SpareFeeds DEF Pages!Next
  <2>5. CASE UpdateSlot
    BY <2>5 DEF UpdateSlot, gfxVars, Scene, Pages!vars
  <2>6. CASE EndUpdate
    BY <2>6, EndFeeds DEF Pages!Next
  <2>7. CASE UNCHANGED vars
    BY <2>7 DEF vars, worldVars, gfxVars, Scene, Pages!vars
  <2>8. QED
    BY <2>1, <2>2, <2>3, <2>4, <2>5, <2>6, <2>7 DEF Next, Update, Pages!Next
<1>3. Spec => []HiddenInv
  BY HiddenInit, HiddenStep, PTL DEF Spec
<1>4. Spec => []SkyInv
  BY SkyInit, SkyStep, PTL DEF Spec
<1>5. QED
  BY <1>1, <1>2, <1>3, <1>4, PTL DEF Spec, FeedsPages, Pages!Spec
=============================================================================
