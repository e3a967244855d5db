--------------------------------- MODULE View ---------------------------------
(***************************************************************************)
(* The visualization page (apps/transit_service/web/js/main.js) and what   *)
(* it is told of the simulation.                                           *)
(*                                                                         *)
(* The server's side is any behaviour of Feed, each change of it broadcast *)
(* as events (transit_service.cc).  The page may connect at any time and   *)
(* is told only of what happens from then on.  Events arrive in order and  *)
(* are handled one at a time, but the mesh of an entity is loaded in the   *)
(* background: onLoad may run any time after the handler of AddEntity.     *)
(*                                                                         *)
(* A handler that dereferences an entry that is not there is left by an    *)
(* exception: what it assigned before stays, the rest is not done.         *)
(* Positions, colours and names are left out.  An answer to a command has  *)
(* no event field and does nothing here.                                   *)
(***************************************************************************)
EXTENDS Integers, Sequences, FiniteSets

CONSTANTS
  Entities,      \* drones, robots, humans and satellites
  Models,        \* the models of the weathers: entities of their own
  WeatherTypes,
  Moving,        \* those whose model moves: the tornado
  TypeOf,        \* the weather each model shows
  NoId,          \* stands for -1, undefined or a missing entry
  MaxInbox       \* bounds the events on their way to the page

ASSUME ViewAssumption ==
  /\ IsFiniteSet(Entities)
  /\ Entities \cap Models = {}
  /\ NoId \notin Entities \cup Models
  /\ "none" \notin WeatherTypes
  /\ Moving \subseteq WeatherTypes
  /\ TypeOf \in [Models -> WeatherTypes]
  /\ MaxInbox \in Nat

Ids == Entities \cup Models

VARIABLES
  \* the server
  scene, shown, gone, sky,   \* as in Feed
  made,            \* the weather models created so far
  gfx,             \* Weather::GFX: the model each weather shows next
  \* between server and page
  present,         \* the page is one of the sessions
  inbox,           \* the events on their way to it
  \* the page
  loading,         \* ids whose mesh is on its way
  entities,        \* what entities[id] is: "absent", "undefined" or "mesh"
  viewContainer,   \* ids that have an entry there
  visible,         \* ids whose group is in the scene and visible
  options,         \* ids offered by the menu of views
  currentView, currentWeather, showWeather,
  \* history
  told,            \* ids the page was told of by AddEntity
  overtaken,       \* ids an event about which was handled before their mesh came
  hasty            \* the user chose a view, or the weather, before it was there

feedVars == <<scene, shown, gone, sky>>
serverVars == <<feedVars, made, gfx>>
menuVars == <<options, currentView>>
skyVars == <<currentWeather, showWeather>>
bodyVars == <<loading, entities, viewContainer, visible>>
historyVars == <<told, overtaken, hasty>>
vars == <<serverVars, present, inbox, menuVars, skyVars, bodyVars, historyVars>>

Server == INSTANCE Feed

Init ==
  /\ Server!Init
  /\ made = {}
  /\ gfx = [w \in WeatherTypes |-> NoId]
  /\ present = FALSE
  /\ inbox = <<>>
  /\ loading = {}
  /\ entities = [id \in Ids |-> "absent"]
  /\ viewContainer = {}
  /\ visible = {}
  /\ options = {}
  /\ currentView = NoId
  /\ currentWeather = NoId
  /\ showWeather = FALSE
  /\ told = {}
  /\ overtaken = {}
  /\ hasty = FALSE

-----------------------------------------------------------------------------
(* The server.                                                             *)

Event(name, id) == [event |-> name, id |-> id]

\* TransitWebServer: an event goes to every session there is.
Broadcast(events) ==
  /\ inbox' = IF present THEN inbox \o events ELSE inbox
  /\ Len(inbox') <= MaxInbox
  /\ told' = IF present
             THEN told \cup {events[i].id : i \in {j \in DOMAIN events : events[j].event = "AddEntity"}}
             ELSE told
  /\ UNCHANGED <<present, menuVars, skyVars, bodyVars, overtaken, hasty>>

CreateEntity(e) ==
  /\ Server!Create(e)
  /\ UNCHANGED <<made, gfx>>
  /\ Broadcast(<<Event("AddEntity", e)>>)

\* Weather::CreateGFX: every visualization page creates models of its own,
\* and the last one created is the one that is shown.
CreateGFX(m) ==
  /\ m \notin made
  /\ made' = made \cup {m}
  /\ gfx' = [gfx EXCEPT ![TypeOf[m]] = m]
  /\ UNCHANGED feedVars
  /\ Broadcast(<<Event("AddEntity", m)>>)

\* SimulationModel::Update reports the entities, and once those just erased.
UpdateEntity(e) ==
  /\ e \in scene \cup gone
  /\ UNCHANGED serverVars
  /\ Broadcast(<<Event("UpdateEntity", e)>>)

\* Weather::UpdateGFX reports the model that moves.
UpdateModel(w) ==
  /\ gfx[w] # NoId
  /\ UNCHANGED serverVars
  /\ Broadcast(<<Event("UpdateEntity", gfx[w])>>)

Hide(e) ==
  /\ Server!Hide(e)
  /\ UNCHANGED <<made, gfx>>
  /\ Broadcast(<<Event("RemoveFromView", e)>>)

Erase(e) ==
  /\ Server!Erase(e)
  /\ UNCHANGED <<made, gfx>>
  /\ Broadcast(<<Event("RemoveEntity", e)>>)

\* Weather::UpdateGFX, once some page has created the model.
Raise(w) ==
  /\ gfx[w] # NoId
  /\ Server!Raise(w)
  /\ UNCHANGED <<made, gfx>>
  /\ Broadcast(<<Event("AddToView", gfx[w])>>)

\* Weather::Reverse.  A model that replaced the one in view since it was
\* raised is removed in its stead.
ReverseWeather ==
  /\ Server!GiveBack
  /\ feedVars' # feedVars
  /\ UNCHANGED <<made, gfx>>
  /\ \E order \in [1 .. Cardinality(scene \ shown) -> scene \ shown] :
       /\ \A i, j \in DOMAIN order : order[i] = order[j] => i = j
       /\ Broadcast((IF sky = "none" THEN <<>> ELSE <<Event("RemoveFromView", gfx[sky])>>)
                    \o [i \in DOMAIN order |-> Event("AddToView", order[i])])

\* createSession.
Join ==
  /\ ~present
  /\ present' = TRUE
  /\ UNCHANGED <<serverVars, inbox, menuVars, skyVars, bodyVars, historyVars>>

-----------------------------------------------------------------------------
(* The page's handlers.                                                    *)

\* Following an entity whose entry is missing throws.
Follows(v) == v = NoId \/ entities[v] = "mesh"

\* The handler of ev would be left by an exception: updateEntityView by one
\* that is no entry of entities or viewContainer, or no current weather.
Throws(ev) ==
  \/ /\ ev.event = "UpdateEntity"
     /\ entities[ev.id] = "undefined" \/ ~Follows(currentView)
  \/ /\ ev.event = "RemoveFromView"
     /\ IF ev.id \in Models THEN currentWeather = NoId ELSE entities[ev.id] # "mesh"
  \/ /\ ev.event = "AddToView"
     /\ IF ev.id \in Models THEN entities[ev.id] # "mesh" ELSE ev.id \notin viewContainer

\* The next event is name, about id.
Receive(name, id) ==
  /\ inbox # <<>>
  /\ Head(inbox) = Event(name, id)
  /\ inbox' = Tail(inbox)
  /\ UNCHANGED <<serverVars, present, showWeather, told, hasty>>

\* Mutant of LeaveMenu: the view that is followed is not reset.
LeaveMenuOnly(id) ==
  /\ options' = options \ {id}
  /\ UNCHANGED currentView

\* The option goes, and with it the camera's target if it was that.
LeaveMenu(id) ==
  /\ options' = options \ {id}
  /\ currentView' = IF currentView = id THEN NoId ELSE currentView

HandleAddEntity(id) ==
  /\ Receive("AddEntity", id)
  /\ options' = options \cup {id}
  /\ loading' = loading \cup {id}
  /\ UNCHANGED <<entities, viewContainer, visible, currentView, currentWeather, overtaken>>

\* onLoad: the mesh of id has come.
OnLoad(id) ==
  /\ id \in loading
  /\ loading' = loading \ {id}
  /\ entities' = [entities EXCEPT ![id] = "mesh"]
  /\ \/ /\ id \in Models
        /\ visible' = IF showWeather THEN visible \cup {id} ELSE visible
        /\ LeaveMenu(id)
     \/ /\ id \in Entities
        /\ visible' = visible \cup {id}
        /\ UNCHANGED menuVars
  /\ UNCHANGED <<serverVars, present, inbox, viewContainer, skyVars, historyVars>>

\* It moves the model if there is one; an exception changes nothing more.
HandleUpdateEntity(id) ==
  /\ Receive("UpdateEntity", id)
  /\ UNCHANGED <<menuVars, currentWeather, bodyVars, overtaken>>

\* removeEntity works on whatever entry there is.
HandleRemoveEntity(id) ==
  /\ Receive("RemoveEntity", id)
  /\ visible' = IF entities[id] = "mesh" THEN visible \ {id} ELSE visible
  /\ LeaveMenu(id)
  /\ entities' = [entities EXCEPT ![id] = "absent"]
  /\ overtaken' = IF entities[id] = "mesh" THEN overtaken ELSE overtaken \cup {id}
  /\ UNCHANGED <<loading, viewContainer, currentWeather>>

\* Mutant of HideWeather: the type is not looked at.
HideAnything(id) ==
  /\ visible' = visible \ {id}
  /\ viewContainer' = viewContainer \cup {id}
  /\ LeaveMenu(id)
  /\ UNCHANGED <<loading, entities, currentWeather>>

\* updateEntityView, view "RemoveFromView", of a weather: whichever model is
\* current is hidden, and stays current (delete does nothing to a variable).
HideWeather(id) ==
  /\ visible' = visible \ {currentWeather}
  /\ LeaveMenu(id)
  /\ UNCHANGED <<loading, entities, viewContainer, currentWeather>>

\* Mutant of HideEntity: the entry is put aside but not deleted.
HideButKeep(id) ==
  /\ visible' = visible \ {id}
  /\ viewContainer' = viewContainer \cup {id}
  /\ LeaveMenu(id)
  /\ UNCHANGED <<loading, entities, currentWeather>>

\* The same of an entity: it is put aside.
HideEntity(id) ==
  /\ visible' = visible \ {id}
  /\ viewContainer' = viewContainer \cup {id}
  /\ entities' = [entities EXCEPT ![id] = "absent"]
  /\ LeaveMenu(id)
  /\ UNCHANGED <<loading, currentWeather>>

\* Mutant of ShowWeatherModel: the checkbox is not consulted.
ShowModelAlways(id) ==
  /\ visible' = visible \cup {id}
  /\ currentWeather' = id
  /\ options' = options \cup {id}
  /\ UNCHANGED <<loading, entities, viewContainer, currentView>>

\* updateEntityView, view "AddToView", of a weather.
ShowWeatherModel(id) ==
  /\ visible' = IF showWeather THEN visible \cup {id} ELSE visible \ {id}
  /\ currentWeather' = id
  /\ options' = options \cup {id}
  /\ UNCHANGED <<loading, entities, viewContainer, currentView>>

\* Mutants of ShowEntity: what was put aside stays aside, and stays invisible.
ShowAside(id) ==
  /\ visible' = visible \cup {id}
  /\ options' = options \cup {id}
  /\ UNCHANGED <<loading, entities, viewContainer, currentView, currentWeather>>

ShowInvisible(id) ==
  /\ viewContainer' = viewContainer \ {id}
  /\ entities' = [entities EXCEPT ![id] = "mesh"]
  /\ options' = options \cup {id}
  /\ UNCHANGED <<loading, visible, currentView, currentWeather>>

\* The same of an entity: it is taken back.
ShowEntity(id) ==
  /\ viewContainer' = viewContainer \ {id}
  /\ entities' = [entities EXCEPT ![id] = "mesh"]
  /\ visible' = visible \cup {id}
  /\ options' = options \cup {id}
  /\ UNCHANGED <<loading, currentView, currentWeather>>

\* What is done before the exception: the entry of an entity that was not put
\* aside becomes undefined.
Abandon(name, id) ==
  /\ overtaken' = overtaken \cup {id}
  /\ entities' = IF name = "AddToView" /\ id \in Entities
                 THEN [entities EXCEPT ![id] = "undefined"] ELSE entities
  /\ UNCHANGED <<menuVars, loading, viewContainer, visible, currentWeather>>

HandleUpdateEntityView(name, id) ==
  /\ Receive(name, id)
  /\ \/ /\ Throws(Event(name, id))
        /\ Abandon(name, id)
     \/ /\ ~Throws(Event(name, id))
        /\ UNCHANGED overtaken
        /\ \/ name = "RemoveFromView" /\ id \in Models /\ HideWeather(id)
           \/ name = "RemoveFromView" /\ id \in Entities /\ HideEntity(id)
           \/ name = "AddToView" /\ id \in Models /\ ShowWeatherModel(id)
           \/ name = "AddToView" /\ id \in Entities /\ ShowEntity(id)

Handle ==
  \E id \in Ids :
    \/ HandleAddEntity(id) \/ HandleUpdateEntity(id) \/ HandleRemoveEntity(id)
    \/ \E name \in {"RemoveFromView", "AddToView"} : HandleUpdateEntityView(name, id)

-----------------------------------------------------------------------------
(* The user.                                                               *)

\* changeView: the choice stands even if following it throws.
ChangeView(v) ==
  /\ currentView' = v
  /\ hasty' = (hasty \/ ~Follows(v))
  /\ UNCHANGED <<serverVars, present, inbox, options, skyVars, bodyVars, told, overtaken>>

\* toggleWeather: so does the checkbox if no weather has come into view yet.
ToggleWeather ==
  /\ showWeather' = ~showWeather
  /\ hasty' = (hasty \/ currentWeather = NoId)
  /\ visible' = IF currentWeather # NoId /\ showWeather'
                THEN visible \cup {currentWeather} ELSE visible \ {currentWeather}
  /\ UNCHANGED <<serverVars, present, inbox, menuVars, currentWeather, loading,
                 entities, viewContainer, told, overtaken>>

-----------------------------------------------------------------------------

Simulate ==
  \/ \E e \in Entities : CreateEntity(e) \/ UpdateEntity(e) \/ Hide(e) \/ Erase(e)
  \/ \E m \in Models : CreateGFX(m)
  \/ \E w \in WeatherTypes : Raise(w)
  \/ \E w \in Moving : UpdateModel(w)
  \/ ReverseWeather

Load == \E id \in Ids : OnLoad(id)

Next ==
  \/ Simulate
  \/ Join
  \/ Handle
  \/ Load
  \/ \E v \in options \cup {NoId} : ChangeView(v)
  \/ ToggleWeather

Spec == Init /\ [][Next]_vars

\* The browser delivers what has arrived, and what it was asked to load comes.
\* There is only so much to load, so that this means everything comes.
FairSpec == Spec /\ WF_vars(Handle) /\ WF_vars(Load)

-----------------------------------------------------------------------------
(* Properties.                                                             *)

TypeOK ==
  /\ scene \subseteq Entities /\ shown \subseteq Entities /\ gone \subseteq Entities
  /\ sky \in WeatherTypes \cup {"none"}
  /\ made \subseteq Models
  /\ gfx \in [WeatherTypes -> Models \cup {NoId}]
  /\ present \in BOOLEAN
  /\ inbox \in Seq([event : {"AddEntity", "UpdateEntity", "RemoveEntity",
                             "RemoveFromView", "AddToView"}, id : Ids])
  /\ loading \subseteq Ids
  /\ entities \in [Ids -> {"absent", "undefined", "mesh"}]
  /\ viewContainer \subseteq Entities
  /\ visible \subseteq Ids
  /\ options \subseteq Ids
  /\ currentView \in Ids \cup {NoId}
  /\ currentWeather \in Models \cup {NoId}
  /\ showWeather \in BOOLEAN
  /\ told \subseteq Ids
  /\ overtaken \subseteq Ids
  /\ hasty \in BOOLEAN

\* No event that changes anything for id is on its way.
Settled(id) ==
  \A i \in DOMAIN inbox : inbox[i].id = id => inbox[i].event = "UpdateEntity"

\* Of an entity it was told of, the page displays, moves and lists exactly
\* what the simulation has in view, once the events have been handled and the
\* mesh has come: unless an event about it was handled before the mesh came.
\* Nothing else goes wrong, whatever is hidden, given back and erased, in
\* whatever order the meshes come.
ViewFollowsServer ==
  \A e \in (Entities \cap told) \ (overtaken \cup loading) :
    Settled(e) =>
      /\ e \in visible <=> e \in shown
      /\ entities[e] = "mesh" <=> e \in shown
      /\ e \in options <=> e \in shown

\* The camera follows nothing that the menu does not offer, and what it
\* follows is there, unless the user, or an event about it, was too early.
CameraHasTarget ==
  /\ currentView \in options \cup {NoId}
  /\ ~hasty /\ currentView \notin overtaken => Follows(currentView)

\* On a page that knows all models, while a weather is in view its model is
\* displayed if and only if the checkbox is ticked, even when other pages have
\* replaced the models since.
SkyIsShown ==
  /\ sky # "none"
  /\ made \subseteq told
  /\ \A i \in DOMAIN inbox : inbox[i].id \notin Models
  /\ Models \cap overtaken = {}
  => /\ currentWeather \in Models
     /\ TypeOf[currentWeather] = sky
     /\ currentWeather \in visible <=> showWeather

\* A handler throws only for an event that comes before the mesh, or about
\* something of which the page was never told or such an event has been
\* handled already; or because the user chose a view before it was there.
ThrowsOnlyIfEarly ==
  inbox # <<>> /\ Throws(Head(inbox)) =>
    LET id == Head(inbox).id
    IN  \/ id \in loading \cup overtaken \/ id \notin told
        \/ id \in Models /\ (~(made \subseteq told) \/ Models \cap overtaken # {})
        \/ ~Follows(currentView) /\ (hasty \/ currentView \in overtaken)

\* What is in view of the simulation is eventually displayed, or hidden again,
\* or an event was too early.
EventuallyDisplayed ==
  \A e \in Entities :
    (e \in told /\ e \in shown) ~> (e \in visible \/ e \notin shown \/ e \in overtaken)

\* The README says of the hurricane that entities are unviewable while it is
\* active.
HiddenIsUnviewable ==
  inbox = <<>> => visible \cap (scene \ shown) = {}

\* The README says that the checkbox shows the physical state of the weather,
\* which makes it easier to determine the current forecast: once every event
\* has been handled and nothing was early, a model displayed is that of the sky.
SkyMatchesCheckbox ==
  inbox = <<>> /\ ~hasty /\ overtaken = {} /\ made \subseteq told \ loading =>
    \A m \in visible \cap Models : TypeOf[m] = sky
=============================================================================
