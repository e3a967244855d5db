# A model of the drone transit simulation

The repository simulates a drone service on a university campus: passengers
book trips for their robots on a web page, drones carry the robots, humans and
a satellite move about, and a weather that changes every minute gets in
everybody's way. A C++ server holds the simulation; web pages drive and display
it over web sockets. This directory holds TLA+ models of that program, the TLC
configurations that check them, and TLAPS proofs of their main properties.

## Inventory

### Parts, their state and their operations

| Part | Source | State | Operations |
|---|---|---|---|
| Weather (singleton) | `libs/transit/src/Weather.cc` | `index` (the forecast), `time`, `run`, `prev` (speeds to give back), `GFX` (models, and entities it hid), `restore` | `Update` (revert, draw, effect on speeds, notice), `UpdateGFX`, `Run` (`TornadoAct`, `HurricaneAct`), `Reverse` |
| Simulation loop | `libs/transit/src/SimulationModel.cc` | `entities`, `scheduler` | `CreateEntity`, `ScheduleTrip`, `Update` |
| Drone | `libs/transit/src/Drone.cc` | `available`, `pickedUp`, `run`, `emergency`, `nearestEntity`, `toRobot`, `toFinalDestination`, `speed` | `Update`, `GetNearestEntity`, `UpdateHelper` |
| Robot | `libs/transit/src/Robot.cc` | `available`, `destination`, `stratName`, `details["status"]` | setters, `AvailableToDelete` |
| Humans, satellites | `Human.cc`, `Satellite.cc` | `toDestination`, `speed` | `Update` |
| Strategies | `BeelineStrategy.cc`, `PathStrategy.cc`, `CelebrationDecorator.cc`, `JumpDecorator.cc`, `SpinDecorator.cc` | position or `index`, `time` of a celebration | `Move`, `IsCompleted` |
| Publishers | `DronePublisher.cc`, `WeatherPublisher.cc` | the last kind of message (of a drone's: the key found in its text) | `SendEvents` |
| Factories | `CompositeFactory.cc`, ... | none | `CreateEntity` |
| Server, sessions | `apps/transit_service/src/transit_service.cc`, `util/json.h` | sessions, each with its clock (`start`, `time`) and its entities to report | `receiveJSON`, `ReceiveCommand`, broadcasts, `createSession` |
| Visualization page | `apps/transit_service/web/js/main.js` | `entities`, `viewContainer`, `currentWeather`, `showWeather`, `currentView`, the menu of views | `addEntity`, `onLoad`, `removeEntity`, `updateEntityView`, `changeView`, `toggleWeather`, an `Update` request per frame with the speed the slider is at (`simSpeed`) |
| Schedule page | `apps/transit_service/web/schedule.html` | the trip being entered | `schedule`, `addHuman` |
| Web socket client | `apps/transit_service/web/js/WSApi.js` | `requestId`, `callbacks`, `connected`, the promise `connect` | `sendCommand`, `onmessage`, `onopen`, `onerror`, `onclose` |
| Routing | `libs/routing/src/routing/pathing.cc`, `graph.cc` | none (the graph is read once) | A*, breadth-first search, `NearestNode`, `GetPath` |
| Parsers | `libs/routing/src/parsers` | the graph under construction | reading of OSM and OBJ files |

### How they interact

The visualization page asks for an `Update` on every animation frame.
`TransitService::ReceiveCommand` turns it into one or more calls of
`SimulationModel::Update(dt)`. Each call updates the weather, and then walks
along the vector of entities: for every position `Weather::Run` (which may
erase the entity from that vector), the entity's own `Update`, and the report
to the controller. At the end `Weather::Reverse` gives back what a completed
weather had hidden. Drones, in their `Update`, look for a robot in the
scheduler and read the weather. The schedule page books with two commands,
`CreateEntity` and `ScheduleTrip`. Changes reach the pages as broadcast events.
The server is single threaded: it handles one command after the other, sends the
events of a command while it runs, and its answer at the end. A page handles
messages in the order they arrive, but the mesh of an entity is loaded in the
background, so that the page learns of an entity in two steps with other events
in between.

### What is hard

- The loop walks along a vector that shrinks under it.
- Weathers follow each other in one call; the map `prev` must restore natural
  speeds over any sequence of weathers, for entities created at any moment.
- What a weather hides comes back only in the one update in which that weather
  is current and completed.
- `run` and `emergency` of a drone are set in one weather and leg and read in
  another.
- Two commands make a booking, commands of several pages interleave, and the
  link between the two is a passenger's name.
- Drones of the same pass compete for robots in a list that also keeps those
  already taken and delivered.
- Nested decorators decide among themselves who acts on a `Move`, and the
  outermost alone says when everything is over.
- A page may connect at any time and is told only of what happens from then on;
  meshes come late and in any order; a handler that finds no entry is left by an
  exception, with half of its assignments made.
- Commands are issued before the connection is up, by several callers, and wait
  on one promise; later ones must not overtake them.
- What kind of notice a text is, is found by searching it for one of four words,
  and the text holds names that users have typed.
- Every session advances the one simulation by its own clock, at a speed that a
  slider may change between any two of its commands.

`PROJECT.json` lists each of these hazards at its line, with the properties
that cover it.

### What makes the parts correct

| Part | Properties |
|---|---|
| Weather | effects never pile up; what is hidden is hidden by the present weather and comes back; the model in the sky is the forecast's; every weather is announced once |
| Loop | every entity is updated once per update, although the vector shrinks; nothing erased is reported |
| Drones, bookings | every booking is served once, by one drone; a carried robot is out of reach of other drones, bookings and the tornado; routes fit the weather; notices come once and in order, unless names hold their keys; every trip ends |
| Strategies | completion means the route and all celebrations are done, in order |
| Server towards pages | an entity is hidden or erased only while it is in view, and what is hidden comes back |
| Visualization page | it ends up displaying what the simulation has in view; the camera follows something that is there; the model displayed is the sky's |
| Sessions, web socket client | every command is carried out once, in order; every promise gets its own answer, after the events of its command; simulated time adds up, at the speeds asked for |

## The modules

| Module | What it is |
|---|---|
| `Weather` | `Weather` and the loop, with everything else an entity does reduced to "a drone may deliver a robot" |
| `Strategy` | the strategies as records, and `Move`, `IsCompleted` on them (no state) |
| `Flight` | one entity flown by one strategy |
| `TripService` | the abstract specification: what a passenger is promised |
| `Fleet` | `ScheduleTrip`, the drones and their publisher, under any weather; implements `TripService` |
| `Simulation` | `Weather` and `Fleet` composed: one vector, one weather, one set of delivered robots |
| `Feed` | the abstract specification: in what order the pages are told of entities and weathers; `Weather` implements it |
| `View` | the visualization page, told by any server that behaves as `Feed` |
| `Requests` | the abstract specification: what a page may expect of `sendCommand` |
| `Sessions` | the web socket client and the server's sessions, for several pages; implements `Requests` for each |
| `SequenceLemmas` | facts for the proofs about sequences, and about states that a queue of events leads through |
| `WeatherProofs`, `FlightProofs`, `TripServiceProofs`, `FleetProofs`, `ViewProofs`, `SessionsProofs`, `SimulationProofs` | the theorems |
| `MCWeather`, `MCFlight`, `MCFleet`, `MCSimulation`, `MCView`, `MCSessions` | small instances |

`Feed` joins the two halves of the project: `Weather` is shown to implement it,
and `View` assumes nothing else of the server.

### Weather

`entities`, `forecast` (`weather.at(index)`), `time`, `run`, `prev`, `restore`
are the members of those names; `raised` and `sheltered` are the entries of
`GFX` that hold entities (under "satellite" and under an id); `speed` is that of
every entity; `shown` is what a page that was connected from the start
displays. One `SimulationModel::Update` is `BeginUpdate(dt, w)`, then per
position `TornadoErase` or `Spare` (`Weather::Run`) followed by `UpdateSlot`,
then `EndUpdate` (`Weather::Reverse`). `cursor` is the loop's `i` plus one, 0
between updates, and `slot` is what `entities[i]` denotes once `Run` is done:
after erasing the last entity that is the pointer `std::vector::erase` leaves
behind the new end: there is nothing to move down, so the slot is as it was.
(The Makefiles build with `-g` alone, without the library's assertions.)

The order of `Weather::Update` is kept: revert if completed and not normal,
draw, effect on the speeds with the entries of `prev` as they are *after* the
revert, announce. A completed `normal` reverts nothing, and nothing is there to
revert. `prev[...]` in `Weather::Snow` inserts 0 when there is no entry; the
model does too. `SetSpeed` of robots and satellites does nothing, as in `IEntity`.
Speeds are integers (20, 30, 35 in the pages), halved rounding down; only those of
drones and humans ever change, and those are even.

### Strategy and Flight

A strategy is `[route, left, layers, spent]`: what it follows, the distance
left in units of the slowest pace, its decorators from the outermost, and how
long each has celebrated. `Celebrates(s, k)` unfolds the recursion of the
decorators' `Move`. Geometry is reduced to `left`. The last unit of a path is
the repeated last node that `GraphBase::GetPath` appends: it takes a `Move` of
its own, even for an entity that is halted.

### TripService and Fleet

In `TripService` a robot is absent, parked, waiting, assigned, riding or
delivered, and has a carrier while it is assigned or riding. In `Fleet` the
stage is computed (`StageOf`) from the scheduler, the drones' `nearestEntity`
and `pickedUp`, and the robots' status, and the carrier from `nearestEntity`.

A booking is identified with the robot it creates (`CreateRobot(r)` then
`ScheduleTrip(r)`) and with the destination it asks for, so that
`destination[r] = b` says whose destination robot `r` carries. `Dispatch`,
`Hover`, `Approach` and `FlyToFinal` are the cases of `Drone::Update`, each with
the call of `UpdateHelper` and of the publisher it makes. `Replans` and
`Reverts` are the two conditions of a branch of `UpdateHelper`; both may hold in
the same tick, and the second then has the last word, as in the code. `run` in
the model is the drone's, `publisher[d].run` the publisher's.

`DronePublisher::SendEvents` is handed a text and finds its kind by searching it
for the four `keys`, first to last. The text is the drone's name, one of four
phrases with one key each, and the robot's name, which is what the passenger
typed. `Mentions` says which keys an entity's name holds (a key cannot lie
across the end of a name: none of them holds the colon, quote or space that
stands there), and `KeyFound(key, names)` is the result of the search:
`publisher[d].run` is the key found, `publisher[d].heard` a history of what was
passed on in the present trip, by the phrase it came with. `TripIsReported` says
exactly what this makes of a trip: without keys in the names all four notices,
in order; otherwise none after the notice whose key the robot's or the drone's
name holds; and the first is missing when the last trip ended on "Picking".
A drone's name comes from `scenes/umn.json` and holds no key; the model allows
any. Every publisher has one subscriber.

The nearest robot is any waiting robot. A replaced route may be longer by
`Detour`, or shorter. The weather is abstract: drawn when the last one is
completed, and completed at any tick but the first.

### Simulation

Every action is the conjunction of what `Weather` and `Fleet` do. `Fleet`'s
`parked` is the robots of the vector in their order (`Among(entities, Robots)`),
its `completed` is `time > Duration`, its `pending` are the drones the cursor
has not passed. The property
`LoopServesFleet == Trips!Spec` says that the composition never does anything
but what `Fleet` allows, in particular that no drone is left out or updated
twice when the vector shrinks; `SpeedIsPace` says that the speed `Weather` keeps
for a drone is the pace `Fleet` takes for granted.

### Feed and View

`Feed` has four variables: the entities in the simulation, those in view, those
erased, and the weather whose model is in view. `Weather!Pages` maps its
`entities`, `shown`, `erased` and `restore` to them.

`View` takes the actions of `Feed`, adds the models of the weathers (`CreateGFX`:
every visualization page creates models of its own, and `gfx` holds the last
one of each type), and broadcasts each change as the events that
`transit_service.cc` sends if the page is `present`. `inbox` is what is on its
way. `entities[id]` is "mesh" when the page has the group, "undefined" when an
assignment from an empty place in `viewContainer` left the entry so, and
"absent" otherwise; `loading` holds what `addEntity` has asked the loader for
and `onLoad` has not had. `visible` is what the user sees: in the scene and with
`visible` set. `Throws(ev)` says when the handler of `ev` dereferences what is
not there; `Abandon` is what it has done until then. `delete currentWeather`
does nothing, since `currentWeather` is a variable, so `HideWeather` leaves it.

Three history variables let the properties say when the page is *not* to blame:
`told` (what the page heard of by `AddEntity`), `overtaken` (an event about the
entity was handled before its mesh had come) and `hasty` (the user chose
something before it was there). The runs `view_hidden` and `view_sky` show what
goes wrong in the code itself.

### Requests and Sessions

In `Requests` a page issues commands, the server carries them out in order, and
promises are resolved. `Sessions` has, for every page, the members of `WSApi`
(`connected`, `requestId`, `callbacks`; `waiting` is what waits on the promise
`connect`), the socket, both directions of the wire, and on the server the
commands carried out and the session's clock. `Then` is the function given to
`connect.then`; the functions of all waiting commands are microtasks, so that
nothing else of the page happens between them (the guards of `SendCommand`,
`OnMessage` and `OnClose`). The socket's number, with which the web server may
greet a page, sets `connected` as well, perhaps before the waiting commands are
sent: they come first all the same.

A command is reduced to the event it causes, on every page or, for an `Update`
that changes nothing, on the page that asked. Every `Update` carries a speed,
which `ReceiveCommand` reads out of it (`data["simSpeed"]`): the page puts in
where its slider is at that moment, so that the speed is a free choice of every
`Update` (`SimSpeeds`, in tenths). `updates` is a history variable: when each
Update of a session came, and its speed. `TimeIsAccountedFor` says with it what
each of them owes the simulation (`Owed`): the time since the session's Update
before, at the speed it carries itself. `Advance` is the loop over
sub-updates of 0.01 s: a long delta is rounded up to whole sub-updates, in
integers, where the program adds up floats.

## What the runs check

| Run | Instance | Shows |
|---|---|---|
| `weather` | one entity of each kind, 60 s = 2 ticks, warning 1, steps of 1 or 2, with fairness | types, speeds, view, sky, notices, hurricane; what is hidden comes back; the pages are told in the order of `Feed` |
| `weather_ghost` | the same | *finding*: an erased entity is still updated and reported |
| `flight` | routes up to 16, celebrations of 3, paces 0, 1, 2, 4 | completion, order of celebrations, one thing at a time, termination |
| `fleet` | two drones, two bookings of one name, routes up to 3 | refinement of `TripService` (with it, that no robot has two drones), safety of carried robots, bookings find robots, destinations stay |
| `fleet_names` | one drone, two bookings of different names, one of which holds "Picking", routes up to 9, celebrations of 2, no detours | bookings are kept, routes fit the weather on both legs, notices; with fairness, every scheduled trip ends |
| `fleet_path` | one drone, routes up to 9 | *finding*: the passenger's path is not followed |
| `fleet_twin` | two bookings of one name | *finding*: a confirmed trip is lost |
| `simulation` | two drones, a robot, a human | the composition behaves as `Fleet`, speeds are paces, the tornado spares trips |
| `view` | one entity, one model (the tornado's), up to 4 events on their way, with fairness | the page follows the server; camera, sky, exceptions; what is in view is eventually displayed |
| `view_hidden` | one entity, two models, up to 2 events | *finding*: what a hurricane hides at once is displayed when its mesh comes |
| `view_sky` | the same | *finding*: the checkbox shows the model of a weather that is over |
| `sessions` | two pages, one with two commands, one with one, two speeds, one unit of time, with fairness | refinement of `Requests`, callbacks, events before answers, time; every command is answered |

### The bounds, and why they are enough

- `Duration = 2`, `Warning = 1`, steps 1 and 2: a weather lasts two or three
  updates, so there is one update that starts it, one in which nothing happens
  to it and one that completes it, and the hurricane's model enters the view
  in some behaviours and not in others. Nothing else depends on `time`.
- One entity of each kind: entities meet only through the positions of the
  vector, and `simulation` has two drones behind the human that is erased.
- Routes: 3 is more than a slowed drone covers in a tick (1) and less than a
  hot one does (4), so that legs take one tick or several; 9 lets a weather
  start and end within one leg; the proofs cover every length.
- Two drones, two bookings: a second drone to compete, a second booking to be
  mixed up with, and a second trip for the same drone.
- `view`: 4 events are the most the page lags behind; one entity suffices, as
  handlers look only at the entry of their own entity, the camera's and the
  current weather. Several models of one weather, as created by several pages,
  make the run with liveness too long; the proofs cover them, and the runs that
  look for counterexamples have two models.
- `sessions`: two commands of one page to be mixed up, a second page whose events
  come in between and whose connection is in another state. Two speeds, so that
  the slider is moved between two Updates of a page, one before and one after the
  unit of time. `Step = 2`, `Threshold = 2`: a delta of 3 is divided and rounded up
  to 4, one of 2 is not. Longer times are left to the proof.
- Names: one that holds the first key, since that one hides all the others. The
  proofs cover every choice of keys in every name.
- Counters: `time` never exceeds `Duration` plus one step, `left` is at most
  `MaxLen`, a celebration's clock at most `Celebration`. No state constraint
  is used.

`sessions` turns deadlock checking off: when the bounded commands are issued and
answered and the time is up, nothing is left to do. The other runs check it.

### Fairness

- `Weather!FairSpec`: `WF(Update)`. The page requests an update on every frame
  (`main.js`, `animate`), and the server finishes each one before the next
  command. `CreateEntity` gets no fairness.
- `Flight!FairSpec`: the entity is not halted forever, which is what the end of
  every weather amounts to.
- `Fleet!FairSpec`: weak fairness of `Tick` and of every drone's update, as
  above; `SF(Tick /\ completed')`, since every weather passes after 60 seconds;
  and strong fairness of drawing `normal`, since `discrete_distribution` gives
  every weather a positive weight. `fleet_names` takes `Detour = 0`: in the model
  normal weather may last one tick and be followed by one that makes the route
  longer, forever, where in the program 60 seconds at the normal speed carry a
  drone further than a detour costs.
- `View!FairSpec`: weak fairness of handling what has arrived and of loading what
  has been asked for. A mesh that cannot be loaded (`onError`) is not covered;
  the meshes are files of the repository. Nothing is assumed of the simulation or the user.
- `Sessions!FairSpec`: weak fairness of microtasks, of messages and of the server
  reading what was sent. None of the connection, which may fail, break or never
  come up, nor of the user.

### Mutants

Operators marked *Mutant of X* stand before X. Each is X with a plausible bug,
and is used by no action; replacing X by it makes the property that
`PROJECT.json` names for it fail, which shows that the property depends on X.

## What is proved

All theorems hold for any finite sets of entities, drones and robots, any
names (but for one theorem that says so) and keys in them, speeds, lengths, durations and paces, from
the assumptions named in the modules.

- `WeatherProofs`: `TypeOK` is inductive as it stands. `SpeedsDontPileUp` is
  not: one must know what `prev` holds. `Calibrated` says of every entity in
  the scene that its speed and its entry are those of a given weather applied
  to its natural speed (or, for a new entity, untouched), and that applying
  the weather again changes nothing. `HiddenOnlyBySevereWeather` needs that
  entities are in the vector at most once (`SceneSound`) and that what is kept
  in `GFX` is in the scene (`HiddenSound`). `SkyMatchesForecast` and
  `AnnouncedOnce` are proved together. `HurricaneHidesEveryone` needs that the
  loop has hidden everyone before the cursor, and `FeedsPages` that only what is
  in view is erased.
- `FlightProofs`: `CelebratesInsideOut` is inductive with the shape of the
  strategy (`CelebrationsInsideOut`), and implies `CompletedMeansAllDone`;
  `OneThingAtATime` follows from the same invariant.
- `TripServiceProofs`: the abstract service keeps its own `OneRobotPerDrone`.
- `FleetProofs`: the inductive invariant is `TypeOK`, `Phases` (which members
  of a drone go together: an available drone has no robot and no routes, a drone
  with `toRobot` has a straight or A* route to it, and so on), `Custody`
  (a taken robot is in the scene, not free, not delivered, and no other drone
  has it) and `FlagsFit` (what `run` and `emergency` say about the route in the
  present weather). From it follow `CarriedRobotIsSafe`, `PickupFitsWeather`,
  `DeliveryFitsWeather`, `DestinationFixedInFlight` and, action by action, that
  every step is a step of `TripService` or leaves it unchanged: `ServesTrips`.

  `TripIsReported` needs to know what the publisher remembers. `Noticed` says that
  the notices of a trip are the first ones up to the one whose key a name holds,
  that this is the key remembered, and that a trip lacks its first notice only
  when a trip before was stuck at "Picking" (`Starts`). The four steps of a trip
  are the same step with another key (`SendFirst`, `SendNext`, `SendAgain`).

  `BookingFindsRobot` is proved by counting. What `ScheduleTrip` looks for is a
  robot of a name, not the robot of the booking, which another booking of that
  name may have taken. `Bookings` says that a robot that is not in the
  scheduler is free and, once created, in the scene, and that of no name are
  more robots in the scheduler than bookings of that name are confirmed. A
  booking that awaits is not confirmed: of its name there is one robot more
  than there are in the scheduler. `ConfirmedTripIsBooked` is proved on the
  assumption that all names differ. Nothing in the code provides for that, and
  without it the property fails (`fleet_twin`); with it every booking gets the
  robot it created (`OwnRobots`).
- `ViewProofs`: the argument is that the queue of events leads each entity, each
  model and the sky from where the page is to where the server is. `SequenceLemmas`
  defines such a lead (`Track`) and shows what adding and taking an event does
  to it. The inductive invariant has the server's side (`ServerSound`), what is
  in the queue (`QueueSound`), and for entities, models and the sky that the
  page's state is one from which the events on their way lead to the server's
  (`EntitySound`, `ModelSound`, `SkySound`). With nothing on its way the two
  agree: `ViewFollowsServer`, `SkyIsShown`.
- `SessionsProofs`: command `n` of a page bears the request id `n - 1` whichever
  way it is sent. The invariant says so of what waits (`WaitingSound`), of what
  is on its way to the server and what has been carried out (`UpSound`), of the
  callbacks (`CallbacksSound`), and that each request is answered once, after
  its events (`DownSound`). The refinement of `Requests` and the properties of
  answers and callbacks follow; none depends on when the connection comes up or
  breaks.

  `TimeIsAccountedFor` is about a sum over all Updates of all pages. The library
  defines it by recursion over an order nobody knows, but a sum of natural numbers
  is the number of its units (`SumCounts`, shown for a least set for which it
  fails), so that another Update adds to the sum what it owes itself
  (`SumExtends`, `UpdateOwes`). That is what the session's clock says, since
  `time` ends with the session's last Update (`ClockSound`, `UpdateRecorded`), and
  the simulation is advanced by it, rounded up (`AdvanceBounds`). Of the pages it
  needs only that they are finitely many, and of the speeds that they are
  positive numbers.
- `SimulationProofs`: to `Weather` the simulation is a behaviour of `Weather`
  (`IsWeather`), since a booking changes nothing `Weather` knows of. To `Fleet`
  it is one of `Fleet` (`LoopImplementsFleet`): that takes what an erase, an
  append or nothing does to the robots picked from the vector (the lemmas about
  `Among`), and `SlotSound`, that the slot the loop works on is the entity at
  its cursor, and no drone once it lies behind the end. So an erase makes the
  loop pass over no drone and visit none twice. The invariants of both
  parts therefore hold of the whole (`PartsKeepPromises`), and with them `TypeOK`, `SpeedIsPace` (the speed
  comes from `SpeedsDontPileUp`) and `TripsSurviveTornado`; the last needs
  `RosterSound`, which says what each part knows of the other's entities.

  A composition by conjunction could also be right because it does too little.
  `NeitherHinders` says that it does not: in every state that satisfies the
  invariant `Sound` (`SoundHolds`), the ticks and the new entities of `Weather` are ones `Fleet`
  is ready for, and what a drone does in `Fleet` when the loop is at it is an
  update `Weather` knows of. That one of the four cases of a drone's update
  always applies is left to TLC, which finds no deadlock in `simulation`.

Only model-checked: the liveness properties (`HiddenComesBack`,
`EventuallyCompleted`, `EveryTripEnds`, `EventuallyDisplayed`,
`EveryCommandAnswered`), which the prover does not handle. Every safety
property of the passing runs, invariant, action property or refinement, is
proved. The library's induction theorems are out of the provers' reach; where a
proof needs induction, about sequences (`SequencesFromBelow`) or finite sets
(`IterCounts`), it takes a least counterexample, which exists because `<` and
the strict subset relation are well founded.

## Where program and documents disagree

Shown by a run:

1. An entity the tornado erases from the end of the vector is updated and
   reported once more (`weather_ghost`).
2. After blazing heat the drone follows A* with a spin, not the path of the
   passenger's choice (`fleet_path`; `README.md:48`).
3. With two bookings of one name, interleaved, one is lost although both are
   confirmed (`fleet_twin`).
4. An entity created in a hurricane is hidden before its mesh has come; the
   handler throws, and `onLoad` then displays the entity (`view_hidden`;
   `README.md:62`).
5. Once a weather is over, the checkbox displays its model: `delete` does not
   forget `currentWeather` (`view_sky`; `README.md:73`).

Seen in the code, and modelled as it is:

- `Weather.cc:62` says heavy snow slows all entities except humans; `SetSpeed`
  of a robot and a satellite does nothing (`Weather!SetSpeed`).
- A drone that arrives in blazing heat is on a plain straight line and does not
  celebrate, against `README.md:48` (`Fleet!Rerouted`).
- `DronePublisher.cc:14` says each message is printed once on the page. With a
  key in a name it may not be at all: of a trip with a robot called
  "Picking ..." only the first notice is printed, since the others are taken for
  the same message (`Fleet!KeyFound`; `TripIsReported` allows just that, and
  `fleet_names` has such a robot).
- A second satellite stays in view during a tornado (`Weather!Spare`).
- With `n` visualization pages open, the simulation runs `n` times as fast: this
  is what `TimeIsAccountedFor` says when every Update carries the same speed.

## What is not modelled

Factories, JSON, vectors and the graph viewer have no state worth checking;
vendored code (`pugixml`, `picojson`, `three.js`, the web server) is not this
program's. Memory management is left out: no entity or strategy is used after
it is deleted in the models because none is ever deleted. Positions are
abstracted: that a drone in snow ends at the graph node nearest to the robot
instead of at the robot is not visible here.

Of the pages, positions, colours and animations, the text of the notification bar,
reading `scenes/umn.json`, map and form of the schedule page, and
`toggleRoutes` and paths (no event of the server draws any) are left out.
`sendPostCommand` has no caller. What the server does when `GFX.at` throws,
and how the web server ends a session, is the library's affair.

Routing (A*, breadth-first search, `NearestNode`, `GetPath`) and the parsers are
pure functions over one fixed file; nothing happens in between their steps.
What they return is a free choice of the models.

## What could follow

- That `View` joined to the whole of `Simulation`, through `Feed`, displays what
  the simulation has in view: both halves are proved, their conjunction is not
  written down.
- The searches of `pathing.cc` against a reference definition of paths over small
  graphs.
