------------------------------ MODULE ViewProofs ------------------------------
(***************************************************************************)
(* The safety properties of View, proved for any entities and models, any  *)
(* number of events on their way, and whatever the server and the user do. *)
(*                                                                         *)
(* The argument: of every entity, every model and the sky, the queue of    *)
(* events leads (Track) from where the page is to where the server is.     *)
(***************************************************************************)
EXTENDS View, SequenceLemmas, FiniteSetTheorems

Names == {"AddEntity", "UpdateEntity", "RemoveEntity", "RemoveFromView", "AddToView"}
Events == [event : Names, id : Ids]

\* What the server keeps for itself.
ServerSound ==
  /\ shown \subseteq scene
  /\ scene \cap gone = {}
  /\ \A w \in WeatherTypes : gfx[w] # NoId => gfx[w] \in made /\ TypeOf[gfx[w]] = w
  /\ sky # "none" => gfx[sky] # NoId

\* A page without a session is told nothing; models are not erased.
QueueSound ==
  /\ ~present => inbox = <<>> /\ told = {}
  /\ \A k \in 1 .. Len(inbox) :
       inbox[k].event = "RemoveEntity" => inbox[k].id \in Entities

\* No event about id is on its way.
Unheard(id) == \A k \in 1 .. Len(inbox) : inbox[k].id # id

\* The events that change something for id.
EventsOf(id) ==
  {Event(n, id) : n \in {"AddEntity", "RemoveEntity", "RemoveFromView", "AddToView"}}

\* Where an entity is: not created yet, in view, hidden, or erased.
Sides == {"new", "in", "out", "gone"}
Before(e) ==
  [ev \in EventsOf(e) |-> IF ev.event = "AddEntity" THEN "new"
                          ELSE IF ev.event = "AddToView" THEN "out" ELSE "in"]
After(e) ==
  [ev \in EventsOf(e) |-> IF ev.event = "RemoveEntity" THEN "gone"
                          ELSE IF ev.event = "RemoveFromView" THEN "out" ELSE "in"]
EntityTrack(q, e, a, b) == Track(q, EventsOf(e), Before(e), After(e), Sides, a, b)

ServerSide(e) ==
  IF e \in gone THEN "gone" ELSE IF e \notin scene THEN "new"
  ELSE IF e \in shown THEN "in" ELSE "out"

\* What the page holds of an entity that is there for it.
PageSide(e, a) ==
  /\ e \in options <=> a = "in"
  /\ e \in viewContainer <=> a = "out"
  /\ e \in loading => a = "in"
  /\ e \in visible <=> a = "in" /\ e \notin loading
  /\ entities[e] = IF a = "in" /\ e \notin loading THEN "mesh" ELSE "absent"

EntitySound(e) ==
  /\ e \notin scene \cup gone =>
       e \notin told \cup overtaken /\ Unheard(e) /\ PageSide(e, "new")
  /\ e \in told \ overtaken =>
       \E a \in Sides : PageSide(e, a) /\ EntityTrack(inbox, e, a, ServerSide(e))

\* The page knows a model once it has handled its AddEntity.
ModelBefore(m) ==
  [ev \in EventsOf(m) |-> IF ev.event = "AddEntity" THEN "new" ELSE "known"]
ModelAfter(m) == [ev \in EventsOf(m) |-> "known"]
ModelTrack(q, m, a, b) ==
  Track(q, EventsOf(m), ModelBefore(m), ModelAfter(m), {"new", "known"}, a, b)

ModelSound(m) ==
  /\ m \notin made => m \notin told \cup overtaken /\ Unheard(m)
  /\ entities[m] # "undefined"
  /\ m \in told \ overtaken =>
       \E a \in {"new", "known"} :
         /\ ModelTrack(inbox, m, a, "known")
         /\ a = "known" => m \in loading \/ entities[m] = "mesh"

\* The sky: no weather, or the one whose model was shown last.
Skies == WeatherTypes \cup {"none"}
SkyEvents == {Event(n, m) : n \in {"RemoveFromView", "AddToView"}, m \in Models}
SkyBefore == [ev \in SkyEvents |-> IF ev.event = "AddToView" THEN "none" ELSE TypeOf[ev.id]]
SkyAfter == [ev \in SkyEvents |-> IF ev.event = "AddToView" THEN TypeOf[ev.id] ELSE "none"]
SkyTrack(q, a, b) == Track(q, SkyEvents, SkyBefore, SkyAfter, Skies, a, b)

PageSky(a) ==
  a # "none" => /\ currentWeather \in Models
                /\ TypeOf[currentWeather] = a
                /\ currentWeather \in visible <=> showWeather

SkySound ==
  made \subseteq told /\ Models \cap overtaken = {} =>
    \E a \in Skies : PageSky(a) /\ SkyTrack(inbox, a, sky)

Inv ==
  /\ TypeOK /\ ServerSound /\ QueueSound
  /\ \A e \in Entities : EntitySound(e)
  /\ \A m \in Models : ModelSound(m)
  /\ SkySound
  /\ CameraHasTarget

-----------------------------------------------------------------------------
(* What the server's actions broadcast.                                    *)

\* The events of Weather::Reverse, with what is given back in this order.
Returned(order) ==
  (IF sky = "none" THEN <<>> ELSE <<Event("RemoveFromView", gfx[sky])>>)
  \o [i \in DOMAIN order |-> Event("AddToView", order[i])]

LEMMA EventType ==
  /\ \A n \in Names, id \in Ids : Event(n, id) \in Events
  /\ \A n, id : Event(n, id).event = n /\ Event(n, id).id = id
  /\ \A n, o, id, jd : Event(n, id) = Event(o, jd) => n = o /\ id = jd
BY DEF Event, Events

\* The model in the sky is one that was created, and of that weather.
LEMMA SkyModel ==
  ASSUME TypeOK, ServerSound, sky # "none"
  PROVE  gfx[sky] \in Models /\ gfx[sky] \in made /\ TypeOf[gfx[sky]] = sky
BY ViewAssumption DEF TypeOK, ServerSound, Ids

\* Reverse sends at most one event about a model, first, and then one about
\* each hidden entity.
LEMMA ReturnedFacts ==
  ASSUME TypeOK, ServerSound,
         NEW order \in [1 .. Cardinality(scene \ shown) -> scene \ shown],
         \A i, j \in DOMAIN order : order[i] = order[j] => i = j
  PROVE  \E first \in {0, 1} :
           /\ Returned(order) \in Seq(Events)
           /\ (first = 0 <=> sky = "none") /\ first <= Len(Returned(order))
           /\ first = 1 => Returned(order)[1] = Event("RemoveFromView", gfx[sky])
           /\ \A k \in first + 1 .. Len(Returned(order)) :
                \E e \in scene \ shown : Returned(order)[k] = Event("AddToView", e)
           /\ \A e \in scene \ shown :
                \E k \in first + 1 .. Len(Returned(order)) :
                  /\ Returned(order)[k] = Event("AddToView", e)
                  /\ \A l \in first + 1 .. Len(Returned(order)) :
                       Returned(order)[l] = Event("AddToView", e) => l = k
<1> DEFINE H == scene \ shown
           n == Cardinality(H)
           f == IF sky = "none" THEN <<>> ELSE <<Event("RemoveFromView", gfx[sky])>>
           g == [i \in DOMAIN order |-> Event("AddToView", order[i])]
           first == Len(f)
<1>1. IsFiniteSet(H) /\ H \subseteq Entities
  BY FS_Subset, ViewAssumption DEF TypeOK
<1>2. n \in Nat
  BY <1>1, FS_CardinalityType
<1>3. order \in Injection(1 .. n, H)
  BY DEF Injection, IsInjective
<1>4. order \in Surjection(1 .. n, H)
  <2>1. Cardinality(1 .. n) = n
    BY <1>2, FS_Interval
  <2>2. QED
    BY <1>1, <1>3, <2>1, FS_Injection, Zenon
<1>5. \A e \in H : \E i \in 1 .. n : order[i] = e
  BY <1>4 DEF Surjection
<1>6. /\ f \in Seq(Events) /\ first \in {0, 1} /\ (first = 0 <=> sky = "none")
      /\ first = 1 => f[1] = Event("RemoveFromView", gfx[sky])
  <2>1. CASE sky = "none"
    BY <2>1
  <2>2. CASE sky # "none"
    <3>1. Event("RemoveFromView", gfx[sky]) \in Events
      BY <2>2, SkyModel, EventType DEF Names, Ids
    <3>2. QED
      BY <2>2, <3>1
  <2>3. QED
    BY <2>1, <2>2
<1>7. g \in Seq(Events) /\ Len(g) = n
  <2>1. DOMAIN order = 1 .. n
    OBVIOUS
  <2>2. \A i \in 1 .. n : Event("AddToView", order[i]) \in Events
    BY <1>1, EventType DEF Names, Ids
  <2>3. g \in [1 .. n -> Events]
    BY <2>1, <2>2
  <2> HIDE DEF n, g
  <2>4. QED
    BY <1>2, <2>3
<1>8. \A i \in 1 .. n : g[i] = Event("AddToView", order[i])
  OBVIOUS
<1>9. Returned(order) = f \o g
  BY DEF Returned
<1>10. \A i \in 1 .. n : order[i] \in H
  OBVIOUS
<1>11. \A i, j \in 1 .. n : order[i] = order[j] => i = j
  OBVIOUS
<1> HIDE DEF f, g, n, H, first
<1>12. /\ f \o g \in Seq(Events) /\ Len(f \o g) = first + n
       /\ \A k \in 1 .. first : (f \o g)[k] = f[k]
       /\ \A k \in first + 1 .. first + n : (f \o g)[k] = g[k - first]
  BY <1>2, <1>6, <1>7 DEF first
<1>13. \A k \in first + 1 .. first + n :
         k - first \in 1 .. n /\ (f \o g)[k] = Event("AddToView", order[k - first])
  <2>1. ASSUME NEW k \in first + 1 .. first + n
        PROVE  k - first \in 1 .. n /\ (f \o g)[k] = Event("AddToView", order[k - first])
    <3>1. k - first \in 1 .. n
      BY <1>2, <1>6
    <3>2. (f \o g)[k] = g[k - first]
      BY <1>12
    <3>3. QED
      BY <1>8, <3>1, <3>2
  <2>2. QED
    BY <2>1
<1>14. ASSUME NEW k \in first + 1 .. first + n
       PROVE  \E e \in H : (f \o g)[k] = Event("AddToView", e)
  BY <1>10, <1>13
<1>15. ASSUME NEW e \in H
       PROVE  \E k \in first + 1 .. first + n :
                /\ (f \o g)[k] = Event("AddToView", e)
                /\ \A l \in first + 1 .. first + n :
                     (f \o g)[l] = Event("AddToView", e) => l = k
  <2>1. PICK i \in 1 .. n : order[i] = e
    BY <1>5
  <2>2. first + i \in first + 1 .. first + n /\ (first + i) - first = i
    BY <1>2, <1>6
  <2>3. (f \o g)[first + i] = Event("AddToView", e)
    BY <1>13, <2>1, <2>2
  <2>4. ASSUME NEW l \in first + 1 .. first + n, (f \o g)[l] = Event("AddToView", e)
        PROVE  l = first + i
    <3>1. order[l - first] = e
      <4>1. (f \o g)[l] = Event("AddToView", order[l - first])
        BY <1>13
      <4>2. Event("AddToView", order[l - first]) = Event("AddToView", e)
        BY <2>4, <4>1
      <4>3. QED
        BY <4>2 DEF Event
    <3>2. l - first = i
      BY <1>11, <1>13, <2>1, <3>1
    <3>3. QED
      BY <1>2, <1>6, <3>2
  <2>5. QED
    BY <2>2, <2>3, <2>4
<1>16. first = 1 => (f \o g)[1] = Event("RemoveFromView", gfx[sky])
  <2>1. first = 1 => 1 \in 1 .. first
    OBVIOUS
  <2>2. QED
    BY <1>6, <1>12, <2>1
<1>17. first \in {0, 1}
  BY <1>6
<1> DEFINE q == Returned(order)
<1>18. /\ q \in Seq(Events) /\ Len(q) = first + n /\ q = f \o g
       /\ first = 1 => q[1] = Event("RemoveFromView", gfx[sky])
  BY <1>9, <1>12, <1>16
<1> HIDE DEF q
<1>19. \A k \in first + 1 .. Len(q) : \E e \in scene \ shown : q[k] = Event("AddToView", e)
  BY <1>14, <1>18 DEF H
<1>20. ASSUME NEW e \in scene \ shown
       PROVE  \E k \in first + 1 .. Len(q) :
                /\ q[k] = Event("AddToView", e)
                /\ \A l \in first + 1 .. Len(q) : q[l] = Event("AddToView", e) => l = k
  <2>1. e \in H
    BY DEF H
  <2>2. QED
    BY <1>15, <1>18, <2>1
<1>21. (first = 0 <=> sky = "none") /\ first <= Len(q)
  BY <1>2, <1>6, <1>18
<1>22. QED
  BY <1>17, <1>18, <1>19, <1>20, <1>21 DEF q

\* The empty queue, seen by everything that is tracked.
LEMMA EmptyQueue ==
  /\ <<>> \in Seq(Events) /\ Len(<<>>) = 0
  /\ \A E, B, A, R : \A a \in R : Track(<<>>, E, B, A, R, a, a)
<1>1. <<>> \in Seq(Events) /\ Len(<<>>) = 0
  OBVIOUS
<1>2. ASSUME NEW E, NEW B, NEW A, NEW R, NEW a \in R
      PROVE  Track(<<>>, E, B, A, R, a, a)
  <2>1. \A k \in 1 .. Len(<<>>) : <<>>[k] \notin E
    OBVIOUS
  <2>2. <<>> \in Seq({})
    OBVIOUS
  <2>3. QED
    BY <2>1, <2>2, TrackNone, Zenon
<1>3. QED
  BY <1>1, <1>2

\* An event of two queues that follow each other is one of the first or of the
\* second.
LEMMA ConcatElements ==
  ASSUME NEW S, NEW p \in Seq(S), NEW q \in Seq(S), NEW k \in 1 .. Len(p \o q)
  PROVE  \/ k \in 1 .. Len(p) /\ (p \o q)[k] = p[k]
         \/ \E l \in 1 .. Len(q) : (p \o q)[k] = q[l]
<1>1. Len(p) \in Nat /\ Len(q) \in Nat /\ Len(p \o q) = Len(p) + Len(q)
  OBVIOUS
<1>2. CASE k <= Len(p)
  BY <1>1, <1>2
<1>3. CASE k > Len(p)
  <2>1. k - Len(p) \in 1 .. Len(q) /\ (p \o q)[k] = q[k - Len(p)]
    BY <1>1, <1>3
  <2>2. QED
    BY <2>1
<1>4. QED
  BY <1>1, <1>2, <1>3

\* What the events of a server's step lead everything they concern to.
Heard(events, n, id) == \E k \in 1 .. Len(events) : events[k] = Event(n, id)
Silent(events, id) == \A k \in 1 .. Len(events) : events[k].id # id

Leads(events) ==
  /\ events \in Seq(Events)
  /\ \A k \in 1 .. Len(events) :
       events[k].event = "RemoveEntity" => events[k].id \in Entities
  /\ made \subseteq made'
  /\ \A e \in Entities :
       /\ EntityTrack(events, e, ServerSide(e), ServerSide(e)')
       /\ Heard(events, "AddEntity", e) => e \notin scene \cup gone
       /\ e \notin (scene \cup gone)' => e \notin scene \cup gone /\ Silent(events, e)
  /\ \A m \in Models :
       /\ m \in made => ModelTrack(events, m, "known", "known")
       /\ Heard(events, "AddEntity", m) =>
            m \notin made /\ ModelTrack(events, m, "new", "known")
       /\ m \notin made' => Silent(events, m)
  /\ SkyTrack(events, sky, sky')

\* What Broadcast changes.
LEMMA BroadcastFacts ==
  ASSUME TypeOK, QueueSound, NEW events \in Seq(Events), Broadcast(events)
  PROVE  /\ UNCHANGED <<present, menuVars, skyVars, bodyVars, overtaken, hasty>>
         /\ inbox \in Seq(Events) /\ inbox' \in Seq(Events)
         /\ present => inbox' = inbox \o events
         /\ ~present => inbox' = <<>> /\ told = {} /\ told' = {}
         /\ told \subseteq told' /\ told' \subseteq Ids
         /\ \A id \in told' \ told : Heard(events, "AddEntity", id)
<1>1. inbox \in Seq(Events)
  BY DEF TypeOK, Events, Names
<1>2. /\ UNCHANGED <<present, menuVars, skyVars, bodyVars, overtaken, hasty>>
      /\ inbox' = IF present THEN inbox \o events ELSE inbox
  BY DEF Broadcast
<1>3. inbox' \in Seq(Events)
  BY <1>1, <1>2
<1>4. ~present => inbox' = <<>> /\ told = {} /\ told' = {}
  BY <1>2 DEF Broadcast, QueueSound
<1>5. told \subseteq told' /\ told \subseteq Ids
  BY DEF Broadcast, TypeOK
<1>6. ASSUME NEW id \in told', id \notin told
      PROVE  Heard(events, "AddEntity", id) /\ id \in Ids
  <2>1. PICK k \in DOMAIN events : events[k].event = "AddEntity" /\ events[k].id = id
    BY <1>6 DEF Broadcast
  <2>2. k \in 1 .. Len(events) /\ events[k] \in Events
    BY <2>1
  <2>3. events[k] = Event("AddEntity", id) /\ id \in Ids
    BY <2>1, <2>2 DEF Events, Event
  <2>4. QED
    BY <2>2, <2>3 DEF Heard
<1>7. QED
  BY <1>1, <1>2, <1>3, <1>4, <1>5, <1>6

\* An entity stays tracked when the server sends what concerns it.
LEMMA EntityTold ==
  ASSUME Inv, NEW events, Leads(events), Broadcast(events), NEW e \in Entities
  PROVE  EntitySound(e)'
<1> USE DEF Inv
<1>0. events \in Seq(Events)
  BY DEF Leads
<1>1. /\ UNCHANGED <<present, menuVars, skyVars, bodyVars, overtaken, hasty>>
      /\ inbox \in Seq(Events)
      /\ present => inbox' = inbox \o events
      /\ ~present => inbox' = <<>> /\ told' = {}
      /\ told \subseteq told'
      /\ e \in told' \ told => Heard(events, "AddEntity", e)
  BY <1>0, BroadcastFacts
<1>2. \A a : PageSide(e, a)' <=> PageSide(e, a)
  BY <1>1 DEF PageSide, menuVars, bodyVars
<1>3. /\ EntityTrack(events, e, ServerSide(e), ServerSide(e)')
      /\ Heard(events, "AddEntity", e) => e \notin scene \cup gone
      /\ e \notin (scene \cup gone)' => e \notin scene \cup gone /\ Silent(events, e)
  BY DEF Leads
<1>4. EntitySound(e)
  OBVIOUS
<1>5. ASSUME e \notin (scene \cup gone)'
      PROVE  (e \notin told \cup overtaken /\ Unheard(e) /\ PageSide(e, "new"))'
  <2>1. e \notin told \cup overtaken /\ Unheard(e) /\ PageSide(e, "new")
    BY <1>3, <1>4, <1>5 DEF EntitySound
  <2>2. ~Heard(events, "AddEntity", e)
    BY <1>3, <1>5, EventType DEF Heard, Silent
  <2>3. Unheard(e)'
    <3>1. CASE present
      <4>1. ASSUME NEW k \in 1 .. Len(inbox \o events) PROVE (inbox \o events)[k].id # e
        BY <1>0, <1>1, <1>3, <1>5, <2>1, ConcatElements DEF Unheard, Silent
      <4>2. QED
        BY <1>1, <3>1, <4>1 DEF Unheard
    <3>2. CASE ~present
      BY <1>1, <3>2 DEF Unheard
    <3>3. QED
      BY <3>1, <3>2
  <2>4. QED
    BY <1>1, <1>2, <2>1, <2>2, <2>3
<1>6. ASSUME e \in told', e \notin overtaken
      PROVE  \E a \in Sides : PageSide(e, a) /\ EntityTrack(inbox', e, a, ServerSide(e)')
  <2>1. present /\ inbox' = inbox \o events
    BY <1>1, <1>6
  <2>2. PICK a \in Sides : PageSide(e, a) /\ EntityTrack(inbox, e, a, ServerSide(e))
    <3>1. CASE e \in told
      BY <1>4, <1>6, <3>1 DEF EntitySound
    <3>2. CASE e \notin told
      <4>1. e \notin scene \cup gone /\ Unheard(e) /\ PageSide(e, "new")
        BY <1>1, <1>3, <1>4, <1>6, <3>2 DEF EntitySound
      <4>2. \A k \in 1 .. Len(inbox) : inbox[k] \notin EventsOf(e)
        BY <4>1, EventType DEF Unheard, EventsOf
      <4>3. EntityTrack(inbox, e, "new", "new")
        BY <1>1, <4>2, TrackNone DEF EntityTrack, Sides
      <4>4. QED
        BY <4>1, <4>3 DEF ServerSide, Sides
    <3>3. QED
      BY <3>1, <3>2
  <2>3. EntityTrack(inbox \o events, e, a, ServerSide(e)')
    BY <1>0, <1>1, <1>3, <2>2, TrackConcat DEF EntityTrack
  <2>4. QED
    BY <2>1, <2>2, <2>3
<1>7. QED
  BY <1>1, <1>2, <1>5, <1>6 DEF EntitySound, EntityTrack

\* So does a model.
LEMMA ModelTold ==
  ASSUME Inv, NEW events, Leads(events), Broadcast(events), NEW m \in Models
  PROVE  ModelSound(m)'
<1> USE DEF Inv
<1>0. events \in Seq(Events)
  BY DEF Leads
<1>1. /\ UNCHANGED <<present, menuVars, skyVars, bodyVars, overtaken, hasty>>
      /\ inbox \in Seq(Events)
      /\ present => inbox' = inbox \o events
      /\ ~present => inbox' = <<>> /\ told' = {}
      /\ told \subseteq told'
      /\ m \in told' \ told => Heard(events, "AddEntity", m)
  BY <1>0, BroadcastFacts
<1>2. /\ made \subseteq made'
      /\ m \in made => ModelTrack(events, m, "known", "known")
      /\ Heard(events, "AddEntity", m) =>
           m \notin made /\ ModelTrack(events, m, "new", "known")
      /\ m \notin made' => Silent(events, m)
  BY DEF Leads
<1>3. ModelSound(m)
  OBVIOUS
<1>4. ASSUME m \notin made'
      PROVE  (m \notin told \cup overtaken /\ Unheard(m))'
  <2>1. m \notin told \cup overtaken /\ Unheard(m)
    BY <1>2, <1>3, <1>4 DEF ModelSound
  <2>2. ~Heard(events, "AddEntity", m)
    BY <1>2, <1>4, EventType DEF Heard, Silent
  <2>3. Unheard(m)'
    <3>1. CASE present
      <4>1. ASSUME NEW k \in 1 .. Len(inbox \o events) PROVE (inbox \o events)[k].id # m
        BY <1>0, <1>1, <1>2, <1>4, <2>1, ConcatElements DEF Unheard, Silent
      <4>2. QED
        BY <1>1, <3>1, <4>1 DEF Unheard
    <3>2. CASE ~present
      BY <1>1, <3>2 DEF Unheard
    <3>3. QED
      BY <3>1, <3>2
  <2>4. QED
    BY <1>1, <2>1, <2>2, <2>3
<1>5. ASSUME m \in told', m \notin overtaken
      PROVE  \E a \in {"new", "known"} :
               /\ ModelTrack(inbox', m, a, "known")
               /\ a = "known" => m \in loading \/ entities[m] = "mesh"
  <2>1. present /\ inbox' = inbox \o events
    BY <1>1, <1>5
  <2>2. CASE m \in told
    <3>1. PICK a \in {"new", "known"} :
            /\ ModelTrack(inbox, m, a, "known")
            /\ a = "known" => m \in loading \/ entities[m] = "mesh"
      BY <1>3, <1>5, <2>2 DEF ModelSound
    <3>2. m \in made
      BY <1>3, <2>2 DEF ModelSound
    <3>3. ModelTrack(inbox \o events, m, a, "known")
      BY <1>0, <1>1, <1>2, <3>1, <3>2, TrackConcat DEF ModelTrack
    <3>4. QED
      BY <2>1, <3>1, <3>3
  <2>3. CASE m \notin told
    <3>1. m \notin made /\ ModelTrack(events, m, "new", "known") /\ Unheard(m)
      BY <1>1, <1>2, <1>3, <1>5, <2>3 DEF ModelSound
    <3>2. \A k \in 1 .. Len(inbox) : inbox[k] \notin EventsOf(m)
      BY <3>1, EventType DEF Unheard, EventsOf
    <3>3. ModelTrack(inbox, m, "new", "new")
      BY <1>1, <3>2, TrackNone DEF ModelTrack
    <3>4. ModelTrack(inbox \o events, m, "new", "known")
      BY <1>0, <1>1, <3>1, <3>3, TrackConcat DEF ModelTrack
    <3>5. QED
      BY <2>1, <3>4
  <2>4. QED
    BY <2>2, <2>3
<1>6. QED
  BY <1>1, <1>4, <1>5 DEF ModelSound, ModelTrack, bodyVars

\* And the sky, on a page that knows all models.
LEMMA SkyTold ==
  ASSUME Inv, TypeOK', ServerSound', NEW events, Leads(events), Broadcast(events)
  PROVE  SkySound'
<1> USE DEF Inv
<1>0. events \in Seq(Events)
  BY DEF Leads
<1>1. /\ UNCHANGED <<present, menuVars, skyVars, bodyVars, overtaken, hasty>>
      /\ inbox \in Seq(Events)
      /\ present => inbox' = inbox \o events
      /\ ~present => inbox' = <<>> /\ told' = {} /\ told = {}
      /\ \A id \in told' \ told : Heard(events, "AddEntity", id)
  BY <1>0, BroadcastFacts
<1>2. SkyTrack(events, sky, sky') /\ made \subseteq made' /\ made \subseteq Models
  BY DEF Leads, TypeOK
<1>3. SUFFICES ASSUME made' \subseteq told', Models \cap overtaken = {}
               PROVE  \E a \in Skies : PageSky(a) /\ SkyTrack(inbox', a, sky')
  BY <1>1 DEF SkySound, PageSky, SkyTrack, skyVars, bodyVars
<1>4. made \subseteq told
  <2>1. ASSUME NEW m \in made, m \notin told PROVE FALSE
    <3>1. Heard(events, "AddEntity", m) /\ m \in Models
      BY <1>1, <1>2, <1>3, <2>1
    <3>2. m \notin made
      BY <3>1 DEF Leads
    <3>3. QED
      BY <2>1, <3>2
  <2>2. QED
    BY <2>1
<1>5. PICK a \in Skies : PageSky(a) /\ SkyTrack(inbox, a, sky)
  BY <1>3, <1>4 DEF SkySound
<1>6. CASE present
  <2>1. SkyTrack(inbox \o events, a, sky')
    BY <1>0, <1>1, <1>2, <1>5, TrackConcat DEF SkyTrack
  <2>2. QED
    BY <1>1, <1>5, <1>6, <2>1
<1>7. CASE ~present
  <2>1. made' = {}
    BY <1>1, <1>3, <1>7
  <2>2. sky' = "none"
    <3>1. ASSUME sky' # "none" PROVE gfx'[sky'] \in made'
      <4>1. gfx'[sky'] # NoId
        BY <3>1 DEF ServerSound
      <4>2. sky' \in WeatherTypes
        BY <3>1 DEF TypeOK
      <4>3. QED
        BY <4>1, <4>2 DEF ServerSound
    <3>2. QED
      BY <2>1, <3>1
  <2>3. "none" \in Skies /\ PageSky("none")
    BY DEF Skies, PageSky
  <2>4. SkyTrack(inbox', "none", "none")
    BY <1>1, <1>7, <2>3, EmptyQueue DEF SkyTrack
  <2>5. QED
    BY <2>2, <2>3, <2>4
<1>8. QED
  BY <1>6, <1>7

\* The types of what a server's step leaves to the page.
LEMMA BroadcastType ==
  ASSUME TypeOK, QueueSound, NEW events \in Seq(Events), Broadcast(events),
         scene' \subseteq Entities, shown' \subseteq Entities, gone' \subseteq Entities,
         sky' \in WeatherTypes \cup {"none"}, made' \subseteq Models,
         gfx' \in [WeatherTypes -> Models \cup {NoId}]
  PROVE  TypeOK'
<1>1. /\ UNCHANGED <<present, menuVars, skyVars, bodyVars, overtaken, hasty>>
      /\ inbox' \in Seq(Events) /\ told' \subseteq Ids
  BY BroadcastFacts
<1>2. QED
  BY <1>1 DEF TypeOK, Events, Names, menuVars, skyVars, bodyVars

\* A step of the server that keeps its own state sound and sends what leads
\* everything where it is now keeps the invariant.
LEMMA ServerStep ==
  ASSUME Inv, TypeOK', ServerSound', NEW events, Leads(events), Broadcast(events)
  PROVE  Inv'
<1> USE DEF Inv
<1>1. /\ UNCHANGED <<present, menuVars, skyVars, bodyVars, overtaken, hasty>>
      /\ inbox \in Seq(Events) /\ events \in Seq(Events)
      /\ present => inbox' = inbox \o events
      /\ ~present => inbox' = <<>> /\ told' = {}
  BY BroadcastFacts DEF Leads
<1>2. QueueSound'
  <2>1. ASSUME NEW k \in 1 .. Len(inbox'),
               inbox'[k].event = "RemoveEntity"
        PROVE  inbox'[k].id \in Entities
    <3>1. CASE present
      <4>1. inbox' = inbox \o events /\ k \in 1 .. Len(inbox \o events)
        BY <1>1, <2>1, <3>1
      <4>2. \/ k \in 1 .. Len(inbox) /\ inbox'[k] = inbox[k]
            \/ \E l \in 1 .. Len(events) : inbox'[k] = events[l]
        BY <1>1, <4>1, ConcatElements
      <4>3. QED
        BY <2>1, <4>2 DEF QueueSound, Leads
    <3>2. CASE ~present
      BY <1>1, <2>1, <3>2
    <3>3. QED
      BY <3>1, <3>2
  <2>2. QED
    BY <1>1, <2>1 DEF QueueSound
<1>3. CameraHasTarget'
  BY <1>1 DEF CameraHasTarget, Follows, menuVars, bodyVars
<1>4. QED
  BY <1>2, <1>3, EntityTold, ModelTold, SkyTold

\* A single event leads what it concerns from before it to after it, and
\* leaves everything else where it is.
LEMMA SingleEvent ==
  ASSUME NEW ev \in Events, NEW E, NEW B, NEW A, NEW R
  PROVE  /\ <<ev>> \in Seq(Events)
         /\ ev \in E /\ B[ev] \in R /\ A[ev] \in R => Track(<<ev>>, E, B, A, R, B[ev], A[ev])
         /\ ev \notin E => \A a \in R : Track(<<ev>>, E, B, A, R, a, a)
         /\ \A n, id : Heard(<<ev>>, n, id) <=> ev = Event(n, id)
         /\ \A id : Silent(<<ev>>, id) <=> ev.id # id
         /\ \A k \in 1 .. Len(<<ev>>) : <<ev>>[k] = ev
<1> DEFINE q == <<ev>>
<1>1. q \in Seq(Events) /\ Len(q) = 1 /\ q[1] = ev /\ 1 \in 1 .. Len(q)
      /\ \A k \in 1 .. Len(q) : k = 1
  OBVIOUS
<1> HIDE DEF q
<1>2. ASSUME ev \in E, B[ev] \in R, A[ev] \in R PROVE Track(q, E, B, A, R, B[ev], A[ev])
  BY <1>1, <1>2, TrackOne
<1>3. ASSUME ev \notin E, NEW a \in R PROVE Track(q, E, B, A, R, a, a)
  <2>1. \A k \in 1 .. Len(q) : q[k] \notin E
    BY <1>1, <1>3
  <2>2. QED
    BY <1>1, <2>1, TrackNone
<1>4. (\A n, id : Heard(q, n, id) <=> ev = Event(n, id))
      /\ \A id : Silent(q, id) <=> ev.id # id
  BY <1>1 DEF Heard, Silent
<1>5. \A k \in 1 .. Len(q) : q[k] = ev
  BY <1>1
<1>6. QED
  BY <1>1, <1>2, <1>3, <1>4, <1>5 DEF q

\* Where one event leads an entity,
LEMMA EntityEvent ==
  ASSUME NEW e \in Entities
  PROVE  /\ EntityTrack(<<Event("AddEntity", e)>>, e, "new", "in")
         /\ EntityTrack(<<Event("RemoveFromView", e)>>, e, "in", "out")
         /\ EntityTrack(<<Event("AddToView", e)>>, e, "out", "in")
         /\ EntityTrack(<<Event("RemoveEntity", e)>>, e, "in", "gone")
         /\ \A n \in Names, id \in Ids : id # e \/ n = "UpdateEntity" =>
              \A a \in Sides : EntityTrack(<<Event(n, id)>>, e, a, a)
<1>1. /\ \A n \in {"AddEntity", "RemoveEntity", "RemoveFromView", "AddToView"} :
           /\ Event(n, e) \in EventsOf(e) /\ Event(n, e) \in Events /\ Event(n, e).event = n
           /\ Before(e)[Event(n, e)] = IF n = "AddEntity" THEN "new"
                                       ELSE IF n = "AddToView" THEN "out" ELSE "in"
           /\ After(e)[Event(n, e)] = IF n = "RemoveEntity" THEN "gone"
                                      ELSE IF n = "RemoveFromView" THEN "out" ELSE "in"
      /\ \A n \in Names, id \in Ids : id # e \/ n = "UpdateEntity" =>
           Event(n, id) \notin EventsOf(e) /\ Event(n, id) \in Events
  BY EventType DEF EventsOf, Before, After, Names, Ids
<1>2. ASSUME NEW n \in {"AddEntity", "RemoveEntity", "RemoveFromView", "AddToView"}
      PROVE  EntityTrack(<<Event(n, e)>>, e, Before(e)[Event(n, e)], After(e)[Event(n, e)])
  BY <1>1, SingleEvent DEF EntityTrack, Sides
<1>3. ASSUME NEW n \in Names, NEW id \in Ids, id # e \/ n = "UpdateEntity", NEW a \in Sides
      PROVE  EntityTrack(<<Event(n, id)>>, e, a, a)
  BY <1>1, <1>3, SingleEvent DEF EntityTrack
<1>4. QED
  BY <1>1, <1>2, <1>3

\* a model,
LEMMA ModelEvent ==
  ASSUME NEW m \in Models
  PROVE  /\ ModelTrack(<<Event("AddEntity", m)>>, m, "new", "known")
         /\ \A n \in Names, id \in Ids : id # m \/ n # "AddEntity" =>
              ModelTrack(<<Event(n, id)>>, m, "known", "known")
<1>1. /\ \A n \in {"AddEntity", "RemoveEntity", "RemoveFromView", "AddToView"} :
           /\ Event(n, m) \in EventsOf(m) /\ Event(n, m) \in Events
           /\ ModelBefore(m)[Event(n, m)] = IF n = "AddEntity" THEN "new" ELSE "known"
           /\ ModelAfter(m)[Event(n, m)] = "known"
      /\ \A n \in Names, id \in Ids : id # m \/ n = "UpdateEntity" =>
           Event(n, id) \notin EventsOf(m) /\ Event(n, id) \in Events
  BY EventType DEF EventsOf, ModelBefore, ModelAfter, Names, Ids
<1>2. ASSUME NEW n \in {"AddEntity", "RemoveEntity", "RemoveFromView", "AddToView"}
      PROVE  ModelTrack(<<Event(n, m)>>, m, ModelBefore(m)[Event(n, m)], "known")
  <2>1. ModelTrack(<<Event(n, m)>>, m, ModelBefore(m)[Event(n, m)], ModelAfter(m)[Event(n, m)])
    BY <1>1, SingleEvent DEF ModelTrack
  <2>2. QED
    BY <1>1, <2>1
<1>3. ASSUME NEW n \in Names, NEW id \in Ids, id # m \/ n = "UpdateEntity"
      PROVE  ModelTrack(<<Event(n, id)>>, m, "known", "known")
  BY <1>1, <1>3, SingleEvent DEF ModelTrack
<1>4. ASSUME NEW n \in Names, NEW id \in Ids, id # m \/ n # "AddEntity"
      PROVE  ModelTrack(<<Event(n, id)>>, m, "known", "known")
  <2>1. CASE id # m \/ n = "UpdateEntity"
    BY <1>3, <2>1
  <2>2. CASE id = m /\ n # "UpdateEntity"
    BY <1>1, <1>2, <1>4, <2>2 DEF Names
  <2>3. QED
    BY <2>1, <2>2
<1>5. QED
  BY <1>1, <1>2, <1>4

\* and the sky.
LEMMA SkyEvent ==
  /\ \A m \in Models : /\ SkyTrack(<<Event("AddToView", m)>>, "none", TypeOf[m])
                       /\ SkyTrack(<<Event("RemoveFromView", m)>>, TypeOf[m], "none")
  /\ \A n \in Names, id \in Ids : id \notin Models \/ n \notin {"RemoveFromView", "AddToView"} =>
       \A a \in Skies : SkyTrack(<<Event(n, id)>>, a, a)
<1>1. ASSUME NEW m \in Models, NEW n \in {"RemoveFromView", "AddToView"}
      PROVE  SkyTrack(<<Event(n, m)>>, IF n = "AddToView" THEN "none" ELSE TypeOf[m],
                                       IF n = "AddToView" THEN TypeOf[m] ELSE "none")
  <2>1. /\ Event(n, m) \in SkyEvents /\ Event(n, m) \in Events
        /\ SkyBefore[Event(n, m)] = IF n = "AddToView" THEN "none" ELSE TypeOf[m]
        /\ SkyAfter[Event(n, m)] = IF n = "AddToView" THEN TypeOf[m] ELSE "none"
    BY EventType DEF SkyEvents, SkyBefore, SkyAfter, Names, Ids
  <2>2. SkyBefore[Event(n, m)] \in Skies /\ SkyAfter[Event(n, m)] \in Skies
    BY <2>1, ViewAssumption DEF Skies
  <2>3. SkyTrack(<<Event(n, m)>>, SkyBefore[Event(n, m)], SkyAfter[Event(n, m)])
    BY <2>1, <2>2, SingleEvent DEF SkyTrack
  <2>4. QED
    BY <2>1, <2>3
<1>2. ASSUME NEW n \in Names, NEW id \in Ids,
             id \notin Models \/ n \notin {"RemoveFromView", "AddToView"}, NEW a \in Skies
      PROVE  SkyTrack(<<Event(n, id)>>, a, a)
  <2>1. Event(n, id) \notin SkyEvents /\ Event(n, id) \in Events
    BY <1>2, EventType DEF SkyEvents
  <2>2. QED
    BY <2>1, SingleEvent DEF SkyTrack
<1>3. QED
  BY <1>1, <1>2

-----------------------------------------------------------------------------
(* The server's steps.                                                     *)

\* One event leads everything on if it does so for what it is about.
LEMMA OneEventLeads ==
  ASSUME NEW n \in Names, NEW id \in Ids, made \subseteq made',
         n = "RemoveEntity" => id \in Entities,
         \A e \in Entities : ServerSide(e) \in Sides,
         \A e \in Entities \ {id} : UNCHANGED ServerSide(e),
         \A m \in Models \ {id} : m \notin made' => m \notin made,
         \A e \in Entities : e \notin (scene \cup gone)' => e \notin scene \cup gone /\ e # id,
         id \in Entities =>
           /\ EntityTrack(<<Event(n, id)>>, id, ServerSide(id), ServerSide(id)')
           /\ n = "AddEntity" => id \notin scene \cup gone,
         id \in Models => id \in made' /\ (n = "AddEntity" <=> id \notin made),
         SkyTrack(<<Event(n, id)>>, sky, sky')
  PROVE  Leads(<<Event(n, id)>>)
<1> DEFINE ev == Event(n, id)
<1>1. ev \in Events /\ ev.id = id /\ ev.event = n
  BY EventType
<1>2. /\ <<ev>> \in Seq(Events)
      /\ \A o, jd : Heard(<<ev>>, o, jd) <=> ev = Event(o, jd)
      /\ \A jd : Silent(<<ev>>, jd) <=> ev.id # jd
      /\ \A k \in 1 .. Len(<<ev>>) : <<ev>>[k] = ev
  BY <1>1, SingleEvent
<1>3. \A jd : Heard(<<ev>>, "AddEntity", jd) <=> n = "AddEntity" /\ jd = id
  BY <1>2, EventType DEF Event
<1>4. ASSUME NEW e \in Entities
      PROVE  /\ EntityTrack(<<ev>>, e, ServerSide(e), ServerSide(e)')
             /\ Heard(<<ev>>, "AddEntity", e) => e \notin scene \cup gone
             /\ e \notin (scene \cup gone)' => e \notin scene \cup gone /\ Silent(<<ev>>, e)
  <2>1. CASE e = id
    BY <1>1, <1>2, <1>3, <2>1
  <2>2. CASE e # id
    <3>1. EntityTrack(<<ev>>, e, ServerSide(e), ServerSide(e))
      BY <2>2, EntityEvent
    <3>2. ServerSide(e)' = ServerSide(e)
      BY <2>2
    <3>3. QED
      BY <1>1, <1>2, <1>3, <2>2, <3>1, <3>2
  <2>3. QED
    BY <2>1, <2>2
<1>5. ASSUME NEW m \in Models
      PROVE  /\ m \in made => ModelTrack(<<ev>>, m, "known", "known")
             /\ Heard(<<ev>>, "AddEntity", m) =>
                  m \notin made /\ ModelTrack(<<ev>>, m, "new", "known")
             /\ m \notin made' => Silent(<<ev>>, m)
  <2>1. CASE m = id
    BY <1>2, <1>3, <2>1, ModelEvent
  <2>2. CASE m # id
    BY <1>1, <1>2, <1>3, <2>2, ModelEvent
  <2>3. QED
    BY <2>1, <2>2
<1>6. QED
  BY <1>1, <1>2, <1>4, <1>5 DEF Leads

\* The sides of entities depend on the scene, the view and what is gone alone.
LEMMA SideFacts ==
  /\ \A e : ServerSide(e) \in Sides
  /\ \A e : (e \in scene' <=> e \in scene) /\ (e \in shown' <=> e \in shown)
           /\ (e \in gone' <=> e \in gone) => ServerSide(e)' = ServerSide(e)
BY DEF ServerSide, Sides

\* Giving everything back leads every hidden entity into view, and the sky to
\* no weather.
LEMMA ReverseLeads ==
  ASSUME TypeOK, ServerSound, UNCHANGED <<scene, gone, made>>, shown' = scene, sky' = "none",
         NEW order \in [1 .. Cardinality(scene \ shown) -> scene \ shown],
         \A i, j \in DOMAIN order : order[i] = order[j] => i = j
  PROVE  Leads(Returned(order))
<1> DEFINE q == Returned(order)
<1>1. PICK first \in {0, 1} :
        /\ q \in Seq(Events)
        /\ (first = 0 <=> sky = "none") /\ first <= Len(q)
        /\ first = 1 => q[1] = Event("RemoveFromView", gfx[sky])
        /\ \A k \in first + 1 .. Len(q) :
             \E e \in scene \ shown : q[k] = Event("AddToView", e)
        /\ \A e \in scene \ shown :
             \E k \in first + 1 .. Len(q) :
               /\ q[k] = Event("AddToView", e)
               /\ \A l \in first + 1 .. Len(q) : q[l] = Event("AddToView", e) => l = k
  BY ReturnedFacts, Zenon
<1> HIDE DEF q
<1>2. /\ scene \subseteq Entities /\ made \subseteq Models /\ Entities \cap Models = {}
      /\ sky \in Skies /\ Len(q) \in Nat
      /\ first = 1 => gfx[sky] \in made /\ gfx[sky] \in Models /\ TypeOf[gfx[sky]] = sky
  BY <1>1, ViewAssumption, SkyModel DEF TypeOK, Skies
<1>3. ASSUME NEW k \in 1 .. Len(q)
      PROVE  \/ k = 1 /\ first = 1 /\ q[k] = Event("RemoveFromView", gfx[sky])
             \/ /\ k \in first + 1 .. Len(q)
                /\ \E e \in scene \ shown : q[k] = Event("AddToView", e)
  <2>1. CASE first = 0
    BY <1>1, <2>1
  <2>2. CASE first = 1 /\ k = 1
    BY <1>1, <2>2
  <2>3. CASE first = 1 /\ k # 1
    <3>1. k \in first + 1 .. Len(q)
      BY <1>2, <2>3
    <3>2. QED
      BY <1>1, <3>1
  <2>4. QED
    BY <1>1, <2>1, <2>2, <2>3
<1>4. ASSUME NEW k \in 1 .. Len(q)
      PROVE  /\ q[k].event \in {"RemoveFromView", "AddToView"}
             /\ \/ first = 1 /\ k = 1 /\ q[k].id = gfx[sky]
                \/ q[k].id \in scene \ shown
  BY <1>3, EventType
<1>5. \A n \in {"AddEntity", "UpdateEntity", "RemoveEntity"} :
        \A id : ~Heard(q, n, id)
  BY <1>4, EventType DEF Heard
<1>6. ASSUME NEW e \in Entities
      PROVE  /\ EntityTrack(q, e, ServerSide(e), ServerSide(e)')
             /\ e \notin scene => Silent(q, e)
  <2>1. CASE e \in scene \ shown
    <3>1. ServerSide(e) = "out" /\ ServerSide(e)' = "in"
      BY <2>1 DEF ServerSide, ServerSound
    <3>2. PICK k \in first + 1 .. Len(q) :
            /\ q[k] = Event("AddToView", e)
            /\ \A l \in first + 1 .. Len(q) : q[l] = Event("AddToView", e) => l = k
      BY <1>1, <2>1
    <3>3. k \in 1 .. Len(q)
      BY <1>2, <3>2
    <3>4. /\ q[k] \in EventsOf(e)
          /\ Before(e)[q[k]] = "out" /\ After(e)[q[k]] = "in"
      BY <3>2, EventType DEF EventsOf, Before, After
    <3>5. ASSUME NEW l \in 1 .. Len(q), q[l] \in EventsOf(e) PROVE l = k
      <4>1. q[l].id = e
        BY <3>5, EventType DEF EventsOf
      <4>2. q[l] # Event("RemoveFromView", gfx[sky]) \/ first # 1
        BY <1>2, <4>1, EventType
      <4>3. PICK x \in scene \ shown : l \in first + 1 .. Len(q) /\ q[l] = Event("AddToView", x)
        BY <1>3, <4>2
      <4>4. x = e
        BY <4>1, <4>3, EventType
      <4>5. QED
        BY <3>2, <4>3, <4>4
    <3>6. "out" \in Sides /\ "in" \in Sides
      BY DEF Sides
    <3>7. Track(q, EventsOf(e), Before(e), After(e), Sides, Before(e)[q[k]], After(e)[q[k]])
      BY <1>1, <3>3, <3>4, <3>5, <3>6, TrackOne
    <3>8. QED
      BY <2>1, <3>1, <3>4, <3>7 DEF EntityTrack
  <2>2. CASE e \notin scene \ shown
    <3>1. Silent(q, e)
      BY <1>2, <1>4, <2>2 DEF Silent
    <3>2. \A k \in 1 .. Len(q) : q[k] \notin EventsOf(e)
      BY <3>1, EventType DEF Silent, EventsOf
    <3>3. ServerSide(e)' = ServerSide(e) /\ ServerSide(e) \in Sides
      BY <2>2 DEF ServerSide, ServerSound, Sides
    <3>4. QED
      BY <1>1, <3>1, <3>2, <3>3, TrackNone DEF EntityTrack
  <2>3. QED
    BY <2>1, <2>2
<1>7. ASSUME NEW m \in Models
      PROVE  /\ m \in made => ModelTrack(q, m, "known", "known")
             /\ m \notin made => Silent(q, m)
  <2>1. CASE first = 1 /\ m = gfx[sky] /\ 1 \in 1 .. Len(q)
    <3>1. /\ q[1] \in EventsOf(m)
          /\ ModelBefore(m)[q[1]] = "known" /\ ModelAfter(m)[q[1]] = "known"
      BY <1>1, <2>1, EventType DEF EventsOf, ModelBefore, ModelAfter
    <3>2. ASSUME NEW k \in 1 .. Len(q), q[k] \in EventsOf(m) PROVE k = 1
      BY <1>2, <1>4, <3>2, EventType DEF EventsOf
    <3>3. Track(q, EventsOf(m), ModelBefore(m), ModelAfter(m), {"new", "known"},
                ModelBefore(m)[q[1]], ModelAfter(m)[q[1]])
      BY <1>1, <2>1, <3>1, <3>2, TrackOne
    <3>4. QED
      BY <1>2, <2>1, <3>1, <3>3 DEF ModelTrack
  <2>2. CASE ~(first = 1 /\ m = gfx[sky] /\ 1 \in 1 .. Len(q))
    <3>1. Silent(q, m)
      BY <1>2, <1>4, <2>2 DEF Silent
    <3>2. \A k \in 1 .. Len(q) : q[k] \notin EventsOf(m)
      BY <3>1, EventType DEF Silent, EventsOf
    <3>3. QED
      BY <1>1, <3>1, <3>2, TrackNone DEF ModelTrack
  <2>3. QED
    BY <2>1, <2>2
<1>8. SkyTrack(q, sky, "none")
  <2>1. \A k \in 1 .. Len(q) : q[k] \in SkyEvents => k = 1 /\ first = 1
    BY <1>2, <1>4, EventType DEF SkyEvents
  <2>2. CASE first = 0
    BY <1>1, <1>2, <2>1, <2>2, TrackNone DEF SkyTrack, Skies
  <2>3. CASE first = 1
    <3>1. 1 \in 1 .. Len(q)
      BY <1>1, <1>2, <2>3
    <3>2. /\ q[1] \in SkyEvents
          /\ SkyBefore[q[1]] = sky /\ SkyAfter[q[1]] = "none" /\ "none" \in Skies
      BY <1>1, <1>2, <2>3, EventType DEF SkyEvents, SkyBefore, SkyAfter, Skies
    <3>3. SkyBefore[q[1]] \in Skies /\ SkyAfter[q[1]] \in Skies
      BY <1>2, <3>2
    <3>4. Track(q, SkyEvents, SkyBefore, SkyAfter, Skies, SkyBefore[q[1]], SkyAfter[q[1]])
      BY <1>1, <2>1, <3>1, <3>2, <3>3, TrackOne
    <3>5. QED
      BY <3>2, <3>4 DEF SkyTrack
  <2>4. QED
    BY <1>1, <2>2, <2>3
<1>9. \A k \in 1 .. Len(q) : q[k].event # "RemoveEntity"
  BY <1>4
<1>10. Leads(q)
  BY <1>1, <1>5, <1>6, <1>7, <1>8, <1>9 DEF Leads
<1>11. QED
  BY <1>10 DEF q

LEMMA SimulateKeepsInv ==
  ASSUME Inv, Simulate
  PROVE  Inv'
<1> USE DEF Inv
<1>0. /\ scene \subseteq Entities /\ shown \subseteq Entities /\ gone \subseteq Entities
      /\ sky \in Skies /\ made \subseteq Models
      /\ gfx \in [WeatherTypes -> Models \cup {NoId}]
      /\ Entities \subseteq Ids /\ Models \subseteq Ids /\ Entities \cap Models = {}
      /\ NoId \notin Ids
      /\ \A m \in Models : TypeOf[m] \in WeatherTypes
      /\ \A n \in Names, id \in Ids : <<Event(n, id)>> \in Seq(Events)
  <2>1. \A n \in Names, id \in Ids : <<Event(n, id)>> \in Seq(Events)
    BY EventType
  <2>2. QED
    BY <2>1, ViewAssumption DEF TypeOK, Skies, Ids
<1>1. ASSUME NEW e \in Entities, CreateEntity(e) PROVE Inv'
  <2>1. /\ e \notin scene \cup gone
        /\ scene' = scene \cup {e} /\ shown' = shown \cup {e}
        /\ UNCHANGED <<gone, sky, made, gfx>>
        /\ Broadcast(<<Event("AddEntity", e)>>)
    BY <1>1 DEF CreateEntity, Server!Create
  <2>2. TypeOK'
    BY <1>0, <2>1, BroadcastType DEF Names, Skies
  <2>3. ServerSound'
    BY <2>1 DEF ServerSound
  <2>4. ServerSide(e) = "new" /\ ServerSide(e)' = "in"
    BY <2>1 DEF ServerSide
  <2>5. Leads(<<Event("AddEntity", e)>>)
    BY <1>0, <2>1, <2>4, SideFacts, EntityEvent, SkyEvent, OneEventLeads DEF Names
  <2>6. QED
    BY <2>1, <2>2, <2>3, <2>5, ServerStep
<1>2. ASSUME NEW e \in Entities, UpdateEntity(e) PROVE Inv'
  <2>1. /\ e \in scene \cup gone
        /\ UNCHANGED <<scene, shown, gone, sky, made, gfx>>
        /\ Broadcast(<<Event("UpdateEntity", e)>>)
    BY <1>2 DEF UpdateEntity, serverVars, feedVars
  <2>2. TypeOK'
    BY <1>0, <2>1, BroadcastType DEF Names, Skies
  <2>3. ServerSound'
    BY <2>1 DEF ServerSound
  <2>4. \A x : ServerSide(x)' = ServerSide(x)
    BY <2>1, SideFacts
  <2>5. Leads(<<Event("UpdateEntity", e)>>)
    BY <1>0, <2>1, <2>4, SideFacts, EntityEvent, SkyEvent, OneEventLeads DEF Names
  <2>6. QED
    BY <2>1, <2>2, <2>3, <2>5, ServerStep
<1>3. ASSUME NEW e \in Entities, Hide(e) PROVE Inv'
  <2>1. /\ e \in shown /\ shown' = shown \ {e}
        /\ UNCHANGED <<scene, gone, sky, made, gfx>>
        /\ Broadcast(<<Event("RemoveFromView", e)>>)
    BY <1>3 DEF Hide, Server!Hide
  <2>2. TypeOK'
    BY <1>0, <2>1, BroadcastType DEF Names, Skies
  <2>3. ServerSound'
    BY <2>1 DEF ServerSound
  <2>4. ServerSide(e) = "in" /\ ServerSide(e)' = "out" /\ e \in scene
    BY <2>1 DEF ServerSide, ServerSound
  <2>5. \A x \in Entities \ {e} : ServerSide(x)' = ServerSide(x)
    BY <2>1, SideFacts
  <2>6. /\ SkyTrack(<<Event("RemoveFromView", e)>>, sky, sky')
        /\ EntityTrack(<<Event("RemoveFromView", e)>>, e, ServerSide(e), ServerSide(e)')
    BY <1>0, <2>1, <2>4, EntityEvent, SkyEvent DEF Names
  <2>7. Leads(<<Event("RemoveFromView", e)>>)
    BY <1>0, <2>1, <2>4, <2>5, <2>6, SideFacts, OneEventLeads DEF Names
  <2>8. QED
    BY <2>1, <2>2, <2>3, <2>7, ServerStep
<1>4. ASSUME NEW e \in Entities, Erase(e) PROVE Inv'
  <2>1. /\ e \in shown /\ shown' = shown \ {e} /\ scene' = scene \ {e}
        /\ gone' = gone \cup {e}
        /\ UNCHANGED <<sky, made, gfx>>
        /\ Broadcast(<<Event("RemoveEntity", e)>>)
    BY <1>4 DEF Erase, Server!Erase
  <2>2. TypeOK'
    BY <1>0, <2>1, BroadcastType DEF Names, Skies
  <2>3. ServerSound'
    BY <2>1 DEF ServerSound
  <2>4. ServerSide(e) = "in" /\ ServerSide(e)' = "gone" /\ e \in scene
    BY <2>1 DEF ServerSide, ServerSound
  <2>5. Leads(<<Event("RemoveEntity", e)>>)
    BY <1>0, <2>1, <2>4, SideFacts, EntityEvent, SkyEvent, OneEventLeads DEF Names
  <2>6. QED
    BY <2>1, <2>2, <2>3, <2>5, ServerStep
<1>5. ASSUME NEW m \in Models, CreateGFX(m) PROVE Inv'
  <2>1. /\ m \notin made /\ made' = made \cup {m}
        /\ gfx' = [gfx EXCEPT ![TypeOf[m]] = m]
        /\ UNCHANGED <<scene, shown, gone, sky>>
        /\ Broadcast(<<Event("AddEntity", m)>>)
    BY <1>5 DEF CreateGFX, feedVars
  <2>2. TypeOK'
    BY <1>0, <2>1, BroadcastType DEF Names, Skies
  <2>3. ServerSound'
    BY <1>0, <2>1 DEF ServerSound, Skies
  <2>4. \A x : ServerSide(x)' = ServerSide(x)
    BY <2>1, SideFacts
  <2>5. Leads(<<Event("AddEntity", m)>>)
    BY <1>0, <2>1, <2>4, SideFacts, SkyEvent, OneEventLeads DEF Names
  <2>6. QED
    BY <2>1, <2>2, <2>3, <2>5, ServerStep
<1>6. ASSUME NEW w \in WeatherTypes, Raise(w) PROVE Inv'
  <2>1. /\ gfx[w] # NoId /\ sky = "none" /\ sky' = w
        /\ UNCHANGED <<scene, shown, gone, made, gfx>>
        /\ Broadcast(<<Event("AddToView", gfx[w])>>)
    BY <1>6 DEF Raise, Server!Raise
  <2>2. gfx[w] \in Models /\ gfx[w] \in made /\ TypeOf[gfx[w]] = w
    BY <1>0, <2>1 DEF ServerSound
  <2>3. TypeOK'
    BY <1>0, <2>1, <2>2, BroadcastType DEF Names
  <2>4. ServerSound'
    BY <2>1 DEF ServerSound
  <2>5. \A x : ServerSide(x)' = ServerSide(x)
    BY <2>1, SideFacts
  <2>6. SkyTrack(<<Event("AddToView", gfx[w])>>, sky, sky')
    BY <2>1, <2>2, SkyEvent
  <2>7. Leads(<<Event("AddToView", gfx[w])>>)
    BY <1>0, <2>1, <2>2, <2>5, <2>6, SideFacts, OneEventLeads DEF Names
  <2>8. QED
    BY <2>1, <2>3, <2>4, <2>7, ServerStep
<1>7. ASSUME NEW w \in Moving, UpdateModel(w) PROVE Inv'
  <2>1. /\ gfx[w] # NoId
        /\ UNCHANGED <<scene, shown, gone, sky, made, gfx>>
        /\ Broadcast(<<Event("UpdateEntity", gfx[w])>>)
    BY <1>7 DEF UpdateModel, serverVars, feedVars
  <2>2. gfx[w] \in Models /\ gfx[w] \in made
    BY <1>0, <2>1, ViewAssumption DEF ServerSound
  <2>3. TypeOK'
    BY <1>0, <2>1, <2>2, BroadcastType DEF Names, Skies
  <2>4. ServerSound'
    BY <2>1 DEF ServerSound
  <2>5. \A x : ServerSide(x)' = ServerSide(x)
    BY <2>1, SideFacts
  <2>6. SkyTrack(<<Event("UpdateEntity", gfx[w])>>, sky, sky')
    BY <1>0, <2>1, <2>2, SkyEvent DEF Names
  <2>7. Leads(<<Event("UpdateEntity", gfx[w])>>)
    BY <1>0, <2>1, <2>2, <2>5, <2>6, SideFacts, OneEventLeads DEF Names
  <2>8. QED
    BY <2>1, <2>3, <2>4, <2>7, ServerStep
<1>8. ASSUME ReverseWeather PROVE Inv'
  <2>1. /\ sky' = "none" /\ shown' = scene
        /\ UNCHANGED <<scene, gone, made, gfx>>
    BY <1>8 DEF ReverseWeather, Server!GiveBack
  <2>2. PICK order \in [1 .. Cardinality(scene \ shown) -> scene \ shown] :
          /\ \A i, j \in DOMAIN order : order[i] = order[j] => i = j
          /\ Broadcast(Returned(order))
    BY <1>8 DEF ReverseWeather, Returned
  <2>3. Leads(Returned(order))
    BY <2>1, <2>2, ReverseLeads
  <2>4. TypeOK'
    BY <1>0, <2>1, <2>2, <2>3, BroadcastType DEF Leads, Skies
  <2>5. ServerSound'
    BY <2>1 DEF ServerSound
  <2>6. QED
    BY <2>2, <2>3, <2>4, <2>5, ServerStep
<1>9. QED
  BY <1>1, <1>2, <1>3, <1>4, <1>5, <1>6, <1>7, <1>8 DEF Simulate

-----------------------------------------------------------------------------
(* The page's steps.                                                       *)

\* The server's variables, and what it keeps sound, are not the page's.
ServerLeft == UNCHANGED <<scene, shown, gone, sky, made, gfx, told>>

LEMMA Left ==
  ASSUME Inv, ServerLeft
  PROVE  ServerSound' /\ \A e : ServerSide(e)' = ServerSide(e)
BY DEF Inv, ServerLeft, ServerSound, ServerSide

\* What handling an event takes from the queue.
LEMMA Received ==
  ASSUME Inv, NEW n \in Names, NEW id \in Ids, Receive(n, id)
  PROVE  /\ ServerLeft /\ UNCHANGED <<present, showWeather, hasty>>
         /\ inbox \in Seq(Events) /\ inbox # <<>> /\ Head(inbox) = Event(n, id)
         /\ inbox' = Tail(inbox) /\ inbox' \in Seq(Events)
         /\ QueueSound'
         /\ n = "RemoveEntity" => id \in Entities
         /\ \A x : Unheard(x) => Unheard(x)' /\ id # x
<1> DEFINE ev == Event(n, id)
<1>1. /\ ServerLeft /\ UNCHANGED <<present, showWeather, hasty>>
      /\ inbox # <<>> /\ Head(inbox) = ev /\ inbox' = Tail(inbox)
  BY DEF Receive, ServerLeft, serverVars, feedVars
<1>2. inbox \in Seq(Events)
  BY DEF Inv, TypeOK, Events, Names
<1>3. /\ Tail(inbox) \in Seq(Events) /\ Head(inbox) = inbox[1] /\ 1 \in 1 .. Len(inbox)
      /\ \A k \in 1 .. Len(Tail(inbox)) : Tail(inbox)[k] = inbox[k + 1] /\ k + 1 \in 1 .. Len(inbox)
  BY <1>1, <1>2
<1>4. ev.event = n /\ ev.id = id
  BY EventType
<1>5. /\ QueueSound'
      /\ n = "RemoveEntity" => id \in Entities
      /\ \A x : Unheard(x) => Unheard(x)' /\ id # x
  BY <1>1, <1>3, <1>4 DEF Inv, QueueSound, Unheard, ServerLeft
<1>6. QED
  BY <1>1, <1>2, <1>3, <1>5

\* The queue without its first event leads on from where that event leads.
LEMMA Onward ==
  ASSUME Inv, NEW n \in Names, NEW id \in Ids, Receive(n, id),
         NEW E, NEW B, NEW A, NEW R, NEW a, NEW b, Track(inbox, E, B, A, R, a, b)
  PROVE  /\ Event(n, id) \in E =>
              a = B[Event(n, id)] /\ Track(inbox', E, B, A, R, A[Event(n, id)], b)
         /\ Event(n, id) \notin E => Track(inbox', E, B, A, R, a, b)
<1>1. inbox \in Seq(Events) /\ inbox # <<>> /\ Head(inbox) = Event(n, id) /\ inbox' = Tail(inbox)
  BY Received
<1>2. QED
  BY <1>1, TrackTail

\* A handler that leaves an entity alone keeps it tracked, and so does one
\* that takes it to where the event leads.
SameEntity(e) ==
  /\ e \in options' <=> e \in options
  /\ e \in viewContainer' <=> e \in viewContainer
  /\ e \in loading' <=> e \in loading
  /\ e \in visible' <=> e \in visible
  /\ entities'[e] = entities[e]

LEMMA EntityHandled ==
  ASSUME Inv, NEW n \in Names, NEW id \in Ids, Receive(n, id), NEW e \in Entities,
         overtaken \subseteq overtaken', overtaken' \subseteq overtaken \cup {id},
         e # id \/ n = "UpdateEntity" => SameEntity(e),
         e = id /\ n # "UpdateEntity" /\ e \notin overtaken' =>
           (PageSide(e, Before(e)[Event(n, e)]) => PageSide(e, After(e)[Event(n, e)])')
  PROVE  EntitySound(e)'
<1> DEFINE ev == Event(n, id)
<1>1. ServerLeft /\ \A x : Unheard(x) => Unheard(x)' /\ id # x
  BY Received
<1>2. \A a : SameEntity(e) => (PageSide(e, a)' <=> PageSide(e, a))
  BY DEF SameEntity, PageSide
<1>3. ev \in EventsOf(e) <=> e = id /\ n # "UpdateEntity"
  BY EventType DEF EventsOf, Names
<1>4. EntitySound(e)
  BY DEF Inv
<1>5. ServerSide(e)' = ServerSide(e) /\ ServerSide(e) \in Sides
  BY <1>1, Left, SideFacts
<1>6. ASSUME e \notin (scene \cup gone)'
      PROVE  (e \notin told \cup overtaken /\ Unheard(e) /\ PageSide(e, "new"))'
  BY <1>1, <1>2, <1>4, <1>6 DEF EntitySound, ServerLeft
<1>7. ASSUME e \in told', e \notin overtaken'
      PROVE  \E a \in Sides : PageSide(e, a)' /\ EntityTrack(inbox', e, a, ServerSide(e)')
  <2>1. PICK a \in Sides : PageSide(e, a) /\ EntityTrack(inbox, e, a, ServerSide(e))
    BY <1>1, <1>4, <1>7 DEF EntitySound, ServerLeft
  <2>2. CASE ev \in EventsOf(e)
    <3>1. a = Before(e)[ev] /\ EntityTrack(inbox', e, After(e)[ev], ServerSide(e))
      BY <2>1, <2>2, Onward DEF EntityTrack
    <3>2. PageSide(e, After(e)[ev])'
      BY <1>3, <1>7, <2>1, <2>2, <3>1
    <3>3. After(e)[ev] \in Sides
      BY <2>2 DEF After, Sides
    <3>4. QED
      BY <1>5, <3>1, <3>2, <3>3
  <2>3. CASE ev \notin EventsOf(e)
    <3>1. EntityTrack(inbox', e, a, ServerSide(e))
      BY <2>1, <2>3, Onward DEF EntityTrack
    <3>2. PageSide(e, a)'
      BY <1>2, <1>3, <2>1, <2>3
    <3>3. QED
      BY <1>5, <3>1, <3>2
  <2>4. QED
    BY <2>2, <2>3
<1>8. QED
  BY <1>6, <1>7 DEF EntitySound, EntityTrack

\* The same of a model: it stays known,
LEMMA ModelHandled ==
  ASSUME Inv, NEW n \in Names, NEW id \in Ids, Receive(n, id), NEW m \in Models,
         overtaken \subseteq overtaken', overtaken' \subseteq overtaken \cup {id},
         m \in loading \/ entities[m] = "mesh" => m \in loading' \/ entities'[m] = "mesh",
         n = "AddEntity" /\ m = id => m \in loading',
         entities'[m] = entities[m] \/ entities'[m] # "undefined"
  PROVE  ModelSound(m)'
<1> DEFINE ev == Event(n, id)
<1>1. ServerLeft /\ \A x : Unheard(x) => Unheard(x)' /\ id # x
  BY Received
<1>2. ModelSound(m)
  BY DEF Inv
<1>3. ASSUME m \in told', m \notin overtaken'
      PROVE  \E a \in {"new", "known"} :
               /\ ModelTrack(inbox', m, a, "known")
               /\ a = "known" => m \in loading' \/ entities'[m] = "mesh"
  <2>1. PICK a \in {"new", "known"} :
          /\ ModelTrack(inbox, m, a, "known")
          /\ a = "known" => m \in loading \/ entities[m] = "mesh"
    BY <1>1, <1>2, <1>3 DEF ModelSound, ServerLeft
  <2>2. CASE ev \notin EventsOf(m)
    BY <2>1, <2>2, Onward DEF ModelTrack
  <2>3. CASE ev \in EventsOf(m) /\ n = "AddEntity"
    <3>1. m = id
      BY <2>3, EventType DEF EventsOf
    <3>2. ModelTrack(inbox', m, "known", "known")
      BY <2>1, <2>3, Onward DEF ModelTrack, ModelAfter
    <3>3. QED
      BY <2>3, <3>1, <3>2
  <2>4. CASE ev \in EventsOf(m) /\ n # "AddEntity"
    <3>1. a = ModelBefore(m)[ev] /\ ModelTrack(inbox', m, "known", "known")
      BY <2>1, <2>4, Onward DEF ModelTrack, ModelAfter
    <3>2. ModelBefore(m)[ev] = "known"
      BY <2>4, EventType DEF ModelBefore
    <3>3. QED
      BY <2>1, <3>1, <3>2
  <2>5. QED
    BY <2>2, <2>3, <2>4
<1>4. QED
  BY <1>1, <1>2, <1>3 DEF ModelSound, ModelTrack, ServerLeft

\* and of the sky.
LEMMA SkyHandled ==
  ASSUME Inv, NEW n \in Names, NEW id \in Ids, Receive(n, id),
         overtaken \subseteq overtaken',
         n \notin {"RemoveFromView", "AddToView"} \/ id \notin Models =>
           \A a \in Skies : PageSky(a) => PageSky(a)',
         n = "AddToView" /\ id \in Models /\ id \notin overtaken' => PageSky(TypeOf[id])'
  PROVE  SkySound'
<1> DEFINE ev == Event(n, id)
<1>1. ServerLeft
  BY Received
<1>2. SUFFICES ASSUME made' \subseteq told', Models \cap overtaken' = {}
               PROVE  \E a \in Skies : PageSky(a)' /\ SkyTrack(inbox', a, sky')
  BY DEF SkySound, SkyTrack
<1>3. sky \in Skies /\ sky' = sky
  BY <1>1 DEF Inv, TypeOK, Skies, ServerLeft
<1>4. PICK a \in Skies : PageSky(a) /\ SkyTrack(inbox, a, sky)
  BY <1>1, <1>2 DEF Inv, SkySound, ServerLeft
<1>5. ev \in SkyEvents <=> n \in {"RemoveFromView", "AddToView"} /\ id \in Models
  BY EventType DEF SkyEvents
<1>6. CASE ev \notin SkyEvents
  <2>1. SkyTrack(inbox', a, sky)
    BY <1>4, <1>6, Onward DEF SkyTrack
  <2>2. QED
    BY <1>3, <1>4, <1>5, <1>6, <2>1
<1>7. CASE ev \in SkyEvents
  <2>1. SkyTrack(inbox', SkyAfter[ev], sky)
    BY <1>4, <1>7, Onward DEF SkyTrack
  <2>2. SkyAfter[ev] = IF n = "AddToView" THEN TypeOf[id] ELSE "none"
    BY <1>7, EventType DEF SkyAfter
  <2>3. SkyAfter[ev] \in Skies
    BY <1>5, <1>7, <2>2, ViewAssumption DEF Skies
  <2>4. PageSky(SkyAfter[ev])'
    BY <1>2, <1>5, <1>7, <2>2 DEF PageSky
  <2>5. QED
    BY <1>3, <2>1, <2>3, <2>4
<1>8. QED
  BY <1>6, <1>7

\* What a handler has to keep, given that the queue has moved on.
LEMMA HandlerStep ==
  ASSUME Inv, NEW n \in Names, NEW id \in Ids, Receive(n, id),
         loading' \subseteq Ids, entities' \in [Ids -> {"absent", "undefined", "mesh"}],
         viewContainer' \subseteq Entities, visible' \subseteq Ids, options' \subseteq Ids,
         currentView' \in Ids \cup {NoId}, currentWeather' \in Models \cup {NoId},
         overtaken' \subseteq Ids,
         \A e \in Entities : EntitySound(e)', \A m \in Models : ModelSound(m)', SkySound',
         CameraHasTarget'
  PROVE  Inv'
<1>1. /\ ServerLeft /\ UNCHANGED <<present, showWeather, hasty>>
      /\ inbox' \in Seq(Events) /\ QueueSound'
  BY Received
<1>2. ServerSound'
  BY <1>1, Left
<1>3. TypeOK'
  BY <1>1 DEF Inv, TypeOK, ServerLeft, Events, Names
<1>4. QED
  BY <1>1, <1>2, <1>3 DEF Inv

\* Types of what the page's steps refer to.
LEMMA PageTypes ==
  ASSUME Inv
  PROVE  /\ loading \subseteq Ids /\ entities \in [Ids -> {"absent", "undefined", "mesh"}]
         /\ viewContainer \subseteq Entities /\ visible \subseteq Ids /\ options \subseteq Ids
         /\ currentView \in Ids \cup {NoId} /\ currentWeather \in Models \cup {NoId}
         /\ showWeather \in BOOLEAN /\ overtaken \subseteq Ids
         /\ Entities \subseteq Ids /\ Models \subseteq Ids /\ Entities \cap Models = {}
         /\ NoId \notin Ids /\ Ids = Entities \cup Models
         /\ currentView \in options \cup {NoId}
         /\ ~hasty /\ currentView \notin overtaken => Follows(currentView)
BY ViewAssumption DEF Inv, TypeOK, CameraHasTarget, Ids

LEMMA AddEntityKeepsInv ==
  ASSUME Inv, NEW id \in Ids, HandleAddEntity(id)
  PROVE  Inv'
<1>1. /\ Receive("AddEntity", id) /\ "AddEntity" \in Names
      /\ options' = options \cup {id} /\ loading' = loading \cup {id}
      /\ UNCHANGED <<entities, viewContainer, visible, currentView, currentWeather, overtaken>>
  BY DEF HandleAddEntity, Names
<1>2. /\ UNCHANGED <<showWeather, hasty>>
      /\ Event("AddEntity", id) \in EventsOf(id)
      /\ Before(id)[Event("AddEntity", id)] = "new" /\ After(id)[Event("AddEntity", id)] = "in"
  BY <1>1, Received, EventType DEF EventsOf, Before, After
<1>3. ASSUME NEW e \in Entities PROVE EntitySound(e)'
  <2>1. e # id => SameEntity(e)
    BY <1>1 DEF SameEntity
  <2>2. e = id => (PageSide(e, "new") => PageSide(e, "in")')
    BY <1>1 DEF PageSide
  <2>3. QED
    BY <1>1, <1>2, <2>1, <2>2, EntityHandled
<1>4. ASSUME NEW m \in Models PROVE ModelSound(m)'
  BY <1>1, <1>4, ModelHandled
<1>5. SkySound'
  <2>1. \A a \in Skies : PageSky(a) => PageSky(a)'
    BY <1>1, <1>2 DEF PageSky
  <2>2. QED
    BY <1>1, <2>1, SkyHandled
<1>6. CameraHasTarget'
  BY <1>1, <1>2, PageTypes DEF CameraHasTarget, Follows
<1>7. QED
  BY <1>1, <1>3, <1>4, <1>5, <1>6, PageTypes, HandlerStep

LEMMA UpdateEntityKeepsInv ==
  ASSUME Inv, NEW id \in Ids, HandleUpdateEntity(id)
  PROVE  Inv'
<1>1. /\ Receive("UpdateEntity", id) /\ "UpdateEntity" \in Names
      /\ UNCHANGED <<options, currentView, currentWeather, loading, entities, viewContainer,
                     visible, overtaken>>
  BY DEF HandleUpdateEntity, Names, menuVars, bodyVars
<1>2. UNCHANGED <<showWeather, hasty>>
  BY <1>1, Received
<1>3. ASSUME NEW e \in Entities PROVE EntitySound(e)'
  <2>1. SameEntity(e)
    BY <1>1 DEF SameEntity
  <2>2. QED
    BY <1>1, <2>1, EntityHandled
<1>4. ASSUME NEW m \in Models PROVE ModelSound(m)'
  BY <1>1, <1>4, ModelHandled
<1>5. SkySound'
  <2>1. \A a \in Skies : PageSky(a) => PageSky(a)'
    BY <1>1, <1>2 DEF PageSky
  <2>2. QED
    BY <1>1, <2>1, SkyHandled
<1>6. CameraHasTarget'
  BY <1>1, <1>2, PageTypes DEF CameraHasTarget, Follows
<1>7. QED
  BY <1>1, <1>3, <1>4, <1>5, <1>6, PageTypes, HandlerStep

LEMMA RemoveEntityKeepsInv ==
  ASSUME Inv, NEW id \in Ids, HandleRemoveEntity(id)
  PROVE  Inv'
<1>1. /\ Receive("RemoveEntity", id) /\ "RemoveEntity" \in Names
      /\ visible' = IF entities[id] = "mesh" THEN visible \ {id} ELSE visible
      /\ options' = options \ {id}
      /\ currentView' = IF currentView = id THEN NoId ELSE currentView
      /\ entities' = [entities EXCEPT ![id] = "absent"]
      /\ overtaken' = IF entities[id] = "mesh" THEN overtaken ELSE overtaken \cup {id}
      /\ UNCHANGED <<loading, viewContainer, currentWeather>>
  BY DEF HandleRemoveEntity, LeaveMenu, Names
<1>2. /\ UNCHANGED <<showWeather, hasty>>
      /\ Event("RemoveEntity", id) \in EventsOf(id)
      /\ Before(id)[Event("RemoveEntity", id)] = "in"
      /\ After(id)[Event("RemoveEntity", id)] = "gone"
      /\ id \in Entities
  BY <1>1, Received, EventType DEF EventsOf, Before, After
<1>3. ASSUME NEW e \in Entities PROVE EntitySound(e)'
  <2>1. e # id => SameEntity(e)
    BY <1>1, PageTypes DEF SameEntity
  <2>2. e = id /\ e \notin overtaken' => (PageSide(e, "in") => PageSide(e, "gone")')
    BY <1>1, PageTypes DEF PageSide
  <2>3. QED
    BY <1>1, <1>2, <2>1, <2>2, EntityHandled
<1>4. ASSUME NEW m \in Models PROVE ModelSound(m)'
  BY <1>1, <1>2, <1>4, ModelHandled, PageTypes
<1>5. SkySound'
  <2>1. \A a \in Skies : PageSky(a) => PageSky(a)'
    BY <1>1, <1>2, PageTypes DEF PageSky
  <2>2. QED
    BY <1>1, <2>1, SkyHandled
<1>6. CameraHasTarget'
  BY <1>1, <1>2, PageTypes DEF CameraHasTarget, Follows
<1>7. QED
  BY <1>1, <1>2, <1>3, <1>4, <1>5, <1>6, PageTypes, HandlerStep

\* An exception spoils at most what the event is about.
LEMMA AbandonKeepsInv ==
  ASSUME Inv, NEW n \in {"RemoveFromView", "AddToView"}, NEW id \in Ids,
         Receive(n, id), Abandon(n, id)
  PROVE  Inv'
<1>1. /\ n \in Names /\ n # "UpdateEntity" /\ n # "AddEntity"
      /\ overtaken' = overtaken \cup {id}
      /\ entities' = IF n = "AddToView" /\ id \in Entities
                     THEN [entities EXCEPT ![id] = "undefined"] ELSE entities
      /\ UNCHANGED <<options, currentView, loading, viewContainer, visible, currentWeather>>
  BY DEF Abandon, Names, menuVars
<1>2. UNCHANGED <<showWeather, hasty>>
  BY <1>1, Received
<1>3. ASSUME NEW e \in Entities PROVE EntitySound(e)'
  <2>1. e # id => SameEntity(e)
    BY <1>1, PageTypes DEF SameEntity
  <2>2. QED
    BY <1>1, <2>1, EntityHandled
<1>4. ASSUME NEW m \in Models PROVE ModelSound(m)'
  BY <1>1, <1>4, ModelHandled, PageTypes
<1>5. SkySound'
  <2>1. \A a \in Skies : PageSky(a) => PageSky(a)'
    BY <1>1, <1>2 DEF PageSky
  <2>2. QED
    BY <1>1, <2>1, SkyHandled
<1>6. CameraHasTarget'
  BY <1>1, <1>2, PageTypes DEF CameraHasTarget, Follows
<1>7. QED
  BY <1>1, <1>3, <1>4, <1>5, <1>6, PageTypes, HandlerStep

\* Without one, it takes the entity aside or back, and the sky to what the
\* model stands for.
LEMMA HideKeepsInv ==
  ASSUME Inv, NEW id \in Ids, Receive("RemoveFromView", id),
         ~Throws(Event("RemoveFromView", id)), UNCHANGED overtaken,
         (id \in Models /\ HideWeather(id)) \/ (id \in Entities /\ HideEntity(id))
  PROVE  Inv'
<1>1. /\ "RemoveFromView" \in Names /\ UNCHANGED <<showWeather, hasty>>
      /\ Event("RemoveFromView", id) \in EventsOf(id)
      /\ Before(id)[Event("RemoveFromView", id)] = "in"
      /\ After(id)[Event("RemoveFromView", id)] = "out"
  BY Received, EventType DEF Names, EventsOf, Before, After
<1>2. /\ options' = options \ {id}
      /\ currentView' = IF currentView = id THEN NoId ELSE currentView
      /\ UNCHANGED <<loading, currentWeather>>
  BY DEF HideWeather, HideEntity, LeaveMenu
<1>3. CASE id \in Models
  <2>1. /\ visible' = visible \ {currentWeather} /\ UNCHANGED <<entities, viewContainer>>
        /\ id \notin Entities
    BY <1>3, PageTypes DEF HideWeather
  <2>2. ASSUME NEW e \in Entities PROVE EntitySound(e)'
    <3>1. SameEntity(e)
      BY <1>2, <2>1, PageTypes DEF SameEntity
    <3>2. QED
      BY <1>1, <2>1, <3>1, EntityHandled
  <2>3. ASSUME NEW m \in Models PROVE ModelSound(m)'
    BY <1>1, <1>2, <2>1, ModelHandled
  <2>4. SkySound'
    BY <1>1, <1>3, SkyHandled
  <2>5. CameraHasTarget'
    BY <1>1, <1>2, <2>1, PageTypes DEF CameraHasTarget, Follows
  <2>6. QED
    BY <1>1, <1>2, <2>1, <2>2, <2>3, <2>4, <2>5, PageTypes, HandlerStep
<1>4. CASE id \in Entities
  <2>1. /\ visible' = visible \ {id} /\ viewContainer' = viewContainer \cup {id}
        /\ entities' = [entities EXCEPT ![id] = "absent"] /\ id \notin Models
    BY <1>4, PageTypes DEF HideEntity
  <2>2. entities[id] = "mesh"
    BY <2>1, EventType DEF Throws
  <2>3. ASSUME NEW e \in Entities PROVE EntitySound(e)'
    <3>1. e # id => SameEntity(e)
      BY <1>2, <2>1, PageTypes DEF SameEntity
    <3>2. e = id => (PageSide(e, "in") => PageSide(e, "out")')
      BY <1>2, <2>1, <2>2, PageTypes DEF PageSide
    <3>3. QED
      BY <1>1, <3>1, <3>2, EntityHandled
  <2>4. ASSUME NEW m \in Models PROVE ModelSound(m)'
    BY <1>1, <1>2, <2>1, PageTypes, ModelHandled
  <2>5. SkySound'
    <3>1. \A a \in Skies : PageSky(a) => PageSky(a)'
      BY <1>1, <1>2, <2>1 DEF PageSky
    <3>2. QED
      BY <1>1, <2>1, <3>1, SkyHandled
  <2>6. CameraHasTarget'
    BY <1>1, <1>2, <2>1, PageTypes DEF CameraHasTarget, Follows
  <2>7. QED
    BY <1>1, <1>2, <2>1, <2>3, <2>4, <2>5, <2>6, PageTypes, HandlerStep
<1>5. QED
  BY <1>3, <1>4, PageTypes

LEMMA ShowKeepsInv ==
  ASSUME Inv, NEW id \in Ids, Receive("AddToView", id),
         ~Throws(Event("AddToView", id)), UNCHANGED overtaken,
         (id \in Models /\ ShowWeatherModel(id)) \/ (id \in Entities /\ ShowEntity(id))
  PROVE  Inv'
<1>1. /\ "AddToView" \in Names /\ UNCHANGED <<showWeather, hasty>>
      /\ Event("AddToView", id) \in EventsOf(id)
      /\ Before(id)[Event("AddToView", id)] = "out"
      /\ After(id)[Event("AddToView", id)] = "in"
  BY Received, EventType DEF Names, EventsOf, Before, After
<1>2. options' = options \cup {id} /\ UNCHANGED <<loading, currentView>>
  BY DEF ShowWeatherModel, ShowEntity
<1>3. CASE id \in Models
  <2>1. /\ visible' = IF showWeather THEN visible \cup {id} ELSE visible \ {id}
        /\ currentWeather' = id /\ UNCHANGED <<entities, viewContainer>>
        /\ id \notin Entities
    BY <1>3, PageTypes DEF ShowWeatherModel
  <2>2. ASSUME NEW e \in Entities PROVE EntitySound(e)'
    <3>1. SameEntity(e)
      BY <1>2, <2>1, PageTypes DEF SameEntity
    <3>2. QED
      BY <1>1, <2>1, <3>1, EntityHandled
  <2>3. ASSUME NEW m \in Models PROVE ModelSound(m)'
    BY <1>1, <1>2, <2>1, ModelHandled
  <2>4. SkySound'
    <3>1. PageSky(TypeOf[id])'
      BY <1>1, <1>3, <2>1, PageTypes DEF PageSky
    <3>2. QED
      BY <1>1, <1>3, <3>1, SkyHandled
  <2>5. CameraHasTarget'
    BY <1>1, <1>2, <2>1, PageTypes DEF CameraHasTarget, Follows
  <2>6. QED
    BY <1>1, <1>2, <1>3, <2>1, <2>2, <2>3, <2>4, <2>5, PageTypes, HandlerStep
<1>4. CASE id \in Entities
  <2>1. /\ visible' = visible \cup {id} /\ viewContainer' = viewContainer \ {id}
        /\ entities' = [entities EXCEPT ![id] = "mesh"] /\ id \notin Models
        /\ UNCHANGED currentWeather
    BY <1>4, PageTypes DEF ShowEntity
  <2>2. ASSUME NEW e \in Entities PROVE EntitySound(e)'
    <3>1. e # id => SameEntity(e)
      BY <1>2, <2>1, PageTypes DEF SameEntity
    <3>2. e = id => (PageSide(e, "out") => PageSide(e, "in")')
      BY <1>2, <2>1, PageTypes DEF PageSide
    <3>3. QED
      BY <1>1, <3>1, <3>2, EntityHandled
  <2>3. ASSUME NEW m \in Models PROVE ModelSound(m)'
    BY <1>1, <1>2, <2>1, PageTypes, ModelHandled
  <2>4. SkySound'
    <3>1. \A a \in Skies : PageSky(a) => PageSky(a)'
      BY <1>1, <1>2, <2>1 DEF PageSky
    <3>2. QED
      BY <1>1, <2>1, <3>1, SkyHandled
  <2>5. CameraHasTarget'
    BY <1>1, <1>2, <2>1, PageTypes DEF CameraHasTarget, Follows
  <2>6. QED
    BY <1>1, <1>2, <2>1, <2>2, <2>3, <2>4, <2>5, PageTypes, HandlerStep
<1>5. QED
  BY <1>3, <1>4, PageTypes

LEMMA HandleKeepsInv ==
  ASSUME Inv, Handle
  PROVE  Inv'
<1>1. PICK id \in Ids :
        \/ HandleAddEntity(id) \/ HandleUpdateEntity(id) \/ HandleRemoveEntity(id)
        \/ \E name \in {"RemoveFromView", "AddToView"} : HandleUpdateEntityView(name, id)
  BY DEF Handle
<1>2. ASSUME NEW name \in {"RemoveFromView", "AddToView"}, HandleUpdateEntityView(name, id)
      PROVE  Inv'
  <2>1. CASE Abandon(name, id)
    BY <1>2, <2>1, AbandonKeepsInv DEF HandleUpdateEntityView
  <2>2. CASE ~Abandon(name, id)
    <3>1. /\ Receive(name, id) /\ ~Throws(Event(name, id)) /\ UNCHANGED overtaken
          /\ \/ name = "RemoveFromView" /\ id \in Models /\ HideWeather(id)
             \/ name = "RemoveFromView" /\ id \in Entities /\ HideEntity(id)
             \/ name = "AddToView" /\ id \in Models /\ ShowWeatherModel(id)
             \/ name = "AddToView" /\ id \in Entities /\ ShowEntity(id)
      BY <1>2, <2>2 DEF HandleUpdateEntityView
    <3>2. CASE name = "RemoveFromView"
      <4>1. (id \in Models /\ HideWeather(id)) \/ (id \in Entities /\ HideEntity(id))
        BY <3>1, <3>2
      <4>2. Receive("RemoveFromView", id) /\ ~Throws(Event("RemoveFromView", id))
        BY <3>1, <3>2
      <4>3. QED
        BY <3>1, <4>1, <4>2, HideKeepsInv
    <3>3. CASE name = "AddToView"
      <4>1. (id \in Models /\ ShowWeatherModel(id)) \/ (id \in Entities /\ ShowEntity(id))
        BY <3>1, <3>3
      <4>2. Receive("AddToView", id) /\ ~Throws(Event("AddToView", id))
        BY <3>1, <3>3
      <4>3. QED
        BY <3>1, <4>1, <4>2, ShowKeepsInv
    <3>4. QED
      BY <3>2, <3>3
  <2>3. QED
    BY <2>1, <2>2
<1>3. QED
  BY <1>1, <1>2, AddEntityKeepsInv, UpdateEntityKeepsInv, RemoveEntityKeepsInv

\* A step that leaves the queue, and what is tracked of every entity and
\* model, where it is.
LEMMA QuietStep ==
  ASSUME Inv, ServerLeft, UNCHANGED <<inbox, overtaken>>, present => present',
         TypeOK', CameraHasTarget',
         \A e \in Entities, a \in Sides : PageSide(e, a) => PageSide(e, a)',
         \A m \in Models : m \in loading \/ entities[m] = "mesh" =>
                             m \in loading' \/ entities'[m] = "mesh",
         \A m \in Models : entities'[m] = entities[m] \/ entities'[m] # "undefined",
         \A a \in Skies : PageSky(a) => PageSky(a)'
  PROVE  Inv'
<1>1. ServerSound' /\ \A e : ServerSide(e)' = ServerSide(e)
  BY Left
<1>2. QueueSound'
  BY DEF Inv, QueueSound, ServerLeft
<1>3. ASSUME NEW e \in Entities PROVE EntitySound(e)'
  <2>1. EntitySound(e) /\ "new" \in Sides
    BY DEF Inv, Sides
  <2>2. QED
    BY <1>1, <2>1 DEF EntitySound, ServerLeft, Unheard, EntityTrack
<1>4. ASSUME NEW m \in Models PROVE ModelSound(m)'
  <2>1. ModelSound(m)
    BY DEF Inv
  <2>2. QED
    BY <2>1 DEF ModelSound, ServerLeft, Unheard, ModelTrack
<1>5. SkySound'
  BY DEF Inv, SkySound, ServerLeft, SkyTrack
<1>6. QED
  BY <1>1, <1>2, <1>3, <1>4, <1>5 DEF Inv

LEMMA LoadKeepsInv ==
  ASSUME Inv, NEW id \in Ids, OnLoad(id)
  PROVE  Inv'
<1>1. /\ ServerLeft /\ id \in loading /\ loading' = loading \ {id}
      /\ entities' = [entities EXCEPT ![id] = "mesh"]
      /\ UNCHANGED <<present, inbox, viewContainer, currentWeather, showWeather, overtaken, hasty>>
  BY DEF OnLoad, ServerLeft, serverVars, feedVars, skyVars, historyVars
<1>2. \/ /\ id \in Models
         /\ visible' = IF showWeather THEN visible \cup {id} ELSE visible
         /\ options' = options \ {id}
         /\ currentView' = IF currentView = id THEN NoId ELSE currentView
      \/ /\ id \in Entities
         /\ visible' = visible \cup {id}
         /\ UNCHANGED <<options, currentView>>
  BY DEF OnLoad, LeaveMenu, menuVars
<1>3. TypeOK'
  BY <1>1, <1>2, PageTypes DEF Inv, TypeOK, ServerLeft
<1>4. CameraHasTarget'
  BY <1>1, <1>2, PageTypes DEF CameraHasTarget, Follows
<1>5. ASSUME NEW e \in Entities, NEW a \in Sides, PageSide(e, a) PROVE PageSide(e, a)'
  BY <1>1, <1>2, <1>5, PageTypes DEF PageSide
<1>6. ASSUME NEW m \in Models, m \in loading \/ entities[m] = "mesh"
      PROVE  m \in loading' \/ entities'[m] = "mesh"
  BY <1>1, <1>6, PageTypes
<1>7. ASSUME NEW a \in Skies, PageSky(a) PROVE PageSky(a)'
  BY <1>1, <1>2, <1>7, PageTypes DEF PageSky
<1>8. QED
  BY <1>1, <1>3, <1>4, <1>5, <1>6, <1>7, QuietStep

LEMMA JoinKeepsInv ==
  ASSUME Inv, Join
  PROVE  Inv'
<1>1. /\ ServerLeft /\ present' = TRUE
      /\ UNCHANGED <<inbox, options, currentView, currentWeather, showWeather, loading, entities,
                     viewContainer, visible, overtaken, hasty>>
  BY DEF Join, ServerLeft, serverVars, feedVars, menuVars, skyVars, bodyVars, historyVars
<1>2. TypeOK' /\ CameraHasTarget'
  BY <1>1 DEF Inv, TypeOK, ServerLeft, CameraHasTarget, Follows
<1>3. QED
  BY <1>1, <1>2, QuietStep DEF PageSide, PageSky

LEMMA UserKeepsInv ==
  ASSUME Inv, (\E v \in options \cup {NoId} : ChangeView(v)) \/ ToggleWeather
  PROVE  Inv'
<1>1. CASE \E v \in options \cup {NoId} : ChangeView(v)
  <2>1. PICK v \in options \cup {NoId} : ChangeView(v)
    BY <1>1
  <2>2. /\ ServerLeft /\ currentView' = v /\ hasty' = (hasty \/ ~Follows(v))
        /\ UNCHANGED <<present, inbox, options, currentWeather, showWeather, loading, entities,
                       viewContainer, visible, overtaken>>
    BY <2>1 DEF ChangeView, ServerLeft, serverVars, feedVars, skyVars, bodyVars
  <2>3. hasty' \in BOOLEAN
    BY <2>2 DEF Inv, TypeOK
  <2>4. TypeOK' /\ CameraHasTarget'
    BY <2>2, <2>3, PageTypes DEF Inv, TypeOK, ServerLeft, CameraHasTarget, Follows
  <2>5. QED
    BY <2>2, <2>4, QuietStep DEF PageSide, PageSky
<1>2. CASE ToggleWeather
  <2>1. /\ ServerLeft /\ showWeather' = ~showWeather
        /\ hasty' = (hasty \/ currentWeather = NoId)
        /\ visible' = IF currentWeather # NoId /\ showWeather'
                      THEN visible \cup {currentWeather} ELSE visible \ {currentWeather}
        /\ UNCHANGED <<present, inbox, options, currentView, currentWeather, loading, entities,
                       viewContainer, overtaken>>
    BY <1>2 DEF ToggleWeather, ServerLeft, serverVars, feedVars, menuVars
  <2>2. hasty' \in BOOLEAN /\ showWeather' \in BOOLEAN
    BY <2>1 DEF Inv, TypeOK
  <2>3. TypeOK' /\ CameraHasTarget'
    BY <2>1, <2>2, PageTypes DEF Inv, TypeOK, ServerLeft, CameraHasTarget, Follows
  <2>4. ASSUME NEW e \in Entities, NEW a \in Sides, PageSide(e, a) PROVE PageSide(e, a)'
    BY <2>1, <2>4, PageTypes DEF PageSide
  <2>5. ASSUME NEW a \in Skies, PageSky(a) PROVE PageSky(a)'
    BY <2>1, <2>5, PageTypes DEF PageSky
  <2>6. QED
    BY <2>1, <2>3, <2>4, <2>5, QuietStep
<1>3. QED
  BY <1>1, <1>2

LEMMA InitInv ==
  ASSUME Init
  PROVE  Inv
<1>1. /\ scene = {} /\ shown = {} /\ gone = {} /\ sky = "none" /\ made = {}
      /\ gfx = [w \in WeatherTypes |-> NoId] /\ present = FALSE /\ inbox = <<>>
      /\ loading = {} /\ entities = [id \in Ids |-> "absent"] /\ viewContainer = {}
      /\ visible = {} /\ options = {} /\ currentView = NoId /\ currentWeather = NoId
      /\ showWeather = FALSE /\ told = {} /\ overtaken = {} /\ hasty = FALSE
  BY DEF Init, Server!Init
<1>2. TypeOK
  <2>1. /\ inbox \in Seq(Events) /\ gfx \in [WeatherTypes -> Models \cup {NoId}]
        /\ entities \in [Ids -> {"absent", "undefined", "mesh"}]
    BY <1>1
  <2>2. QED
    BY <1>1, <2>1 DEF TypeOK, Events, Names
<1>3. ServerSound /\ QueueSound /\ CameraHasTarget
  BY <1>1 DEF ServerSound, QueueSound, CameraHasTarget, Follows
<1>4. \A e \in Entities : EntitySound(e)
  BY <1>1 DEF EntitySound, Unheard, PageSide, Ids
<1>5. \A m \in Models : ModelSound(m)
  BY <1>1 DEF ModelSound, Unheard, Ids
<1>6. SkySound
  <2>1. "none" \in Skies
    BY DEF Skies
  <2>2. SkyTrack(inbox, "none", sky)
    BY <1>1, <2>1, EmptyQueue DEF SkyTrack
  <2>3. QED
    BY <2>1, <2>2 DEF SkySound, PageSky
<1>7. QED
  BY <1>2, <1>3, <1>4, <1>5, <1>6 DEF Inv

\* Nothing the server, the page or the user does loses track.
THEOREM Invariance == Spec => []Inv
<1>1. Init => Inv
  BY InitInv
<1>2. Inv /\ [Next]_vars => Inv'
  <2>1. ASSUME Inv, Next PROVE Inv'
    <3>1. CASE Simulate
      BY <2>1, <3>1, SimulateKeepsInv
    <3>2. CASE Join
      BY <2>1, <3>2, JoinKeepsInv
    <3>3. CASE Handle
      BY <2>1, <3>3, HandleKeepsInv
    <3>4. CASE Load
      BY <2>1, <3>4, LoadKeepsInv DEF Load
    <3>5. CASE (\E v \in options \cup {NoId} : ChangeView(v)) \/ ToggleWeather
      BY <2>1, <3>5, UserKeepsInv
    <3>6. QED
      BY <2>1, <3>1, <3>2, <3>3, <3>4, <3>5 DEF Next
  <2>2. ASSUME Inv, UNCHANGED vars PROVE Inv'
    <3>1. /\ ServerLeft
          /\ UNCHANGED <<present, inbox, options, currentView, currentWeather, showWeather,
                         loading, entities, viewContainer, visible, overtaken, hasty>>
      BY <2>2 DEF vars, ServerLeft, serverVars, feedVars, menuVars, skyVars, bodyVars, historyVars
    <3>2. TypeOK' /\ CameraHasTarget'
      BY <2>2, <3>1 DEF Inv, TypeOK, ServerLeft, CameraHasTarget, Follows
    <3>3. QED
      BY <2>2, <3>1, <3>2, QuietStep DEF PageSide, PageSky
  <2>3. QED
    BY <2>1, <2>2
<1>3. QED
  BY <1>1, <1>2, PTL DEF Spec

\* Every variable of the server, the queue and the page has its type.
THEOREM TypeCorrect == Spec => []TypeOK
<1>1. Inv => TypeOK
  BY DEF Inv
<1>2. QED
  BY <1>1, Invariance, PTL

\* The camera follows nothing that the menu does not offer, and what it
\* follows is there unless the user or an event was early (changeView,
\* updateEntityView, removeEntity).
THEOREM CameraFollowsMenu == Spec => []CameraHasTarget
<1>1. Inv => CameraHasTarget
  BY DEF Inv
<1>2. QED
  BY <1>1, Invariance, PTL

\* What the page displays, moves and lists of an entity it was told of is what
\* the simulation has in view, once the events are handled and the mesh has
\* come, unless one of them came before the mesh (addEntity, removeEntity,
\* updateEntityView).
THEOREM PageFollowsServer == Spec => []ViewFollowsServer
<1>1. ASSUME Inv, NEW e \in (Entities \cap told) \ (overtaken \cup loading), Settled(e)
      PROVE  /\ e \in visible <=> e \in shown
             /\ entities[e] = "mesh" <=> e \in shown
             /\ e \in options <=> e \in shown
  <2>1. PICK a \in Sides : PageSide(e, a) /\ EntityTrack(inbox, e, a, ServerSide(e))
    BY <1>1 DEF Inv, EntitySound
  <2>2. inbox \in Seq(Events)
    BY <1>1 DEF Inv, TypeOK, Events, Names
  <2>3. \A k \in 1 .. Len(inbox) : inbox[k] \notin EventsOf(e)
    BY <1>1, <2>2, EventType DEF Settled, EventsOf
  <2>4. a = ServerSide(e)
    BY <2>1, <2>2, <2>3, TrackCalm DEF EntityTrack
  <2>5. ServerSide(e) = "in" <=> e \in shown
    BY <1>1 DEF Inv, ServerSound, ServerSide
  <2>6. QED
    BY <1>1, <2>1, <2>4, <2>5 DEF PageSide
<1>2. Inv => ViewFollowsServer
  BY <1>1 DEF ViewFollowsServer
<1>3. QED
  BY <1>2, Invariance, PTL

\* While a weather is in view, a page that knows the models and was not early
\* displays its model if and only if the checkbox is ticked
\* (updateEntityView, toggleWeather, onLoad).
THEOREM SkyOnPage == Spec => []SkyIsShown
<1>1. ASSUME Inv, sky # "none", made \subseteq told,
             \A i \in DOMAIN inbox : inbox[i].id \notin Models, Models \cap overtaken = {}
      PROVE  /\ currentWeather \in Models /\ TypeOf[currentWeather] = sky
             /\ currentWeather \in visible <=> showWeather
  <2>1. PICK a \in Skies : PageSky(a) /\ SkyTrack(inbox, a, sky)
    BY <1>1 DEF Inv, SkySound
  <2>2. inbox \in Seq(Events)
    BY <1>1 DEF Inv, TypeOK, Events, Names
  <2>3. \A k \in 1 .. Len(inbox) : inbox[k] \notin SkyEvents
    BY <1>1, <2>2, EventType DEF SkyEvents
  <2>4. a = sky
    BY <2>1, <2>2, <2>3, TrackCalm DEF SkyTrack
  <2>5. QED
    BY <1>1, <2>1, <2>4 DEF PageSky
<1>2. Inv => SkyIsShown
  BY <1>1 DEF SkyIsShown
<1>3. QED
  BY <1>2, Invariance, PTL

\* A handler throws only for an event that comes before the mesh, or about
\* something of which the page was not told or such an event came already, or
\* because the user chose a view before it was there.
THEOREM ThrowsAreEarly == Spec => []ThrowsOnlyIfEarly
<1>1. ASSUME Inv, inbox # <<>>, Throws(Head(inbox))
      PROVE  LET id == Head(inbox).id
             IN  \/ id \in loading \cup overtaken \/ id \notin told
                 \/ id \in Models /\ (~(made \subseteq told) \/ Models \cap overtaken # {})
                 \/ ~Follows(currentView) /\ (hasty \/ currentView \in overtaken)
  <2> DEFINE ev == Head(inbox)
  <2>1. inbox \in Seq(Events) /\ ev \in Events
    <3>1. inbox \in Seq(Events)
      BY <1>1 DEF Inv, TypeOK, Events, Names
    <3>2. QED
      BY <1>1, <3>1
  <2> HIDE DEF ev
  <2>2. /\ ev.id \in Ids /\ ev.event \in Names /\ ev = Event(ev.event, ev.id)
        /\ Ids = Entities \cup Models
    BY <2>1 DEF Events, Event, Ids
  <2>3. SUFFICES ASSUME ev.id \notin loading, ev.id \notin overtaken, ev.id \in told,
                        ev.id \in Models => made \subseteq told /\ Models \cap overtaken = {},
                        Follows(currentView)
                 PROVE  FALSE
    BY <1>1, PageTypes DEF ev
  <2>4. Throws(ev)
    BY <1>1 DEF ev
  <2>5. CASE ev.id \in Entities
    <3>1. PICK a \in Sides : PageSide(ev.id, a) /\ EntityTrack(inbox, ev.id, a, ServerSide(ev.id))
      BY <1>1, <2>3, <2>5 DEF Inv, EntitySound
    <3>2. ev.id \notin Models
      BY <2>5, ViewAssumption
    <3>3. ev.event # "UpdateEntity" => ev \in EventsOf(ev.id) \/ ~Throws(ev)
      BY <2>2 DEF EventsOf, Throws
    <3>4. ev \in EventsOf(ev.id) => a = Before(ev.id)[ev]
      BY <1>1, <2>1, <3>1, TrackTail DEF EntityTrack, ev
    <3>5. CASE ev.event = "UpdateEntity"
      BY <2>3, <2>4, <3>1, <3>5 DEF Throws, PageSide
    <3>6. CASE ev.event = "RemoveFromView"
      BY <2>3, <2>4, <3>1, <3>2, <3>3, <3>4, <3>6 DEF Throws, PageSide, Before
    <3>7. CASE ev.event = "AddToView"
      BY <2>3, <2>4, <3>1, <3>2, <3>3, <3>4, <3>7 DEF Throws, PageSide, Before
    <3>8. QED
      BY <2>4, <3>5, <3>6, <3>7 DEF Throws
  <2>6. CASE ev.id \in Models
    <3>1. PICK a \in {"new", "known"} :
            /\ ModelTrack(inbox, ev.id, a, "known")
            /\ a = "known" => ev.id \in loading \/ entities[ev.id] = "mesh"
      BY <1>1, <2>3, <2>6 DEF Inv, ModelSound
    <3>2. entities[ev.id] # "undefined"
      BY <1>1, <2>6 DEF Inv, ModelSound
    <3>9. ev.event # "UpdateEntity"
      BY <2>3, <2>4, <3>2 DEF Throws
    <3>3. ev \in EventsOf(ev.id)
      BY <2>2, <3>9 DEF EventsOf, Names
    <3>4. a = ModelBefore(ev.id)[ev]
      BY <1>1, <2>1, <3>1, <3>3, TrackTail DEF ModelTrack, ev
    <3>5. CASE ev.event = "AddToView"
      BY <2>3, <2>4, <2>6, <3>1, <3>3, <3>4, <3>5 DEF Throws, ModelBefore
    <3>6. CASE ev.event = "RemoveFromView"
      <4>1. PICK s \in Skies : PageSky(s) /\ SkyTrack(inbox, s, sky)
        BY <1>1, <2>3, <2>6 DEF Inv, SkySound
      <4>2. ev \in SkyEvents
        BY <2>2, <2>6, <3>6 DEF SkyEvents
      <4>3. s = SkyBefore[ev]
        BY <1>1, <2>1, <4>1, <4>2, TrackTail DEF SkyTrack, ev
      <4>4. s = TypeOf[ev.id] /\ s # "none"
        BY <2>6, <3>6, <4>2, <4>3, ViewAssumption DEF SkyBefore
      <4>5. QED
        BY <1>1, <2>4, <2>6, <3>6, <4>1, <4>4, PageTypes DEF Throws, PageSky
    <3>7. QED
      BY <2>4, <3>9, <3>5, <3>6 DEF Throws
  <2>7. QED
    BY <2>2, <2>5, <2>6
<1>2. Inv => ThrowsOnlyIfEarly
  BY <1>1 DEF ThrowsOnlyIfEarly
<1>3. QED
  BY <1>2, Invariance, PTL
=============================================================================
