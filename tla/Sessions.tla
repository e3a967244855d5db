------------------------------- MODULE Sessions -------------------------------
(***************************************************************************)
(* The pages' connections to the server: the client side of js/WSApi.js    *)
(* and the sessions of transit_service.cc.                                 *)
(*                                                                         *)
(* A page may issue commands before its socket is open; each then waits on *)
(* the promise connect.  When the socket opens, the waiting commands are   *)
(* sent one after the other before the browser does anything else: they    *)
(* are microtasks.  The server handles one command at a time; what it      *)
(* sends arrives in order.  A socket may fail to open, or close; WSApi     *)
(* only logs that.                                                         *)
(*                                                                         *)
(* A visualization page sends Update, which advances the one simulation by *)
(* the time since this session's last Update, times the simSpeed the       *)
(* command carries: the present position of a slider in steps of a tenth.  *)
(* Other commands are reduced to the event they cause on every page.  The  *)
(* clock is in units of which simulated time counts tenths: of these, the  *)
(* 0.01 seconds of a sub-update are Step and the 0.1 seconds from which on *)
(* an update is divided are Threshold.                                     *)
(***************************************************************************)
EXTENDS Integers, Sequences, FiniteSets, FiniteSetsExt

CONSTANTS
  Pages,
  SimSpeeds,     \* the values of simSpeed a command may carry, in tenths
  Step, Threshold,
  MaxCommands,   \* bounds the commands each page issues
  MaxTime        \* bounds the time

ASSUME SessionsAssumption ==
  /\ IsFiniteSet(Pages)
  /\ SimSpeeds \subseteq Nat \ {0}
  /\ Step \in Nat \ {0} /\ Threshold \in Nat
  /\ MaxCommands \in [Pages -> Nat] /\ MaxTime \in Nat

VARIABLES
  \* WSApi, for every page
  socket,      \* "connecting", "open", "failed" or "closed"
  connected,   \* self.connected
  waiting,     \* the commands that wait on connect, in order
  requestId,
  callbacks,   \* from request ids to the command whose promise waits
  issued,      \* the number of commands issued: commands are numbered
  resolved,    \* the commands whose promise is resolved
  \* on the wire
  up,          \* [id, command] messages to the server
  down,        \* messages to the page: events, answers, the session's number
  \* the server
  sessions,    \* the pages that have a session
  executed,    \* the commands of each page carried out, in order
  start, time, \* TransitService: when it was created, time accounted for since
  now,         \* the clock
  simulated,   \* the sum of the dt given to SimulationModel::Update
  updates      \* history: when each session's Updates came, and their simSpeed

clientVars == <<socket, connected, waiting, requestId, callbacks, issued, resolved>>
clockVars == <<start, time, now, simulated, updates>>
serverVars == <<sessions, executed, clockVars>>
vars == <<clientVars, up, down, serverVars>>

Init ==
  /\ socket = [p \in Pages |-> "connecting"]
  /\ connected = [p \in Pages |-> FALSE]
  /\ waiting = [p \in Pages |-> <<>>]
  /\ requestId = [p \in Pages |-> 0]
  /\ callbacks = [p \in Pages |-> <<>>]
  /\ issued = [p \in Pages |-> 0]
  /\ resolved = [p \in Pages |-> {}]
  /\ up = [p \in Pages |-> <<>>]
  /\ down = [p \in Pages |-> <<>>]
  /\ sessions = {}
  /\ executed = [p \in Pages |-> <<>>]
  /\ start = [p \in Pages |-> 0]
  /\ time = [p \in Pages |-> 0]
  /\ now = 0
  /\ simulated = 0
  /\ updates = [p \in Pages |-> <<>>]

Answer(id) == [kind |-> "answer", id |-> id]
Caused(p, n) == [kind |-> "event", by |-> <<p, n>>]
Number == [kind |-> "number"]

-----------------------------------------------------------------------------
(* WSApi.                                                                  *)

\* Mutant of Register: the request id is not increased.
RegisterUnder0(p, n) ==
  /\ callbacks' = [callbacks EXCEPT ![p] = [i \in DOMAIN @ \cup {requestId[p]} |->
                                IF i = requestId[p] THEN n ELSE @[i]]]
  /\ UNCHANGED requestId

\* The command's promise is kept under its request id.
Register(p, n) ==
  /\ callbacks' = [callbacks EXCEPT ![p] = [i \in DOMAIN @ \cup {requestId[p]} |->
                                IF i = requestId[p] THEN n ELSE @[i]]]
  /\ requestId' = [requestId EXCEPT ![p] = @ + 1]

\* The connected branch of sendCommand.  A socket that has closed discards
\* what it is given.
Post(p, n) ==
  /\ up' = IF socket[p] = "open"
           THEN [up EXCEPT ![p] = Append(@, [id |-> requestId[p], command |-> n])]
           ELSE up
  /\ Register(p, n)

\* Mutant of SendCommand: asks the socket instead of the flag.
SendWhenOpen(p) ==
  /\ issued[p] < MaxCommands[p]
  /\ connected[p] => waiting[p] = <<>>
  /\ issued' = [issued EXCEPT ![p] = @ + 1]
  /\ IF socket[p] = "open"
     THEN Post(p, issued'[p]) /\ UNCHANGED waiting
     ELSE /\ waiting' = [waiting EXCEPT ![p] = Append(@, issued'[p])]
          /\ UNCHANGED <<up, requestId, callbacks>>
  /\ UNCHANGED <<socket, connected, resolved, down, serverVars>>

\* The page issues a command: not while microtasks wait for their turn.
SendCommand(p) ==
  /\ issued[p] < MaxCommands[p]
  /\ connected[p] => waiting[p] = <<>>
  /\ issued' = [issued EXCEPT ![p] = @ + 1]
  /\ IF connected[p]
     THEN Post(p, issued'[p]) /\ UNCHANGED waiting
     ELSE /\ waiting' = [waiting EXCEPT ![p] = Append(@, issued'[p])]
          /\ UNCHANGED <<up, requestId, callbacks>>
  /\ UNCHANGED <<socket, connected, resolved, down, serverVars>>

\* Mutant of Then: the flag is not set, and sendCommand waits again.
ThenUnset(p) ==
  /\ socket[p] = "open"
  /\ waiting[p] # <<>>
  /\ waiting' = [waiting EXCEPT ![p] = Append(Tail(@), Head(@))]
  /\ UNCHANGED <<socket, connected, requestId, callbacks, issued, resolved, up, down, serverVars>>

\* The function a waiting command gave to connect.then: it sends the command.
Then(p) ==
  /\ socket[p] = "open"
  /\ waiting[p] # <<>>
  /\ connected' = [connected EXCEPT ![p] = TRUE]
  /\ waiting' = [waiting EXCEPT ![p] = Tail(@)]
  /\ Post(p, Head(waiting[p]))
  /\ UNCHANGED <<socket, issued, resolved, down, serverVars>>

\* The callback of request id: it resolves the promise and deletes itself.
Settle(p, id) ==
  /\ resolved' = [resolved EXCEPT ![p] = @ \cup {callbacks[p][id]}]
  /\ callbacks' = [callbacks EXCEPT ![p] = [i \in DOMAIN @ \ {id} |-> @[i]]]

Greet(p, data) ==
  connected' = IF data = Number THEN [connected EXCEPT ![p] = TRUE] ELSE connected

\* socket.onmessage.  Events go to the page's own handler.
OnMessage(p) ==
  /\ socket[p] = "open" /\ waiting[p] = <<>>
  /\ down[p] # <<>>
  /\ down' = [down EXCEPT ![p] = Tail(@)]
  /\ LET data == Head(down[p])
     IN  /\ Greet(p, data)
         /\ \/ data.kind = "answer" /\ data.id \in DOMAIN callbacks[p] /\ Settle(p, data.id)
            \/ /\ data.kind = "answer" => data.id \notin DOMAIN callbacks[p]
               /\ UNCHANGED <<resolved, callbacks>>
  /\ UNCHANGED <<socket, waiting, requestId, issued, up, serverVars>>

\* onopen, onerror and onclose.
OnOpen(p) ==
  /\ socket[p] = "connecting" /\ p \in sessions
  /\ socket' = [socket EXCEPT ![p] = "open"]
  /\ UNCHANGED <<connected, waiting, requestId, callbacks, issued, resolved, up, down, serverVars>>

OnError(p) ==
  /\ socket[p] = "connecting"
  /\ socket' = [socket EXCEPT ![p] = "failed"]
  /\ UNCHANGED <<connected, waiting, requestId, callbacks, issued, resolved, up, down, serverVars>>

OnClose(p) ==
  /\ socket[p] = "open"
  /\ connected[p] => waiting[p] = <<>>
  /\ socket' = [socket EXCEPT ![p] = "closed"]
  /\ down' = [down EXCEPT ![p] = <<>>]
  /\ UNCHANGED <<connected, waiting, requestId, callbacks, issued, resolved, up, serverVars>>

-----------------------------------------------------------------------------
(* The server.                                                             *)

\* A session is created; its number may be sent to the page.
CreateSession(p) ==
  /\ p \notin sessions /\ socket[p] = "connecting"
  /\ sessions' = sessions \cup {p}
  /\ start' = [start EXCEPT ![p] = now]
  /\ \E greeting \in {<<>>, <<Number>>} : down' = [down EXCEPT ![p] = greeting]
  /\ UNCHANGED <<clientVars, up, executed, time, now, simulated, updates>>

\* What SimulationModel is advanced by for delta: in whole sub-updates if
\* delta is long.
Advance(delta) ==
  IF delta > Threshold THEN Step * ((delta + Step - 1) \div Step) ELSE delta

Record(p, speed) ==
  updates' = [updates EXCEPT ![p] = Append(@, [at |-> now, speed |-> speed])]

\* Mutant of Elapse: the time accounted for is not kept.
ElapseSinceStart(p, speed) ==
  /\ simulated' = simulated + Advance((now - start[p] - time[p]) * speed)
  /\ Record(p, speed)
  /\ UNCHANGED time

\* Mutant of Elapse: the time accounted for is subtracted the wrong way round.
ElapseBackwards(p, speed) ==
  /\ simulated' = simulated + Advance((now - start[p] - time[p]) * speed)
  /\ time' = [time EXCEPT ![p] = start[p] - now]
  /\ Record(p, speed)

\* The clock of the session, in ReceiveCommand("Update").
Elapse(p, speed) ==
  /\ simulated' = simulated + Advance((now - start[p] - time[p]) * speed)
  /\ time' = [time EXCEPT ![p] = now - start[p]]
  /\ Record(p, speed)

\* Events only reach pages whose socket has not closed.
Listening == {p \in sessions : socket[p] \in {"connecting", "open"}}

\* Mutant of Reply: the answer is sent first.
ReplyFirst(p, request, audience) ==
  down' = [q \in Pages |->
    IF q \notin Listening THEN down[q]
    ELSE LET events == IF q \in audience THEN <<Caused(p, request.command)>> ELSE <<>>
         IN  down[q] \o (IF q = p THEN <<Answer(request.id)>> ELSE <<>>) \o events]

\* The events of a command go to audience, then the answer to p.
Reply(p, request, audience) ==
  down' = [q \in Pages |->
    IF q \notin Listening THEN down[q]
    ELSE LET events == IF q \in audience THEN <<Caused(p, request.command)>> ELSE <<>>
         IN  down[q] \o events \o (IF q = p THEN <<Answer(request.id)>> ELSE <<>>)]

\* receiveJSON: Update advances the simulation at the speed it carries and
\* reports to this page, and its changes to every page; other commands concern
\* every page.  Which it is, and the speed, is chosen here.
ReceiveCommand(p) ==
  /\ up[p] # <<>>
  /\ up' = [up EXCEPT ![p] = Tail(@)]
  /\ executed' = [executed EXCEPT ![p] = Append(@, Head(up[p]).command)]
  /\ \/ /\ \E speed \in SimSpeeds : Elapse(p, speed)
        /\ \E audience \in {{p}, Pages} : Reply(p, Head(up[p]), audience)
     \/ Reply(p, Head(up[p]), Pages) /\ UNCHANGED <<time, simulated, updates>>
  /\ UNCHANGED <<clientVars, sessions, start, now>>

Tick ==
  /\ now < MaxTime
  /\ now' = now + 1
  /\ UNCHANGED <<clientVars, up, down, sessions, executed, start, time, simulated, updates>>

-----------------------------------------------------------------------------

Next ==
  \/ Tick
  \/ \E p \in Pages :
       \/ SendCommand(p) \/ Then(p) \/ OnMessage(p)
       \/ OnOpen(p) \/ OnError(p) \/ OnClose(p)
       \/ CreateSession(p) \/ ReceiveCommand(p)

Spec == Init /\ [][Next]_vars

\* The browser runs what is due, the server reads what has arrived.
FairSpec ==
  /\ Spec
  /\ \A p \in Pages :
       WF_vars(Then(p)) /\ WF_vars(OnMessage(p)) /\ WF_vars(ReceiveCommand(p))

-----------------------------------------------------------------------------
(* Properties.                                                             *)

Commands == Nat \ {0}
Requested == [id : Nat, command : Commands]

TypeOK ==
  /\ socket \in [Pages -> {"connecting", "open", "failed", "closed"}]
  /\ connected \in [Pages -> BOOLEAN]
  /\ waiting \in [Pages -> Seq(Commands)]
  /\ requestId \in [Pages -> Nat]
  /\ \A p \in Pages : /\ DOMAIN callbacks[p] \subseteq Nat
                      /\ \A id \in DOMAIN callbacks[p] : callbacks[p][id] \in Commands
  /\ issued \in [Pages -> Nat]
  /\ resolved \in [Pages -> SUBSET Commands]
  /\ up \in [Pages -> Seq(Requested)]
  /\ down \in [Pages -> Seq([kind : {"answer"}, id : Nat] \cup {Number}
                         \cup [kind : {"event"}, by : Pages \X Commands])]
  /\ sessions \subseteq Pages
  /\ executed \in [Pages -> Seq(Commands)]
  /\ start \in [Pages -> Nat] /\ time \in [Pages -> Nat]
  /\ now \in Nat /\ simulated \in Nat
  /\ updates \in [Pages -> Seq([at : Nat, speed : SimSpeeds])]

\* Ids of the requests on the way to the server, and of the answers back.
Asked(p) == {up[p][i].id : i \in DOMAIN up[p]}
Answered(p) == {down[p][i].id : i \in {j \in DOMAIN down[p] : down[p][j].kind = "answer"}}

\* While the socket is open, the callbacks kept are those of the requests whose
\* answer is still to come, each under the id its answer will bear: none is
\* lost, overwritten or left behind, however many are under way.
CallbacksMatchRequests ==
  \A p \in Pages :
    /\ socket[p] = "open" => DOMAIN callbacks[p] = Asked(p) \cup Answered(p)
    /\ \A i \in DOMAIN up[p] : up[p][i].id \in DOMAIN callbacks[p]
                               /\ callbacks[p][up[p][i].id] = up[p][i].command

\* When the promise of a command is resolved, the page has handled every event
\* the command caused.
EventsBeforeAnswer ==
  \A p \in Pages : \A n \in resolved[p] :
    \A i \in DOMAIN down[p] : down[p][i] # Caused(p, n)

\* The Updates carried out, and what each owes the simulation: the time since
\* the session's Update before, or since its start, at the speed it carried.
Updates == UNION {{p} \X (1 .. Len(updates[p])) : p \in Pages}
Since(p, k) ==
  updates[p][k].at - (IF k = 1 THEN start[p] ELSE updates[p][k - 1].at)
Owed == [u \in Updates |-> updates[u[1]][u[2]].speed * Since(u[1], u[2])]

\* However the sliders are moved in between, and however the Updates of several
\* pages interleave, the simulation has been advanced by what each Update owes,
\* added up over all of them (n visualization pages make it run n times as
\* fast), and by less than a sub-update more for each.
TimeIsAccountedFor ==
  /\ SumFunction(Owed) <= simulated
  /\ simulated <= SumFunction(Owed) + Cardinality(Updates) * (Step - 1)

\* Whatever is issued before, while and after the connection comes up, by
\* several pages: every page's commands are carried out once each in the order
\* it issued them, and each promise gets the answer to its own command.
Request(p) == INSTANCE Requests WITH
  issued <- issued[p], executed <- executed[p], resolved <- resolved[p]
ServesRequests ==
  /\ \A p \in Pages : Request(p)!Init
  /\ [][\A p \in Pages : Request(p)!Next \/ UNCHANGED Request(p)!vars]_vars

\* A command is answered, unless the connection does not come up or breaks.
EveryCommandAnswered ==
  \A p \in Pages : \A n \in 1 .. MaxCommands[p] :
    (issued[p] >= n /\ socket[p] = "open") ~> (n \in resolved[p] \/ socket[p] # "open")
=============================================================================
