---------------------------- MODULE SessionsProofs ----------------------------
(***************************************************************************)
(* Sessions serves every page's requests, for any pages and any number of  *)
(* commands, whenever the connections come up, fail or break.              *)
(*                                                                         *)
(* The argument: command n of a page bears the request id n - 1, whatever  *)
(* way it takes, so that what is carried out, under way, and waiting are   *)
(* the page's commands in order, and every id stands for one command.      *)
(*                                                                         *)
(* That the time adds up is proved by counting: a sum of natural numbers   *)
(* is the number of its units, and sets of units need no induction.        *)
(***************************************************************************)
EXTENDS Sessions, FiniteSetTheorems, TLAPS

\* The commands waiting are those issued after the requests sent.
WaitingSound(p) ==
  /\ requestId[p] + Len(waiting[p]) = issued[p]
  /\ \A i \in 1 .. Len(waiting[p]) : waiting[p][i] = requestId[p] + i

\* The requests on their way follow those carried out; none is missing while
\* the socket is open.
UpSound(p) ==
  /\ \A i \in 1 .. Len(up[p]) :
       /\ up[p][i].id = Len(executed[p]) + i - 1
       /\ up[p][i].command = Len(executed[p]) + i
  /\ Len(executed[p]) + Len(up[p]) <= requestId[p]
  /\ socket[p] = "open" => Len(executed[p]) + Len(up[p]) = requestId[p] /\ p \in sessions
  /\ socket[p] \in {"connecting", "failed"} => requestId[p] = 0 /\ ~connected[p]
  /\ \A i \in 1 .. Len(executed[p]) : executed[p][i] = i

\* Every request id stands for one command.
CallbacksSound(p) ==
  /\ \A id \in DOMAIN callbacks[p] : id < requestId[p] /\ callbacks[p][id] = id + 1
  /\ \A n \in resolved[p] : n <= Len(executed[p]) /\ n - 1 \notin DOMAIN callbacks[p]
  /\ \A i \in 1 .. Len(up[p]) : up[p][i].id \in DOMAIN callbacks[p]
  /\ socket[p] = "open" => DOMAIN callbacks[p] = Asked(p) \cup Answered(p)

\* A request is answered once, after the events it causes.
IsAnswer(m) == m.kind = "answer"
DownSound(p) ==
  /\ \A i \in 1 .. Len(down[p]) : IsAnswer(down[p][i]) => down[p][i].id < Len(executed[p])
  /\ \A i, j \in 1 .. Len(down[p]) :
       IsAnswer(down[p][i]) /\ IsAnswer(down[p][j]) /\ down[p][i].id = down[p][j].id => i = j
  /\ \A i, j \in 1 .. Len(down[p]) : \A n \in Commands :
       IsAnswer(down[p][i]) /\ down[p][j] = Caused(p, n) /\ i < j => down[p][i].id # n - 1
  /\ \A j \in 1 .. Len(down[p]) : \A n \in resolved[p] : down[p][j] # Caused(p, n)

PageSound(p) == WaitingSound(p) /\ UpSound(p) /\ CallbacksSound(p) /\ DownSound(p)

\* No session accounts for time that has not passed, or before its first
\* command; what it has accounted for ends with its last Update.
ClockSound ==
  \A p \in Pages :
    LET n == Len(updates[p])
    IN  /\ start[p] + time[p] <= now
        /\ time[p] = IF n = 0 THEN 0 ELSE updates[p][n].at - start[p]
        /\ Len(executed[p]) = 0 => n = 0
        /\ \A k \in 1 .. n : Since(p, k) \in Nat

\* callbacks is a function, of which TypeOK speaks page by page.
CallbacksType == callbacks = [p \in Pages |-> callbacks[p]]

Inv == TypeOK /\ CallbacksType /\ ClockSound /\ \A p \in Pages : PageSound(p)

-----------------------------------------------------------------------------
(* Messages and types.                                                     *)

Recorded == [at : Nat, speed : SimSpeeds]

Message == [kind : {"answer"}, id : Nat] \cup {Number}
           \cup [kind : {"event"}, by : Pages \X Commands]

LEMMA Messages ==
  /\ \A id \in Nat : Answer(id) \in Message /\ IsAnswer(Answer(id)) /\ Answer(id).id = id
  /\ \A p \in Pages, n \in Commands : Caused(p, n) \in Message /\ ~IsAnswer(Caused(p, n))
  /\ Number \in Message /\ ~IsAnswer(Number)
  /\ \A m \in Message : IsAnswer(m) => m.id \in Nat
  /\ \A p, q \in Pages, n, k \in Commands : Caused(p, n) = Caused(q, k) => p = q /\ n = k
  /\ \A p \in Pages, n \in Commands : Number # Caused(p, n)
<1>1. \A id \in Nat : Answer(id) \in Message /\ IsAnswer(Answer(id)) /\ Answer(id).id = id
  BY DEF Answer, Message, IsAnswer
<1>2. \A p \in Pages, n \in Commands : Caused(p, n) \in Message /\ ~IsAnswer(Caused(p, n))
  BY DEF Caused, Message, IsAnswer
<1>3. Number \in Message /\ ~IsAnswer(Number)
  BY DEF Number, Message, IsAnswer
<1>4. \A m \in Message : IsAnswer(m) => m.id \in Nat
  BY DEF Number, Message, IsAnswer
<1>5. ASSUME NEW p \in Pages, NEW q \in Pages, NEW n \in Commands, NEW k \in Commands,
             Caused(p, n) = Caused(q, k)
      PROVE  p = q /\ n = k
  <2>1. Caused(p, n).by = <<p, n>> /\ Caused(q, k).by = <<q, k>>
    BY DEF Caused
  <2>2. QED
    BY <1>5, <2>1
<1>6. \A p \in Pages, n \in Commands : Number # Caused(p, n)
  <2>1. \A p \in Pages, n \in Commands : Caused(p, n).kind = "event"
    BY DEF Caused
  <2>2. QED
    BY <2>1 DEF Number
<1>7. QED
  BY <1>1, <1>2, <1>3, <1>4, <1>5, <1>6

LEMMA Types ==
  ASSUME Inv
  PROVE  /\ waiting \in [Pages -> Seq(Commands)] /\ up \in [Pages -> Seq(Requested)]
         /\ down \in [Pages -> Seq(Message)] /\ executed \in [Pages -> Seq(Commands)]
         /\ requestId \in [Pages -> Nat] /\ issued \in [Pages -> Nat]
         /\ resolved \in [Pages -> SUBSET Commands] /\ connected \in [Pages -> BOOLEAN]
         /\ socket \in [Pages -> {"connecting", "open", "failed", "closed"}]
         /\ callbacks = [p \in Pages |-> callbacks[p]]
         /\ \A p \in Pages : /\ Len(waiting[p]) \in Nat /\ Len(up[p]) \in Nat
                             /\ Len(down[p]) \in Nat /\ Len(executed[p]) \in Nat
                             /\ DOMAIN callbacks[p] \subseteq Nat
         /\ \A p \in Pages : \A i \in 1 .. Len(up[p]) :
              up[p][i].id \in Nat /\ up[p][i].command \in Commands
         /\ \A p \in Pages : \A i \in 1 .. Len(down[p]) : down[p][i] \in Message
<1>1. /\ waiting \in [Pages -> Seq(Commands)] /\ up \in [Pages -> Seq(Requested)]
      /\ down \in [Pages -> Seq(Message)] /\ executed \in [Pages -> Seq(Commands)]
  BY DEF Inv, TypeOK, Message
<1>2. \A p \in Pages : \A i \in 1 .. Len(up[p]) : up[p][i] \in Requested
  BY <1>1
<1>3. \A p \in Pages : \A i \in 1 .. Len(down[p]) : down[p][i] \in Message
  BY <1>1
<1>4. \A p \in Pages : /\ Len(waiting[p]) \in Nat /\ Len(up[p]) \in Nat
                      /\ Len(down[p]) \in Nat /\ Len(executed[p]) \in Nat
  BY <1>1
<1>5. QED
  BY <1>1, <1>2, <1>3, <1>4 DEF Inv, TypeOK, CallbacksType, Requested

\* What is known of a page's requests and answers.
LEMMA Known ==
  ASSUME Inv, NEW p \in Pages
  PROVE  /\ Asked(p) = {up[p][i].id : i \in 1 .. Len(up[p])}
         /\ Answered(p) = {down[p][i].id : i \in {j \in 1 .. Len(down[p]) : IsAnswer(down[p][j])}}
         /\ WaitingSound(p) /\ UpSound(p) /\ CallbacksSound(p) /\ DownSound(p)
<1>1. DOMAIN up[p] = 1 .. Len(up[p]) /\ DOMAIN down[p] = 1 .. Len(down[p])
  BY Types
<1>2. QED
  BY <1>1 DEF Inv, PageSound, Asked, Answered, IsAnswer

\* A page nothing happens to.
Mine(q) == <<socket[q], connected[q], waiting[q], requestId[q], callbacks[q], issued[q],
             resolved[q], up[q], executed[q]>>

LEMMA PageStays ==
  ASSUME Inv, NEW q \in Pages, UNCHANGED Mine(q), down'[q] = down[q],
         q \in sessions => q \in sessions'
  PROVE  PageSound(q)'
<1>1. PageSound(q)
  BY DEF Inv
<1>2. WaitingSound(q)'
  BY <1>1 DEF PageSound, Mine, WaitingSound
<1>3. UpSound(q)'
  BY <1>1 DEF PageSound, Mine, UpSound
<1>4. CallbacksSound(q)'
  BY <1>1 DEF PageSound, Mine, CallbacksSound, Asked, Answered
<1>5. DownSound(q)'
  BY <1>1 DEF PageSound, Mine, DownSound
<1>6. QED
  BY <1>2, <1>3, <1>4, <1>5 DEF PageSound

-----------------------------------------------------------------------------
(* Sending.                                                                *)

\* The next command of the page is registered under the next id, and put
\* after the requests on their way unless the socket has closed.
LEMMA PostFacts ==
  ASSUME Inv, NEW p \in Pages, NEW n, n = requestId[p] + 1, Post(p, n),
         socket[p] \in {"open", "closed"}, UNCHANGED <<socket, executed, resolved, down, sessions>>
  PROVE  /\ UpSound(p)' /\ CallbacksSound(p)' /\ DownSound(p)'
         /\ requestId'[p] = requestId[p] + 1
         /\ requestId' \in [Pages -> Nat] /\ up' \in [Pages -> Seq(Requested)]
         /\ CallbacksType'
         /\ \A q \in Pages : /\ DOMAIN callbacks'[q] \subseteq Nat
                             /\ \A id \in DOMAIN callbacks'[q] : callbacks'[q][id] \in Commands
         /\ \A q \in Pages \ {p} : UNCHANGED <<requestId[q], callbacks[q], up[q]>>
<1> DEFINE r == requestId[p]
           req == [id |-> r, command |-> n]
<1>1. /\ r \in Nat /\ n \in Commands /\ req \in Requested /\ req.id = r /\ req.command = n
  BY Types DEF Commands, Requested
<1>2. /\ requestId' = [requestId EXCEPT ![p] = r + 1]
      /\ callbacks' = [callbacks EXCEPT ![p] = [i \in DOMAIN callbacks[p] \cup {r} |->
                                   IF i = r THEN n ELSE callbacks[p][i]]]
      /\ up' = IF socket[p] = "open" THEN [up EXCEPT ![p] = Append(up[p], req)] ELSE up
  BY DEF Post, Register
<1> HIDE DEF req
<1>3. /\ DOMAIN callbacks'[p] = DOMAIN callbacks[p] \cup {r}
      /\ \A i \in DOMAIN callbacks'[p] : callbacks'[p][i] = IF i = r THEN n ELSE callbacks[p][i]
      /\ \A q \in Pages \ {p} : callbacks'[q] = callbacks[q]
      /\ CallbacksType'
  BY <1>2, Types DEF CallbacksType
<1>4. /\ requestId'[p] = r + 1 /\ requestId' \in [Pages -> Nat]
      /\ \A q \in Pages \ {p} : requestId'[q] = requestId[q]
  BY <1>1, <1>2, Types
<1>5. /\ up' \in [Pages -> Seq(Requested)]
      /\ \A q \in Pages \ {p} : up'[q] = up[q]
      /\ up'[p] = IF socket[p] = "open" THEN Append(up[p], req) ELSE up[p]
  BY <1>1, <1>2, Types
<1>6. /\ socket[p] = "open" =>
           /\ Len(up'[p]) = Len(up[p]) + 1
           /\ \A i \in 1 .. Len(up[p]) : up'[p][i] = up[p][i]
           /\ up'[p][Len(up[p]) + 1] = req
      /\ socket[p] # "open" => up'[p] = up[p]
  BY <1>1, <1>5, Types
<1> DEFINE u == Len(up[p])
           e == Len(executed[p])
<1>7. UpSound(p) /\ CallbacksSound(p) /\ DownSound(p) /\ u \in Nat /\ e \in Nat /\ n = r + 1
  BY Known, Types
<1>7a. /\ \A i \in 1 .. u : up[p][i].id = e + i - 1 /\ up[p][i].command = e + i
       /\ e + u <= r
       /\ socket[p] = "open" => e + u = r /\ p \in sessions
  BY <1>7 DEF UpSound
<1>7b. /\ Len(up'[p]) \in Nat
       /\ socket[p] = "open" => Len(up'[p]) = u + 1
       /\ socket[p] # "open" => Len(up'[p]) = u
  BY <1>5, <1>6, <1>7
<1> HIDE DEF r, u, e
<1>8. UpSound(p)'
  <2>1. ASSUME NEW i \in 1 .. Len(up'[p])
        PROVE  up'[p][i].id = e + i - 1 /\ up'[p][i].command = e + i
    <3>1. CASE socket[p] = "open" /\ i = u + 1
      <4>1. up'[p][i] = req
        BY <1>6, <3>1 DEF u
      <4>2. e + u = r
        BY <1>7a, <3>1
      <4>3. e + i - 1 = r /\ e + i = n
        BY <1>1, <1>7, <3>1, <4>2
      <4>4. QED
        BY <1>1, <4>1, <4>3
    <3>2. CASE ~(socket[p] = "open" /\ i = u + 1)
      <4>1. i \in 1 .. u
        BY <1>7, <1>7b, <3>2
      <4>2. up'[p][i] = up[p][i]
        BY <1>6, <4>1 DEF u
      <4>3. QED
        BY <1>7a, <4>1, <4>2
    <3>3. QED
      BY <3>1, <3>2
  <2>2. e + Len(up'[p]) <= r + 1
    BY <1>1, <1>7, <1>7a, <1>7b
  <2>3. socket[p] = "open" => e + Len(up'[p]) = r + 1 /\ p \in sessions
    BY <1>1, <1>7, <1>7a, <1>7b
  <2>4. QED
    BY <1>4, <1>7, <2>1, <2>2, <2>3 DEF UpSound, e
<1>9. CallbacksSound(p)'
  <2>1. \A id \in DOMAIN callbacks'[p] : id < r + 1 /\ callbacks'[p][id] = id + 1
    BY <1>1, <1>3, <1>7, Types DEF CallbacksSound
  <2>2. ASSUME NEW k \in resolved[p] PROVE k <= Len(executed[p]) /\ k - 1 \notin DOMAIN callbacks'[p]
    <3>1. k <= e /\ k - 1 \notin DOMAIN callbacks[p] /\ k \in Nat
      BY <1>7, Types DEF CallbacksSound, Commands, e
    <3>2. k - 1 # r
      BY <1>1, <1>7, <1>7a, <3>1
    <3>3. QED
      BY <1>3, <3>1, <3>2 DEF e
  <2>3. ASSUME NEW i \in 1 .. Len(up'[p]) PROVE up'[p][i].id \in DOMAIN callbacks'[p]
    <3>1. CASE socket[p] = "open" /\ i = u + 1
      BY <1>1, <1>3, <1>6, <3>1 DEF u
    <3>2. CASE ~(socket[p] = "open" /\ i = u + 1)
      <4>1. i \in 1 .. u
        BY <1>7, <1>7b, <3>2
      <4>2. up'[p][i] = up[p][i]
        BY <1>6, <4>1 DEF u
      <4>3. QED
        BY <1>3, <1>7, <4>1, <4>2 DEF CallbacksSound, u
    <3>3. QED
      BY <3>1, <3>2
  <2>4. ASSUME socket[p] = "open" PROVE DOMAIN callbacks'[p] = (Asked(p) \cup Answered(p))'
    <3>1. DOMAIN callbacks[p] = Asked(p) \cup Answered(p)
      BY <1>7, <2>4 DEF CallbacksSound
    <3>2. Answered(p)' = Answered(p)
      BY DEF Answered
    <3>3. DOMAIN up'[p] = 1 .. u + 1
      BY <1>5, <1>7b, <2>4
    <3>4. Asked(p)' = {up'[p][i].id : i \in 1 .. u + 1}
      BY <3>3 DEF Asked
    <3>5. Asked(p) = {up[p][i].id : i \in 1 .. u}
      BY Known DEF u
    <3>6. Asked(p)' = Asked(p) \cup {r}
      <4>1. \A i \in 1 .. u : up'[p][i].id = up[p][i].id
        BY <1>6, <2>4 DEF u
      <4>2. up'[p][u + 1].id = r
        BY <1>1, <1>6, <2>4 DEF u
      <4>3. 1 .. u + 1 = (1 .. u) \cup {u + 1}
        BY <1>7
      <4>4. QED
        BY <3>4, <3>5, <4>1, <4>2, <4>3
    <3>7. QED
      BY <1>3, <3>1, <3>2, <3>6
  <2>5. QED
    BY <1>4, <2>1, <2>2, <2>3, <2>4 DEF CallbacksSound, e
<1>10. DownSound(p)'
  BY <1>7 DEF DownSound
<1>11. ASSUME NEW q \in Pages
       PROVE  /\ DOMAIN callbacks'[q] \subseteq Nat
              /\ \A id \in DOMAIN callbacks'[q] : callbacks'[q][id] \in Commands
  <2>1. /\ DOMAIN callbacks[q] \subseteq Nat
        /\ \A id \in DOMAIN callbacks[q] : callbacks[q][id] \in Commands
    BY DEF Inv, TypeOK
  <2>2. CASE q = p
    BY <1>1, <1>3, <2>1, <2>2
  <2>3. CASE q # p
    BY <1>3, <2>1, <2>3
  <2>4. QED
    BY <2>2, <2>3
<1>12. QED
  BY <1>3, <1>4, <1>5, <1>8, <1>9, <1>10, <1>11 DEF r

\* What every client step leaves alone.
LEMMA ClientStep ==
  ASSUME Inv, NEW p \in Pages, UNCHANGED <<sessions, executed, clockVars>>,
         TypeOK', CallbacksType', PageSound(p)',
         \A q \in Pages \ {p} : UNCHANGED Mine(q) /\ down'[q] = down[q]
  PROVE  Inv'
<1>1. \A q \in Pages : PageSound(q)'
  BY PageStays
<1>2. ClockSound'
  BY DEF Inv, ClockSound, Since, clockVars
<1>3. QED
  BY <1>1, <1>2 DEF Inv

LEMMA SendCommandKeepsInv ==
  ASSUME Inv, NEW p \in Pages, SendCommand(p)
  PROVE  Inv'
<1> DEFINE n == issued[p] + 1
<1>1. /\ connected[p] => waiting[p] = <<>>
      /\ issued' = [issued EXCEPT ![p] = issued[p] + 1]
      /\ UNCHANGED <<socket, connected, resolved, down, sessions, executed, clockVars>>
  BY DEF SendCommand, serverVars
<1>2. /\ issued[p] \in Nat /\ issued'[p] = n /\ n \in Commands /\ issued' \in [Pages -> Nat]
      /\ \A q \in Pages \ {p} : issued'[q] = issued[q]
  BY <1>1, Types DEF Commands
<1>3. WaitingSound(p) /\ UpSound(p) /\ CallbacksSound(p) /\ DownSound(p)
      /\ requestId[p] \in Nat /\ Len(waiting[p]) \in Nat
  BY Known, Types
<1>4. CASE connected[p]
  <2>1. Post(p, n) /\ UNCHANGED waiting
    BY <1>2, <1>4 DEF SendCommand
  <2>2. n = requestId[p] + 1 /\ Len(waiting[p]) = 0
    BY <1>1, <1>3, <1>4 DEF WaitingSound
  <2>3. socket[p] \in {"open", "closed"}
    BY <1>3, <1>4, Types DEF UpSound
  <2>4. /\ UpSound(p)' /\ CallbacksSound(p)' /\ DownSound(p)'
        /\ requestId'[p] = requestId[p] + 1
        /\ requestId' \in [Pages -> Nat] /\ up' \in [Pages -> Seq(Requested)]
        /\ CallbacksType'
        /\ \A q \in Pages : /\ DOMAIN callbacks'[q] \subseteq Nat
                            /\ \A id \in DOMAIN callbacks'[q] : callbacks'[q][id] \in Commands
        /\ \A q \in Pages \ {p} : UNCHANGED <<requestId[q], callbacks[q], up[q]>>
    BY <1>1, <2>1, <2>2, <2>3, PostFacts
  <2>5. WaitingSound(p)'
    BY <1>2, <2>1, <2>2, <2>4 DEF WaitingSound
  <2>6. TypeOK'
    BY <1>1, <1>2, <2>1, <2>4 DEF Inv, TypeOK, clockVars
  <2>7. QED
    BY <1>1, <1>2, <2>1, <2>4, <2>5, <2>6, ClientStep DEF PageSound, Mine
<1>5. CASE ~connected[p]
  <2>1. /\ waiting' = [waiting EXCEPT ![p] = Append(waiting[p], n)]
        /\ UNCHANGED <<up, requestId, callbacks>>
    BY <1>2, <1>5 DEF SendCommand
  <2>2. /\ waiting' \in [Pages -> Seq(Commands)] /\ waiting'[p] = Append(waiting[p], n)
        /\ \A q \in Pages \ {p} : waiting'[q] = waiting[q]
    BY <1>2, <2>1, Types
  <2>3. /\ Len(waiting'[p]) = Len(waiting[p]) + 1
        /\ \A i \in 1 .. Len(waiting[p]) : waiting'[p][i] = waiting[p][i]
        /\ waiting'[p][Len(waiting[p]) + 1] = n
    BY <1>2, <2>2, Types
  <2>4. WaitingSound(p)'
    <3>1. /\ requestId[p] + Len(waiting[p]) = issued[p]
          /\ \A i \in 1 .. Len(waiting[p]) : waiting[p][i] = requestId[p] + i
      BY <1>3 DEF WaitingSound
    <3>2. requestId[p] + Len(waiting'[p]) = n
      <4>1. \A a, b \in Nat : a + (b + 1) = (a + b) + 1
        OBVIOUS
      <4>2. requestId[p] + (Len(waiting[p]) + 1) = (requestId[p] + Len(waiting[p])) + 1
        BY <1>3, <4>1
      <4>3. QED
        BY <2>3, <3>1, <4>2
    <3>3. ASSUME NEW i \in 1 .. Len(waiting'[p]) PROVE waiting'[p][i] = requestId[p] + i
      <4>1. CASE i = Len(waiting[p]) + 1
        BY <1>2, <1>3, <2>3, <3>1, <3>2, <4>1
      <4>2. CASE i # Len(waiting[p]) + 1
        <5>1. i \in 1 .. Len(waiting[p])
          BY <1>3, <2>3, <4>2
        <5>2. QED
          BY <2>3, <3>1, <5>1
      <4>3. QED
        BY <4>1, <4>2
    <3>4. QED
      BY <1>2, <2>1, <3>2, <3>3 DEF WaitingSound
  <2>5. UpSound(p)' /\ CallbacksSound(p)' /\ DownSound(p)'
    <3>1. UpSound(p)'
      BY <1>1, <1>3, <2>1 DEF UpSound
    <3>2. CallbacksSound(p)'
      BY <1>1, <1>3, <2>1 DEF CallbacksSound, Asked, Answered
    <3>3. DownSound(p)'
      BY <1>1, <1>3, <2>1 DEF DownSound
    <3>4. QED
      BY <3>1, <3>2, <3>3
  <2>6. TypeOK' /\ CallbacksType'
    BY <1>1, <1>2, <2>1, <2>2 DEF Inv, TypeOK, clockVars, CallbacksType
  <2>7. QED
    BY <1>1, <1>2, <2>1, <2>2, <2>4, <2>5, <2>6, ClientStep DEF PageSound, Mine
<1>6. QED
  BY <1>4, <1>5

LEMMA ThenKeepsInv ==
  ASSUME Inv, NEW p \in Pages, Then(p)
  PROVE  Inv'
<1>1. /\ socket[p] = "open" /\ waiting[p] # <<>>
      /\ connected' = [connected EXCEPT ![p] = TRUE]
      /\ waiting' = [waiting EXCEPT ![p] = Tail(waiting[p])]
      /\ Post(p, Head(waiting[p]))
      /\ UNCHANGED <<socket, issued, resolved, down, sessions, executed, clockVars>>
  BY DEF Then, serverVars
<1>2. /\ Len(waiting[p]) \in Nat /\ 1 \in 1 .. Len(waiting[p]) /\ Head(waiting[p]) = waiting[p][1]
      /\ Tail(waiting[p]) \in Seq(Commands) /\ Len(Tail(waiting[p])) = Len(waiting[p]) - 1
      /\ \A i \in 1 .. Len(waiting[p]) - 1 : Tail(waiting[p])[i] = waiting[p][i + 1]
  BY <1>1, Types
<1>3. WaitingSound(p) /\ requestId[p] \in Nat
  BY Known, Types
<1>4. Head(waiting[p]) = requestId[p] + 1
  BY <1>2, <1>3 DEF WaitingSound
<1>5. /\ UpSound(p)' /\ CallbacksSound(p)' /\ DownSound(p)'
      /\ requestId'[p] = requestId[p] + 1
      /\ requestId' \in [Pages -> Nat] /\ up' \in [Pages -> Seq(Requested)]
      /\ CallbacksType'
      /\ \A q \in Pages : /\ DOMAIN callbacks'[q] \subseteq Nat
                          /\ \A id \in DOMAIN callbacks'[q] : callbacks'[q][id] \in Commands
      /\ \A q \in Pages \ {p} : UNCHANGED <<requestId[q], callbacks[q], up[q]>>
  BY <1>1, <1>4, PostFacts
<1>6. /\ waiting' \in [Pages -> Seq(Commands)] /\ waiting'[p] = Tail(waiting[p])
      /\ connected' \in [Pages -> BOOLEAN]
      /\ \A q \in Pages \ {p} : waiting'[q] = waiting[q] /\ connected'[q] = connected[q]
  BY <1>1, <1>2, Types
<1>7. WaitingSound(p)'
  <2>1. requestId'[p] + Len(waiting'[p]) = issued[p]
    <3>1. requestId[p] + Len(waiting[p]) = issued[p]
      BY <1>3 DEF WaitingSound
    <3>2. Len(waiting'[p]) = Len(waiting[p]) - 1 /\ requestId'[p] = requestId[p] + 1
      BY <1>2, <1>5, <1>6
    <3>3. requestId[p] \in Nat /\ Len(waiting[p]) \in Nat
      BY <1>2, <1>3
    <3>4. QED
      BY <3>1, <3>2, <3>3
  <2>2. ASSUME NEW i \in 1 .. Len(waiting'[p]) PROVE waiting'[p][i] = requestId'[p] + i
    <3>1. i + 1 \in 1 .. Len(waiting[p]) /\ waiting'[p][i] = waiting[p][i + 1]
      BY <1>2, <1>6
    <3>2. waiting[p][i + 1] = requestId[p] + (i + 1)
      BY <1>3, <3>1 DEF WaitingSound
    <3>3. requestId'[p] = requestId[p] + 1 /\ i \in Nat /\ requestId[p] \in Nat
      BY <1>3, <1>5
    <3>4. requestId'[p] + i = requestId[p] + (i + 1)
      BY <3>3
    <3>5. QED
      BY <3>1, <3>2, <3>4
  <2>3. QED
    BY <1>1, <2>1, <2>2 DEF WaitingSound
<1>8. TypeOK'
  BY <1>1, <1>5, <1>6 DEF Inv, TypeOK, clockVars
<1>9. QED
  BY <1>1, <1>5, <1>6, <1>7, <1>8, ClientStep DEF PageSound, Mine

-----------------------------------------------------------------------------
(* The socket.                                                             *)

\* Before the socket opens, nothing has been sent.
LEMMA NothingSent ==
  ASSUME Inv, NEW p \in Pages, socket[p] \in {"connecting", "failed"}
  PROVE  requestId[p] = 0 /\ Len(executed[p]) = 0 /\ Len(up[p]) = 0
<1> DEFINE e == Len(executed[p])
           u == Len(up[p])
<1>1. requestId[p] = 0 /\ e + u <= requestId[p]
  BY Known DEF UpSound
<1>2. e \in Nat /\ u \in Nat
  BY Types
<1> HIDE DEF e, u
<1>3. e + u <= 0
  BY <1>1
<1>4. e = 0 /\ u = 0
  BY <1>2, <1>3
<1>5. QED
  BY <1>1, <1>4 DEF e, u

LEMMA OnOpenKeepsInv ==
  ASSUME Inv, NEW p \in Pages, OnOpen(p)
  PROVE  Inv'
<1>1. /\ socket[p] = "connecting" /\ p \in sessions
      /\ socket' = [socket EXCEPT ![p] = "open"]
      /\ UNCHANGED <<connected, waiting, requestId, callbacks, issued, resolved, up, down>>
      /\ UNCHANGED <<sessions, executed, clockVars>>
  BY DEF OnOpen, serverVars
<1>2. WaitingSound(p) /\ UpSound(p) /\ CallbacksSound(p) /\ DownSound(p)
  BY Known
<1>3. socket'[p] = "open" /\ socket' \in [Pages -> {"connecting", "open", "failed", "closed"}]
      /\ \A q \in Pages \ {p} : socket'[q] = socket[q]
  BY <1>1, Types
<1>4. requestId[p] = 0 /\ Len(executed[p]) = 0 /\ Len(up[p]) = 0
  BY <1>1, NothingSent
<1>5. DOMAIN callbacks[p] = {}
  <2>1. \A id \in DOMAIN callbacks[p] : id < 0 /\ id \in Nat
    BY <1>2, <1>4, Types DEF CallbacksSound
  <2>2. QED
    BY <2>1
<1>6. Asked(p) = {} /\ Answered(p) = {}
  <2>1. Asked(p) = {}
    BY <1>4, Known
  <2>2. \A i \in 1 .. Len(down[p]) : ~IsAnswer(down[p][i])
    <3>1. \A i \in 1 .. Len(down[p]) : IsAnswer(down[p][i]) => down[p][i].id \in Nat /\ down[p][i].id < 0
      BY <1>2, <1>4, Types, Messages DEF DownSound
    <3>2. QED
      BY <3>1
  <2>3. Answered(p) = {}
    BY <2>2, Known
  <2>4. QED
    BY <2>1, <2>3
<1>7. UpSound(p)'
  BY <1>1, <1>2, <1>3, <1>4 DEF UpSound
<1>8. CallbacksSound(p)'
  <2>1. (Asked(p) \cup Answered(p))' = {}
    BY <1>1, <1>6 DEF Asked, Answered
  <2>2. QED
    BY <1>1, <1>2, <1>5, <2>1 DEF CallbacksSound
<1>9. WaitingSound(p)' /\ DownSound(p)'
  BY <1>1, <1>2 DEF WaitingSound, DownSound
<1>10. TypeOK' /\ CallbacksType'
  BY <1>1, <1>3 DEF Inv, TypeOK, clockVars, CallbacksType
<1>11. QED
  BY <1>1, <1>3, <1>7, <1>8, <1>9, <1>10, ClientStep DEF PageSound, Mine

LEMMA OnErrorKeepsInv ==
  ASSUME Inv, NEW p \in Pages, OnError(p)
  PROVE  Inv'
<1>1. /\ socket[p] = "connecting"
      /\ socket' = [socket EXCEPT ![p] = "failed"]
      /\ UNCHANGED <<connected, waiting, requestId, callbacks, issued, resolved, up, down>>
      /\ UNCHANGED <<sessions, executed, clockVars>>
  BY DEF OnError, serverVars
<1>2. WaitingSound(p) /\ UpSound(p) /\ CallbacksSound(p) /\ DownSound(p)
  BY Known
<1>3. socket'[p] = "failed" /\ socket' \in [Pages -> {"connecting", "open", "failed", "closed"}]
      /\ \A q \in Pages \ {p} : socket'[q] = socket[q]
  BY <1>1, Types
<1>4. UpSound(p)'
  BY <1>1, <1>2, <1>3 DEF UpSound
<1>5. CallbacksSound(p)'
  BY <1>1, <1>2, <1>3 DEF CallbacksSound
<1>6. WaitingSound(p)'
  BY <1>1, <1>2 DEF WaitingSound
<1>6a. DownSound(p)'
  BY <1>1, <1>2 DEF DownSound
<1>7. TypeOK' /\ CallbacksType'
  BY <1>1, <1>3 DEF Inv, TypeOK, clockVars, CallbacksType
<1>8. QED
  BY <1>1, <1>3, <1>4, <1>5, <1>6, <1>6a, <1>7, ClientStep DEF PageSound, Mine

LEMMA OnCloseKeepsInv ==
  ASSUME Inv, NEW p \in Pages, OnClose(p)
  PROVE  Inv'
<1>1. /\ socket[p] = "open"
      /\ socket' = [socket EXCEPT ![p] = "closed"]
      /\ down' = [down EXCEPT ![p] = <<>>]
      /\ UNCHANGED <<connected, waiting, requestId, callbacks, issued, resolved, up>>
      /\ UNCHANGED <<sessions, executed, clockVars>>
  BY DEF OnClose, serverVars
<1>2. WaitingSound(p) /\ UpSound(p) /\ CallbacksSound(p) /\ DownSound(p)
  BY Known
<1>3. socket'[p] = "closed" /\ socket' \in [Pages -> {"connecting", "open", "failed", "closed"}]
      /\ \A q \in Pages \ {p} : socket'[q] = socket[q]
  BY <1>1, Types
<1>4. down'[p] = <<>> /\ down' \in [Pages -> Seq(Message)]
      /\ \A q \in Pages \ {p} : down'[q] = down[q]
  BY <1>1, Types
<1>5. UpSound(p)'
  BY <1>1, <1>2, <1>3 DEF UpSound
<1>6. CallbacksSound(p)'
  BY <1>1, <1>2, <1>3 DEF CallbacksSound
<1>7. WaitingSound(p)'
  BY <1>1, <1>2 DEF WaitingSound
<1>8. DownSound(p)'
  BY <1>4 DEF DownSound
<1>9. TypeOK' /\ CallbacksType'
  BY <1>1, <1>3, <1>4 DEF Inv, TypeOK, clockVars, CallbacksType, Message
<1>10. QED
  BY <1>1, <1>3, <1>4, <1>5, <1>6, <1>7, <1>8, <1>9, ClientStep DEF PageSound, Mine

LEMMA CreateSessionKeepsInv ==
  ASSUME Inv, NEW p \in Pages, CreateSession(p)
  PROVE  Inv'
<1>1. PICK greeting \in {<<>>, <<Number>>} : down' = [down EXCEPT ![p] = greeting]
  BY DEF CreateSession
<1>2. /\ socket[p] = "connecting"
      /\ sessions' = sessions \cup {p} /\ start' = [start EXCEPT ![p] = now]
      /\ UNCHANGED <<socket, connected, waiting, requestId, callbacks, issued, resolved, up>>
      /\ UNCHANGED <<executed, time, now, simulated, updates>>
  BY DEF CreateSession, clientVars
<1>3. WaitingSound(p) /\ UpSound(p) /\ CallbacksSound(p) /\ DownSound(p)
  BY Known
<1>4. /\ Len(greeting) \in Nat /\ greeting \in Seq(Message)
      /\ \A i \in 1 .. Len(greeting) : greeting[i] = Number
  <2>1. CASE greeting = <<>>
    <3>1. Len(greeting) = 0
      BY <2>1
    <3>2. QED
      BY <2>1, <3>1
  <2>2. CASE greeting = <<Number>>
    <3>1. Number \in Message
      BY Messages
    <3>2. Len(greeting) = 1 /\ greeting[1] = Number
      BY <2>2
    <3>3. <<Number>> \in Seq(Message)
      BY <3>1
    <3>4. QED
      BY <2>2, <3>2, <3>3
  <2>3. QED
    BY <1>1, <2>1, <2>2
<1>5. down'[p] = greeting /\ down' \in [Pages -> Seq(Message)]
      /\ \A q \in Pages \ {p} : down'[q] = down[q]
  BY <1>1, <1>4, Types
<1>6. DownSound(p)'
  <2>1. \A i \in 1 .. Len(greeting) : ~IsAnswer(greeting[i])
    BY <1>4, Messages
  <2>2. \A i \in 1 .. Len(greeting) : \A n \in Commands : greeting[i] # Caused(p, n)
    BY <1>4, Messages
  <2>3. resolved[p] \subseteq Commands
    BY Types
  <2>4. QED
    BY <1>2, <1>5, <2>1, <2>2, <2>3 DEF DownSound
<1>7. WaitingSound(p)'
  BY <1>2, <1>3 DEF WaitingSound
<1>8. UpSound(p)'
  BY <1>2, <1>3 DEF UpSound
<1>9. CallbacksSound(p)'
  BY <1>2, <1>3 DEF CallbacksSound
<1>10. ClockSound'
  <2>1. Len(executed[p]) = 0
    BY <1>2, NothingSent
  <2>2. time[p] = 0 /\ Len(updates[p]) = 0 /\ now \in Nat
    BY <2>1 DEF Inv, ClockSound, TypeOK
  <2>3. /\ start'[p] = now /\ \A q \in Pages \ {p} : start'[q] = start[q]
    BY <1>2 DEF Inv, TypeOK
  <2>4. \A q \in Pages \ {p} : \A k \in 1 .. Len(updates[q]) : Since(q, k)' = Since(q, k)
    BY <1>2, <2>3 DEF Since
  <2>5. QED
    BY <1>2, <2>2, <2>3, <2>4 DEF Inv, ClockSound
<1>11. TypeOK' /\ CallbacksType'
  BY <1>2, <1>5 DEF Inv, TypeOK, CallbacksType, Message
<1>12. \A q \in Pages \ {p} : PageSound(q)'
  BY <1>2, <1>5, PageStays DEF Mine
<1>13. QED
  BY <1>6, <1>7, <1>8, <1>9, <1>10, <1>11, <1>12 DEF Inv, PageSound

LEMMA TickKeepsInv ==
  ASSUME Inv, Tick
  PROVE  Inv'
<1>1. /\ now' = now + 1
      /\ UNCHANGED <<socket, connected, waiting, requestId, callbacks, issued, resolved, up, down>>
      /\ UNCHANGED <<sessions, executed, start, time, simulated, updates>>
  BY DEF Tick, clientVars
<1>2. \A q \in Pages : PageSound(q)'
  BY <1>1, PageStays DEF Mine
<1>3. ClockSound'
  BY <1>1 DEF Inv, ClockSound, TypeOK, Since
<1>4. now' \in Nat
  BY <1>1 DEF Inv, TypeOK
<1>5. TypeOK'
  BY <1>1, <1>4 DEF Inv, TypeOK
<1>6. CallbacksType'
  BY <1>1 DEF Inv, CallbacksType
<1>7. QED
  BY <1>2, <1>3, <1>5, <1>6 DEF Inv

-----------------------------------------------------------------------------
(* Messages to the page.                                                   *)

\* What is left once the first message is taken.
LEMMA TakeFirst ==
  ASSUME Inv, NEW p \in Pages, down[p] # <<>>
  PROVE  /\ Tail(down[p]) \in Seq(Message) /\ Head(down[p]) = down[p][1]
         /\ Len(down[p]) \in Nat /\ 1 \in 1 .. Len(down[p]) /\ down[p][1] \in Message
         /\ Len(Tail(down[p])) \in Nat /\ Len(Tail(down[p])) = Len(down[p]) - 1
         /\ \A i \in 1 .. Len(Tail(down[p])) :
              i + 1 \in 1 .. Len(down[p]) /\ i + 1 # 1 /\ Tail(down[p])[i] = down[p][i + 1]
<1>1. down[p] \in Seq(Message)
  BY Types
<1>2. Len(down[p]) \in Nat /\ Len(down[p]) # 0
  BY <1>1
<1>3. /\ Tail(down[p]) \in Seq(Message) /\ Head(down[p]) = down[p][1]
      /\ Len(Tail(down[p])) = Len(down[p]) - 1
      /\ \A i \in 1 .. Len(down[p]) - 1 : Tail(down[p])[i] = down[p][i + 1]
  BY <1>1
<1>4. 1 \in 1 .. Len(down[p])
  BY <1>2
<1>5. \A i \in 1 .. Len(down[p]) - 1 : i + 1 \in 1 .. Len(down[p]) /\ i + 1 # 1
  BY <1>2
<1>6. down[p][1] \in Message
  BY <1>4, Types
<1>7. Len(down[p]) - 1 \in Nat
  BY <1>2, <1>4
<1>8. QED
  BY <1>2, <1>3, <1>4, <1>5, <1>6, <1>7

\* The answers after the first message.
LEMMA AnswersLeft ==
  ASSUME Inv, NEW p \in Pages, down[p] # <<>>, down' = [down EXCEPT ![p] = Tail(down[p])]
  PROVE  /\ down' \in [Pages -> Seq(Message)] /\ down'[p] = Tail(down[p])
         /\ \A q \in Pages \ {p} : down'[q] = down[q]
         /\ IsAnswer(down[p][1]) =>
              /\ down[p][1].id \in Answered(p) /\ down[p][1].id \in Nat
              /\ Answered(p)' = Answered(p) \ {down[p][1].id}
         /\ ~IsAnswer(down[p][1]) => Answered(p)' = Answered(p)
<1> DEFINE s == down[p]
           t == Tail(down[p])
<1>1. /\ t \in Seq(Message) /\ Len(s) \in Nat /\ 1 \in 1 .. Len(s) /\ s[1] \in Message
      /\ Len(t) \in Nat /\ Len(t) = Len(s) - 1
      /\ \A i \in 1 .. Len(t) : i + 1 \in 1 .. Len(s) /\ i + 1 # 1 /\ t[i] = s[i + 1]
  BY TakeFirst
<1>2. /\ down' \in [Pages -> Seq(Message)] /\ down'[p] = t
      /\ \A q \in Pages \ {p} : down'[q] = down[q]
  BY <1>1, Types
<1>3. \A i, j \in 1 .. Len(s) : IsAnswer(s[i]) /\ IsAnswer(s[j]) /\ s[i].id = s[j].id => i = j
  BY Known DEF DownSound
<1>4. Answered(p) = {s[i].id : i \in {j \in 1 .. Len(s) : IsAnswer(s[j])}}
  BY Known
<1>5. Answered(p)' = {t[i].id : i \in {j \in 1 .. Len(t) : IsAnswer(t[j])}}
  <2>1. DOMAIN t = 1 .. Len(t)
    BY <1>1
  <2>2. QED
    BY <1>2, <2>1 DEF Answered, IsAnswer
<1> HIDE DEF s, t
<1>6. \A i \in 1 .. Len(s) : i = 1 \/ (i - 1 \in 1 .. Len(t) /\ t[i - 1] = s[i])
  <2>1. ASSUME NEW i \in 1 .. Len(s), i # 1 PROVE i - 1 \in 1 .. Len(t) /\ t[i - 1] = s[i]
    <3>1. i - 1 \in 1 .. Len(t) /\ (i - 1) + 1 = i
      BY <1>1, <2>1
    <3>2. t[i - 1] = s[(i - 1) + 1]
      BY <1>1, <3>1
    <3>3. QED
      BY <3>1, <3>2
  <2>2. QED
    BY <2>1
<1>7. ASSUME NEW x \in Answered(p)'
      PROVE  x \in Answered(p) /\ (IsAnswer(s[1]) => x # s[1].id)
  <2>1. PICK i \in 1 .. Len(t) : IsAnswer(t[i]) /\ x = t[i].id
    BY <1>5, <1>7
  <2>2. i + 1 \in 1 .. Len(s) /\ i + 1 # 1 /\ IsAnswer(s[i + 1]) /\ x = s[i + 1].id
    BY <1>1, <2>1
  <2>3. QED
    BY <1>1, <1>3, <1>4, <2>2
<1>8. ASSUME NEW x \in Answered(p), ~(IsAnswer(s[1]) /\ x = s[1].id)
      PROVE  x \in Answered(p)'
  <2>1. PICK i \in 1 .. Len(s) : IsAnswer(s[i]) /\ x = s[i].id
    BY <1>4, <1>8
  <2>2. i - 1 \in 1 .. Len(t) /\ t[i - 1] = s[i]
    BY <1>6, <1>8, <2>1
  <2>3. QED
    BY <1>5, <2>1, <2>2
<1>9. IsAnswer(s[1]) => s[1].id \in Answered(p) /\ s[1].id \in Nat
  BY <1>1, <1>4, Messages
<1>10. QED
  BY <1>2, <1>7, <1>8, <1>9 DEF s, t

\* What a page gets is resolved as the answer to its own command, or is no
\* answer.
LEMMA OnMessageKeepsInv ==
  ASSUME Inv, NEW p \in Pages, OnMessage(p)
  PROVE  Inv'
<1> DEFINE s == down[p]
           t == Tail(down[p])
           e == Len(executed[p])
<1>1. /\ socket[p] = "open" /\ s # <<>> /\ down' = [down EXCEPT ![p] = t]
      /\ Greet(p, Head(s))
      /\ UNCHANGED <<socket, waiting, requestId, issued, up>>
      /\ UNCHANGED <<sessions, executed, clockVars>>
  BY DEF OnMessage, serverVars
<1>2. WaitingSound(p) /\ UpSound(p) /\ CallbacksSound(p) /\ DownSound(p)
  BY Known
<1>3. /\ Head(s) = s[1] /\ Len(s) \in Nat /\ 1 \in 1 .. Len(s) /\ s[1] \in Message
      /\ Len(t) \in Nat
      /\ \A i \in 1 .. Len(t) : i + 1 \in 1 .. Len(s) /\ i + 1 # 1 /\ t[i] = s[i + 1]
  BY <1>1, TakeFirst
<1>4. /\ down' \in [Pages -> Seq(Message)] /\ down'[p] = t
      /\ \A q \in Pages \ {p} : down'[q] = down[q]
  BY <1>1, AnswersLeft
<1>5. /\ connected' \in [Pages -> BOOLEAN]
      /\ \A q \in Pages \ {p} : connected'[q] = connected[q]
  BY <1>1, Types DEF Greet
<1>6. DOMAIN callbacks[p] = Asked(p) \cup Answered(p)
  BY <1>1, <1>2 DEF CallbacksSound
<1>7. Asked(p)' = Asked(p)
  BY <1>1 DEF Asked
<1>8. WaitingSound(p)' /\ UpSound(p)'
  BY <1>1, <1>2 DEF WaitingSound, UpSound
<1>9. /\ \A i \in 1 .. Len(t) : IsAnswer(t[i]) => t[i].id < e
      /\ \A i, j \in 1 .. Len(t) :
           IsAnswer(t[i]) /\ IsAnswer(t[j]) /\ t[i].id = t[j].id => i = j
      /\ \A i, j \in 1 .. Len(t) : \A n \in Commands :
           IsAnswer(t[i]) /\ t[j] = Caused(p, n) /\ i < j => t[i].id # n - 1
  <2>1. \A i \in 1 .. Len(t) : IsAnswer(t[i]) => t[i].id < e
    BY <1>2, <1>3 DEF DownSound
  <2>2. \A i, j \in 1 .. Len(t) :
          IsAnswer(t[i]) /\ IsAnswer(t[j]) /\ t[i].id = t[j].id => i = j
    <3>1. SUFFICES ASSUME NEW i \in 1 .. Len(t), NEW j \in 1 .. Len(t),
                          IsAnswer(t[i]), IsAnswer(t[j]), t[i].id = t[j].id
                   PROVE  i = j
      OBVIOUS
    <3>2. i + 1 = j + 1
      BY <1>2, <1>3, <3>1 DEF DownSound
    <3>3. QED
      BY <3>2
  <2>3. \A i, j \in 1 .. Len(t) : \A n \in Commands :
          IsAnswer(t[i]) /\ t[j] = Caused(p, n) /\ i < j => t[i].id # n - 1
    <3>1. SUFFICES ASSUME NEW i \in 1 .. Len(t), NEW j \in 1 .. Len(t), NEW n \in Commands,
                          IsAnswer(t[i]), t[j] = Caused(p, n), i < j
                   PROVE  t[i].id # n - 1
      OBVIOUS
    <3>2. i + 1 < j + 1
      BY <3>1
    <3>3. QED
      BY <1>2, <1>3, <3>1, <3>2 DEF DownSound
  <2>4. QED
    BY <2>1, <2>2, <2>3
<1>10. CASE IsAnswer(s[1])
  <2> DEFINE id == s[1].id
  <2>1. id \in Answered(p) /\ id \in Nat /\ Answered(p)' = Answered(p) \ {id}
    BY <1>1, <1>10, AnswersLeft
  <2>2. id \in DOMAIN callbacks[p]
    BY <1>6, <2>1
  <2>3. callbacks[p][id] = id + 1
    BY <1>2, <2>2 DEF CallbacksSound
  <2>4. id < e
    BY <1>2, <1>3, <1>10 DEF DownSound
  <2>5. Settle(p, id)
    BY <1>3, <1>10, <2>2 DEF OnMessage, IsAnswer
  <2>6. /\ resolved' = [resolved EXCEPT ![p] = resolved[p] \cup {id + 1}]
        /\ callbacks' = [callbacks EXCEPT ![p] =
                           [i \in DOMAIN callbacks[p] \ {id} |-> callbacks[p][i]]]
    BY <2>3, <2>5 DEF Settle
  <2>7. id + 1 \in Commands
    BY <2>1 DEF Commands
  <2>8. /\ resolved'[p] = resolved[p] \cup {id + 1} /\ resolved' \in [Pages -> SUBSET Commands]
        /\ \A q \in Pages \ {p} : resolved'[q] = resolved[q]
    BY <2>6, <2>7, Types
  <2>9. /\ DOMAIN callbacks'[p] = DOMAIN callbacks[p] \ {id}
        /\ \A i \in DOMAIN callbacks'[p] : callbacks'[p][i] = callbacks[p][i]
        /\ \A q \in Pages \ {p} : callbacks'[q] = callbacks[q]
        /\ CallbacksType'
    BY <2>6, Types DEF CallbacksType
  <2>10. id \notin Asked(p)
    <3>1. SUFFICES ASSUME NEW i \in 1 .. Len(up[p]), up[p][i].id = id
                   PROVE  FALSE
      BY Known
    <3>2. id = e + i - 1
      BY <1>2, <3>1 DEF UpSound
    <3>3. e \in Nat /\ i \in Nat /\ i >= 1
      BY Types
    <3>4. QED
      BY <2>1, <2>4, <3>2, <3>3
  <2>11. CallbacksSound(p)'
    <3>1. \A i \in DOMAIN callbacks'[p] : i < requestId[p] /\ callbacks'[p][i] = i + 1
      BY <1>2, <2>9 DEF CallbacksSound
    <3>2. ASSUME NEW n \in resolved'[p] PROVE n <= e /\ n - 1 \notin DOMAIN callbacks'[p]
      <4>1. CASE n = id + 1
        <5>1. e \in Nat /\ id \in Nat /\ n - 1 = id
          BY <2>1, <4>1, Types
        <5>2. QED
          BY <2>4, <2>9, <4>1, <5>1
      <4>2. CASE n # id + 1
        <5>1. n \in resolved[p]
          BY <2>8, <4>2
        <5>2. QED
          BY <1>2, <2>9, <5>1 DEF CallbacksSound
      <4>3. QED
        BY <4>1, <4>2
    <3>3. DOMAIN callbacks'[p] = (Asked(p) \cup Answered(p))'
      BY <1>6, <1>7, <2>1, <2>9, <2>10
    <3>4. \A i \in 1 .. Len(up[p]) : up[p][i].id \in DOMAIN callbacks'[p]
      <4>1. \A i \in 1 .. Len(up[p]) : up[p][i].id \in Asked(p)
        BY Known
      <4>2. QED
        BY <1>7, <3>3, <4>1
    <3>5. QED
      BY <1>1, <3>1, <3>2, <3>3, <3>4 DEF CallbacksSound
  <2>12. DownSound(p)'
    <3>1. ASSUME NEW j \in 1 .. Len(t), NEW n \in resolved'[p] PROVE t[j] # Caused(p, n)
      <4>1. CASE n = id + 1
        <5>1. j + 1 \in 1 .. Len(s) /\ 1 < j + 1 /\ t[j] = s[j + 1]
          BY <1>3
        <5>2. n - 1 = id
          BY <2>1, <4>1
        <5>3. QED
          BY <1>2, <1>3, <1>10, <2>7, <4>1, <5>1, <5>2 DEF DownSound
      <4>2. CASE n # id + 1
        <5>1. n \in resolved[p]
          BY <2>8, <4>2
        <5>2. QED
          BY <1>2, <1>3, <5>1 DEF DownSound
      <4>3. QED
        BY <4>1, <4>2
    <3>2. \A j \in 1 .. Len(t) : \A n \in resolved'[p] : t[j] # Caused(p, n)
      BY <3>1
    <3>3. QED
      BY <1>1, <1>4, <1>9, <3>2 DEF DownSound
  <2>13. ASSUME NEW q \in Pages
         PROVE  /\ DOMAIN callbacks'[q] \subseteq Nat
                /\ \A i \in DOMAIN callbacks'[q] : callbacks'[q][i] \in Commands
    <3>1. /\ DOMAIN callbacks[q] \subseteq Nat
          /\ \A i \in DOMAIN callbacks[q] : callbacks[q][i] \in Commands
      BY DEF Inv, TypeOK
    <3>2. CASE q = p
      BY <2>9, <3>1, <3>2
    <3>3. CASE q # p
      BY <2>9, <3>1, <3>3
    <3>4. QED
      BY <3>2, <3>3
  <2>14. TypeOK'
    BY <1>1, <1>4, <1>5, <2>8, <2>13 DEF Inv, TypeOK, clockVars, Message
  <2>15. QED
    BY <1>1, <1>4, <1>5, <1>8, <2>8, <2>9, <2>11, <2>12, <2>14, ClientStep DEF PageSound, Mine
<1>11. CASE ~IsAnswer(s[1])
  <2>1. Answered(p)' = Answered(p)
    BY <1>1, <1>11, AnswersLeft
  <2>2. UNCHANGED <<resolved, callbacks>>
    BY <1>3, <1>11 DEF OnMessage, IsAnswer
  <2>3. CallbacksSound(p)'
    BY <1>1, <1>2, <1>7, <2>1, <2>2 DEF CallbacksSound
  <2>4. DownSound(p)'
    <3>1. \A j \in 1 .. Len(t) : \A n \in resolved[p] : t[j] # Caused(p, n)
      BY <1>2, <1>3 DEF DownSound
    <3>2. resolved'[p] = resolved[p]
      BY <2>2
    <3>3. \A j \in 1 .. Len(t) : \A n \in resolved'[p] : t[j] # Caused(p, n)
      BY <3>1, <3>2
    <3>4. QED
      BY <1>1, <1>4, <1>9, <3>3 DEF DownSound
  <2>5. TypeOK' /\ CallbacksType'
    BY <1>1, <1>4, <1>5, <2>2 DEF Inv, TypeOK, clockVars, CallbacksType, Message
  <2>6. QED
    BY <1>1, <1>4, <1>5, <1>8, <2>2, <2>3, <2>4, <2>5, ClientStep DEF PageSound, Mine
<1>12. QED
  BY <1>10, <1>11

-----------------------------------------------------------------------------
(* The server carries a command out.                                       *)

\* The next request of a page is that of its next command.
LEMMA NextRequest ==
  ASSUME Inv, NEW p \in Pages, up[p] # <<>>
  PROVE  /\ Head(up[p]).id = Len(executed[p]) /\ Head(up[p]).command = Len(executed[p]) + 1
         /\ Tail(up[p]) \in Seq(Requested) /\ Len(Tail(up[p])) \in Nat
         /\ Len(Tail(up[p])) = Len(up[p]) - 1
         /\ Asked(p) = {Len(executed[p])} \cup {Tail(up[p])[i].id : i \in 1 .. Len(Tail(up[p]))}
         /\ \A i \in 1 .. Len(Tail(up[p])) :
              i + 1 \in 1 .. Len(up[p]) /\ Tail(up[p])[i] = up[p][i + 1]
<1> DEFINE s == up[p]
           t == Tail(up[p])
           e == Len(executed[p])
<1>1. s \in Seq(Requested) /\ e \in Nat
  BY Types
<1>2. Len(s) \in Nat /\ Len(s) # 0
  BY <1>1
<1>3. /\ t \in Seq(Requested) /\ Head(s) = s[1] /\ Len(t) = Len(s) - 1
      /\ \A i \in 1 .. Len(s) - 1 : t[i] = s[i + 1]
  BY <1>1
<1>4. 1 \in 1 .. Len(s) /\ Len(t) \in Nat
  BY <1>2, <1>3
<1>5. \A i \in 1 .. Len(t) : i + 1 \in 1 .. Len(s) /\ t[i] = s[i + 1]
  BY <1>2, <1>3
<1>6. \A i \in 1 .. Len(s) : s[i].id = e + i - 1 /\ s[i].command = e + i
  BY Known DEF UpSound
<1>7. s[1].id = e /\ s[1].command = e + 1
  BY <1>1, <1>4, <1>6
<1>8. Asked(p) = {s[i].id : i \in 1 .. Len(s)}
  BY Known
<1> HIDE DEF s, t, e
<1>9. \A i \in 1 .. Len(s) : i = 1 \/ \E k \in 1 .. Len(t) : s[i] = t[k]
  <2>1. SUFFICES ASSUME NEW i \in 1 .. Len(s), i # 1
                 PROVE  i - 1 \in 1 .. Len(t) /\ s[i] = t[i - 1]
    OBVIOUS
  <2>2. i - 1 \in 1 .. Len(t) /\ (i - 1) + 1 = i
    BY <1>2, <1>3, <2>1
  <2>3. t[i - 1] = s[(i - 1) + 1]
    BY <1>5, <2>2
  <2>4. QED
    BY <2>2, <2>3
<1>10. Asked(p) = {e} \cup {t[i].id : i \in 1 .. Len(t)}
  <2>1. ASSUME NEW x \in Asked(p) PROVE x = e \/ \E k \in 1 .. Len(t) : x = t[k].id
    <3>1. PICK i \in 1 .. Len(s) : x = s[i].id
      BY <1>8, <2>1
    <3>2. QED
      BY <1>7, <1>9, <3>1
  <2>2. e \in Asked(p) /\ \A k \in 1 .. Len(t) : t[k].id \in Asked(p)
    BY <1>4, <1>5, <1>7, <1>8
  <2>3. QED
    BY <2>1, <2>2
<1>11. QED
  BY <1>3, <1>4, <1>5, <1>7, <1>10 DEF s, t, e

\* A page is sent at most the event of the command, and then, if the command is
\* its own, the answer.
LEMMA ReplyFacts ==
  ASSUME Inv, NEW p \in Pages, NEW r, r.id \in Nat, r.command \in Commands, NEW audience, Reply(p, r, audience)
  PROVE  /\ down' \in [Pages -> Seq(Message)]
         /\ \A q \in Pages \ {p} :
              /\ \A i \in 1 .. Len(down'[q]) :
                   i \in 1 .. Len(down[q]) \/ down'[q][i] = Caused(p, r.command)
              /\ \A i \in 1 .. Len(down[q]) : i \in 1 .. Len(down'[q]) /\ down'[q][i] = down[q][i]
         /\ p \notin Listening => down'[p] = down[p]
         /\ p \in Listening =>
              /\ Len(down'[p]) > Len(down[p]) /\ down'[p][Len(down'[p])] = Answer(r.id)
              /\ \A i \in 1 .. Len(down'[p]) :
                   \/ i \in 1 .. Len(down[p])
                   \/ i < Len(down'[p]) /\ down'[p][i] = Caused(p, r.command)
                   \/ i = Len(down'[p])
              /\ \A i \in 1 .. Len(down[p]) : i \in 1 .. Len(down'[p]) /\ down'[p][i] = down[p][i]
<1> DEFINE ev == Caused(p, r.command)
           an == Answer(r.id)
<1>1. ev \in Message /\ an \in Message
  BY Messages
<1>2. ASSUME NEW q \in Pages
      PROVE  down[q] \in Seq(Message) /\ Len(down[q]) \in Nat
  BY Types
<1>3. down' = [q \in Pages |->
        IF q \notin Listening THEN down[q]
        ELSE down[q] \o (IF q \in audience THEN <<ev>> ELSE <<>>) \o (IF q = p THEN <<an>> ELSE <<>>)]
  BY DEF Reply
<1> HIDE DEF ev, an
<1>4. ASSUME NEW q \in Pages \ {p}
      PROVE  /\ down'[q] \in Seq(Message)
             /\ \A i \in 1 .. Len(down'[q]) : i \in 1 .. Len(down[q]) \/ down'[q][i] = ev
             /\ \A i \in 1 .. Len(down[q]) : i \in 1 .. Len(down'[q]) /\ down'[q][i] = down[q][i]
  <2>1. CASE q \notin Listening
    BY <1>2, <1>3, <2>1
  <2>2. CASE q \in Listening /\ q \in audience
    <3>1. down'[q] = down[q] \o <<ev>> \o <<>>
      BY <1>3, <2>2
    <3>2. down[q] \o <<ev>> \in Seq(Message) /\ <<ev>> \in Seq(Message)
      BY <1>1, <1>2
    <3>3. down'[q] = down[q] \o <<ev>>
      BY <3>1, <3>2
    <3>4. /\ Len(down'[q]) = Len(down[q]) + 1
          /\ down'[q][Len(down[q]) + 1] = ev
          /\ \A i \in 1 .. Len(down[q]) : down'[q][i] = down[q][i]
      BY <1>2, <3>2, <3>3
    <3>5. QED
      BY <1>2, <3>2, <3>3, <3>4
  <2>3. CASE q \in Listening /\ q \notin audience
    <3>1. down'[q] = down[q] \o <<>> \o <<>>
      BY <1>3, <2>3
    <3>2. down'[q] = down[q]
      BY <1>2, <3>1
    <3>3. QED
      BY <1>2, <3>2
  <2>4. QED
    BY <2>1, <2>2, <2>3
<1>5. p \notin Listening => down'[p] = down[p]
  BY <1>3
<1>6. ASSUME p \in Listening
      PROVE  /\ down'[p] \in Seq(Message)
             /\ Len(down'[p]) > Len(down[p]) /\ down'[p][Len(down'[p])] = an
             /\ \A i \in 1 .. Len(down'[p]) :
                  \/ i \in 1 .. Len(down[p])
                  \/ i < Len(down'[p]) /\ down'[p][i] = ev
                  \/ i = Len(down'[p])
             /\ \A i \in 1 .. Len(down[p]) : i \in 1 .. Len(down'[p]) /\ down'[p][i] = down[p][i]
  <2> DEFINE s == down[p]
  <2>1. s \in Seq(Message) /\ Len(s) \in Nat
    BY <1>2
  <2>2. CASE p \in audience
    <3>1. down'[p] = s \o <<ev>> \o <<an>>
      BY <1>3, <1>6, <2>2
    <3>2. <<ev>> \in Seq(Message) /\ <<an>> \in Seq(Message)
      BY <1>1
    <3> HIDE DEF s
    <3>3. /\ s \o <<ev>> \in Seq(Message) /\ Len(s \o <<ev>>) = Len(s) + 1
          /\ (s \o <<ev>>)[Len(s) + 1] = ev
          /\ \A i \in 1 .. Len(s) : (s \o <<ev>>)[i] = s[i]
      BY <2>1, <3>2
    <3>4. /\ down'[p] \in Seq(Message) /\ Len(down'[p]) = Len(s) + 2
          /\ down'[p][Len(s) + 2] = an
          /\ \A i \in 1 .. Len(s) + 1 : down'[p][i] = (s \o <<ev>>)[i]
      BY <2>1, <3>1, <3>2, <3>3
    <3>5. /\ down'[p][Len(s) + 1] = ev
          /\ \A i \in 1 .. Len(s) : i \in 1 .. Len(s) + 2 /\ down'[p][i] = s[i]
      <4>1. /\ Len(s) + 1 \in 1 .. Len(s) + 1
            /\ \A i \in 1 .. Len(s) : i \in 1 .. Len(s) + 1 /\ i \in 1 .. Len(s) + 2
        BY <2>1
      <4>2. QED
        BY <3>3, <3>4, <4>1
    <3>6. \A i \in 1 .. Len(s) + 2 : i \in 1 .. Len(s) \/ i = Len(s) + 1 \/ i = Len(s) + 2
      BY <2>1
    <3>7. Len(s) + 2 > Len(s) /\ Len(s) + 1 < Len(s) + 2
      BY <2>1
    <3>8. QED
      BY <3>4, <3>5, <3>6, <3>7 DEF s
  <2>3. CASE p \notin audience
    <3>1. down'[p] = s \o <<>> \o <<an>>
      BY <1>3, <1>6, <2>3
    <3>2. down'[p] = s \o <<an>> /\ <<an>> \in Seq(Message)
      BY <1>1, <2>1, <3>1
    <3> HIDE DEF s
    <3>3. /\ down'[p] \in Seq(Message) /\ Len(down'[p]) = Len(s) + 1
          /\ down'[p][Len(s) + 1] = an
          /\ \A i \in 1 .. Len(s) : down'[p][i] = s[i]
      BY <2>1, <3>2
    <3>4. /\ \A i \in 1 .. Len(s) + 1 : i \in 1 .. Len(s) \/ i = Len(s) + 1
          /\ \A i \in 1 .. Len(s) : i \in 1 .. Len(s) + 1
          /\ Len(s) + 1 > Len(s)
      BY <2>1
    <3>5. QED
      BY <3>3, <3>4 DEF s
  <2>4. QED
    BY <2>2, <2>3
<1>7. down' \in [Pages -> Seq(Message)]
  BY <1>2, <1>3, <1>4, <1>5, <1>6
<1>8. QED
  BY <1>4, <1>5, <1>6, <1>7 DEF ev, an

LEMMA AdvanceType ==
  ASSUME NEW delta \in Nat
  PROVE  Advance(delta) \in Nat
<1>1. Step \in Nat \ {0}
  BY SessionsAssumption
<1>2. \A a \in Nat, b \in Nat \ {0} : a \div b \in Nat
  OBVIOUS
<1>3. \A a, b \in Nat : a * b \in Nat
  OBVIOUS
<1>4. delta + Step - 1 \in Nat
  BY <1>1
<1>5. (delta + Step - 1) \div Step \in Nat
  BY <1>1, <1>2, <1>4
<1>6. QED
  BY <1>1, <1>3, <1>5 DEF Advance

LEMMA Records ==
  ASSUME Inv
  PROVE  /\ updates \in [Pages -> Seq(Recorded)]
         /\ \A p \in Pages : /\ Len(updates[p]) \in Nat
                             /\ \A k \in 1 .. Len(updates[p]) :
                                  /\ updates[p][k] \in Recorded
                                  /\ updates[p][k].at \in Nat /\ updates[p][k].speed \in Nat
<1>1. updates \in [Pages -> Seq(Recorded)]
  BY DEF Inv, TypeOK, Recorded
<1>2. \A r \in Recorded : r.at \in Nat /\ r.speed \in Nat
  BY SessionsAssumption DEF Recorded
<1>3. QED
  BY <1>1, <1>2

\* An Update is recorded after those before it; the time since then is what
\* the session has not accounted for.
LEMMA UpdateRecorded ==
  ASSUME Inv, NEW p \in Pages, NEW speed \in SimSpeeds, Elapse(p, speed),
         UNCHANGED <<start, now>>, NEW n, n = Len(updates[p])
  PROVE  LET passed == now - start[p] - time[p]
         IN  /\ n \in Nat /\ passed \in Nat /\ now - start[p] \in Nat /\ speed \in Nat
             /\ updates' \in [Pages -> Seq(Recorded)]
             /\ \A q \in Pages \ {p} : updates'[q] = updates[q]
             /\ Len(updates'[p]) = n + 1
             /\ updates'[p][n + 1] = [at |-> now, speed |-> speed]
             /\ Since(p, n + 1)' = passed
             /\ \A q \in Pages : \A k \in 1 .. Len(updates[q]) :
                  Since(q, k)' = Since(q, k) /\ updates'[q][k].speed = updates[q][k].speed
<1> DEFINE passed == now - start[p] - time[p]
           u == [at |-> now, speed |-> speed]
<1>1. /\ updates \in [Pages -> Seq(Recorded)]
      /\ start[p] \in Nat /\ time[p] \in Nat /\ now \in Nat /\ speed \in Nat
  BY Records, SessionsAssumption DEF Inv, TypeOK
<1>2. /\ start[p] + time[p] <= now /\ n \in Nat
      /\ time[p] = IF n = 0 THEN 0 ELSE updates[p][n].at - start[p]
  BY <1>1 DEF Inv, ClockSound
<1>3. passed \in Nat /\ now - start[p] \in Nat
  BY <1>1, <1>2
<1>4. u \in Recorded /\ updates' = [updates EXCEPT ![p] = Append(@, u)]
  BY <1>1 DEF Elapse, Record, Recorded
<1> HIDE DEF u
<1>5. /\ updates' \in [Pages -> Seq(Recorded)]
      /\ \A q \in Pages \ {p} : updates'[q] = updates[q]
      /\ updates'[p] = Append(updates[p], u)
  BY <1>1, <1>4
<1>6. /\ Len(updates'[p]) = n + 1 /\ updates'[p][n + 1] = u
      /\ \A k \in 1 .. n : updates'[p][k] = updates[p][k]
  BY <1>1, <1>5
<1>7. Since(p, n + 1)' = passed
  <2>0. updates'[p][n + 1].at = now
    BY <1>6 DEF u
  <2>1. Since(p, n + 1)' = now - (IF n + 1 = 1 THEN start[p] ELSE updates'[p][n + 1 - 1].at)
    BY <2>0 DEF Since
  <2>2. CASE n = 0
    BY <1>1, <1>2, <2>1, <2>2
  <2>3. CASE n # 0
    <3>1. n + 1 # 1 /\ n + 1 - 1 = n /\ n \in 1 .. n
      BY <1>2, <2>3
    <3>2. updates[p][n].at \in Nat /\ updates'[p][n] = updates[p][n]
      BY <1>6, <3>1, Records
    <3>3. updates'[p][n].at = start[p] + time[p]
      BY <1>1, <1>2, <2>3, <3>2
    <3>4. Since(p, n + 1)' = now - (start[p] + time[p])
      BY <2>1, <3>1, <3>3
    <3>5. QED
      BY <1>1, <3>4
  <2>4. QED
    BY <2>2, <2>3
<1>8. ASSUME NEW q \in Pages, NEW k \in 1 .. Len(updates[q])
      PROVE  Since(q, k)' = Since(q, k) /\ updates'[q][k].speed = updates[q][k].speed
  <2>1. Len(updates[q]) \in Nat
    BY <1>1
  <2>2. \A i \in 1 .. Len(updates[q]) : updates'[q][i] = updates[q][i]
    BY <1>5, <1>6
  <2>3. k # 1 => k - 1 \in 1 .. Len(updates[q])
    BY <2>1
  <2>4. QED
    BY <2>2, <2>3 DEF Since
<1>9. QED
  BY <1>1, <1>2, <1>3, <1>5, <1>6, <1>7, <1>8 DEF u

LEMMA ReceiveCommandKeepsInv ==
  ASSUME Inv, NEW p \in Pages, ReceiveCommand(p)
  PROVE  Inv'
<1> DEFINE r == Head(up[p])
           t == Tail(up[p])
           e == Len(executed[p])
<1>1. /\ up[p] # <<>> /\ up' = [up EXCEPT ![p] = t]
      /\ executed' = [executed EXCEPT ![p] = Append(executed[p], r.command)]
      /\ UNCHANGED <<socket, connected, waiting, requestId, callbacks, issued, resolved>>
      /\ UNCHANGED <<sessions, start, now>>
  BY DEF ReceiveCommand, clientVars
<1>2. PICK audience : Reply(p, r, audience)
  BY DEF ReceiveCommand
<1>3. (\E speed \in SimSpeeds : Elapse(p, speed)) \/ UNCHANGED <<time, simulated, updates>>
  BY DEF ReceiveCommand
<1>4. /\ WaitingSound(p) /\ UpSound(p) /\ CallbacksSound(p) /\ DownSound(p)
      /\ e \in Nat /\ Len(up[p]) \in Nat /\ Len(down[p]) \in Nat
      /\ executed[p] \in Seq(Commands)
  BY Known, Types
<1>5. /\ r.id = e /\ r.command = e + 1
      /\ t \in Seq(Requested) /\ Len(t) \in Nat /\ Len(t) = Len(up[p]) - 1
      /\ Asked(p) = {e} \cup {t[i].id : i \in 1 .. Len(t)}
      /\ \A i \in 1 .. Len(t) : i + 1 \in 1 .. Len(up[p]) /\ t[i] = up[p][i + 1]
  BY <1>1, NextRequest
<1>6. r.id \in Nat /\ r.command \in Commands
  BY <1>4, <1>5 DEF Commands
<1>7. /\ up' \in [Pages -> Seq(Requested)] /\ up'[p] = t
      /\ \A q \in Pages \ {p} : up'[q] = up[q]
  BY <1>1, <1>5, Types
<1>8. /\ executed' \in [Pages -> Seq(Commands)]
      /\ \A q \in Pages \ {p} : executed'[q] = executed[q]
      /\ executed'[p] = Append(executed[p], e + 1)
      /\ Len(executed'[p]) = e + 1 /\ executed'[p][e + 1] = e + 1
      /\ \A i \in 1 .. e : executed'[p][i] = executed[p][i]
  <2>1. executed' \in [Pages -> Seq(Commands)] /\ executed'[p] = Append(executed[p], e + 1)
        /\ \A q \in Pages \ {p} : executed'[q] = executed[q]
    BY <1>1, <1>5, <1>6, Types
  <2>2. e + 1 \in Commands
    BY <1>5, <1>6
  <2>3. QED
    BY <1>4, <2>1, <2>2
<1>9. down' \in [Pages -> Seq(Message)]
  BY <1>2, <1>6, ReplyFacts
<1> HIDE DEF r, t, e
<1>10. ASSUME NEW q \in Pages \ {p}
       PROVE  PageSound(q)'
  <2>1. WaitingSound(q) /\ UpSound(q) /\ CallbacksSound(q) /\ DownSound(q)
    BY Known
  <2>2. /\ \A i \in 1 .. Len(down'[q]) : i \in 1 .. Len(down[q]) \/ down'[q][i] = Caused(p, r.command)
        /\ \A i \in 1 .. Len(down[q]) : i \in 1 .. Len(down'[q]) /\ down'[q][i] = down[q][i]
    BY <1>2, <1>6, ReplyFacts
  <2>3. ~IsAnswer(Caused(p, r.command))
        /\ \A n \in Commands : Caused(p, r.command) # Caused(q, n)
    BY <1>6, Messages
  <2>4. \A i \in 1 .. Len(down'[q]) : IsAnswer(down'[q][i]) => i \in 1 .. Len(down[q]) /\ down'[q][i] = down[q][i]
    BY <2>2, <2>3
  <2>5. \A i \in 1 .. Len(down'[q]), n \in Commands :
          down'[q][i] = Caused(q, n) => i \in 1 .. Len(down[q]) /\ down'[q][i] = down[q][i]
    BY <2>2, <2>3
  <2>6. Answered(q)' = Answered(q)
    <3>1. Answered(q) = {down[q][i].id : i \in {j \in 1 .. Len(down[q]) : IsAnswer(down[q][j])}}
      BY Known
    <3>2. Answered(q)' = {down'[q][i].id : i \in {j \in 1 .. Len(down'[q]) : IsAnswer(down'[q][j])}}
      <4>1. DOMAIN down'[q] = 1 .. Len(down'[q])
        BY <1>9
      <4>2. QED
        BY <4>1 DEF Answered, IsAnswer
    <3>3. QED
      BY <2>2, <2>4, <3>1, <3>2
  <2>7. WaitingSound(q)' /\ UpSound(q)'
    BY <1>1, <1>7, <1>8, <2>1 DEF WaitingSound, UpSound
  <2>8. CallbacksSound(q)'
    <3>1. Asked(q)' = Asked(q)
      BY <1>7 DEF Asked
    <3>2. QED
      BY <1>1, <1>7, <1>8, <2>1, <2>6, <3>1 DEF CallbacksSound
  <2>9. DownSound(q)'
    <3>1. \A i \in 1 .. Len(down'[q]) : IsAnswer(down'[q][i]) => down'[q][i].id < Len(executed'[q])
      BY <1>8, <2>1, <2>4 DEF DownSound
    <3>2. \A i, j \in 1 .. Len(down'[q]) :
            IsAnswer(down'[q][i]) /\ IsAnswer(down'[q][j]) /\ down'[q][i].id = down'[q][j].id => i = j
      BY <2>1, <2>4 DEF DownSound
    <3>3. \A i, j \in 1 .. Len(down'[q]) : \A n \in Commands :
            IsAnswer(down'[q][i]) /\ down'[q][j] = Caused(q, n) /\ i < j => down'[q][i].id # n - 1
      BY <2>1, <2>4, <2>5 DEF DownSound
    <3>4. \A j \in 1 .. Len(down'[q]) : \A n \in resolved'[q] : down'[q][j] # Caused(q, n)
      <4>1. resolved'[q] = resolved[q] /\ resolved[q] \subseteq Commands
        BY <1>1, Types
      <4>2. QED
        BY <2>1, <2>5, <4>1 DEF DownSound
    <3>5. QED
      BY <3>1, <3>2, <3>3, <3>4 DEF DownSound
  <2>10. QED
    BY <2>7, <2>8, <2>9 DEF PageSound
<1>11. WaitingSound(p)'
  BY <1>1, <1>4 DEF WaitingSound
<1>12. UpSound(p)'
  <2>1. /\ \A i \in 1 .. Len(up[p]) : up[p][i].id = e + i - 1 /\ up[p][i].command = e + i
        /\ e + Len(up[p]) <= requestId[p]
        /\ socket[p] = "open" => e + Len(up[p]) = requestId[p] /\ p \in sessions
        /\ socket[p] \in {"connecting", "failed"} => requestId[p] = 0 /\ ~connected[p]
        /\ \A i \in 1 .. e : executed[p][i] = i
    BY <1>4 DEF UpSound, e
  <2>2. ASSUME NEW i \in 1 .. Len(t)
        PROVE  t[i].id = (e + 1) + i - 1 /\ t[i].command = (e + 1) + i
    <3>1. up[p][i + 1].id = e + (i + 1) - 1 /\ up[p][i + 1].command = e + (i + 1) /\ t[i] = up[p][i + 1]
      BY <1>5, <2>1
    <3>2. QED
      BY <1>4, <3>1
  <2>3. (e + 1) + Len(t) = e + Len(up[p])
    <3>1. e \in Nat /\ Len(t) \in Nat /\ Len(up[p]) \in Nat /\ Len(t) = Len(up[p]) - 1
      BY <1>4, <1>5
    <3>2. \A a, b, c \in Nat : c = b - 1 => (a + 1) + c = a + b
      OBVIOUS
    <3>3. QED
      BY <3>1, <3>2
  <2>4. \A i \in 1 .. e + 1 : executed'[p][i] = i
    <3>1. \A i \in 1 .. e + 1 : i \in 1 .. e \/ i = e + 1
      BY <1>4
    <3>2. QED
      BY <1>8, <2>1, <3>1
  <2>5. QED
    BY <1>1, <1>7, <1>8, <2>1, <2>2, <2>3, <2>4 DEF UpSound
<1>13. ASSUME p \notin Listening PROVE PageSound(p)'
  <2>1. down'[p] = down[p] /\ socket[p] # "open"
    <3>1. socket[p] = "open" => p \in sessions
      BY <1>4 DEF UpSound
    <3>2. QED
      BY <1>2, <1>6, <1>13, <3>1, ReplyFacts DEF Listening
  <2>2. CallbacksSound(p)'
    <3>1. \A n \in resolved[p] : n <= e + 1
      <4>1. \A n \in resolved[p] : n <= e /\ n \in Nat
        BY <1>4, Types DEF CallbacksSound, Commands, e
      <4>2. QED
        BY <1>4, <4>1
    <3>2. \A i \in 1 .. Len(t) : t[i].id \in DOMAIN callbacks[p]
      BY <1>4, <1>5 DEF CallbacksSound
    <3>3. QED
      BY <1>1, <1>4, <1>7, <1>8, <2>1, <3>1, <3>2 DEF CallbacksSound
  <2>3. DownSound(p)'
    <3>1. \A i \in 1 .. Len(down[p]) : IsAnswer(down[p][i]) => down[p][i].id < e + 1
      <4>1. \A i \in 1 .. Len(down[p]) : IsAnswer(down[p][i]) => down[p][i].id < e /\ down[p][i].id \in Nat
        BY <1>4, Types, Messages DEF DownSound, e
      <4>2. QED
        BY <1>4, <4>1
    <3>2. QED
      BY <1>1, <1>4, <1>8, <2>1, <3>1 DEF DownSound
  <2>4. QED
    BY <1>11, <1>12, <2>2, <2>3 DEF PageSound
<1>14. ASSUME p \in Listening PROVE PageSound(p)'
  <2> DEFINE d == down[p]
             f == down'[p]
             l == Len(down'[p])
  <2>1. /\ l > Len(d) /\ f[l] = Answer(e)
        /\ \A i \in 1 .. l : \/ i \in 1 .. Len(d)
                             \/ i < l /\ f[i] = Caused(p, e + 1)
                             \/ i = l
        /\ \A i \in 1 .. Len(d) : i \in 1 .. l /\ f[i] = d[i]
    BY <1>2, <1>5, <1>6, <1>14, ReplyFacts
  <2>2. l \in Nat
    BY <1>9
  <2>3. /\ ~IsAnswer(Caused(p, e + 1)) /\ IsAnswer(Answer(e)) /\ Answer(e).id = e
        /\ \A n \in Commands : Caused(p, e + 1) = Caused(p, n) => n = e + 1
        /\ \A n \in Commands : Answer(e) # Caused(p, n)
    BY <1>5, <1>6, Messages
  <2>4. /\ \A i \in 1 .. Len(d) : IsAnswer(d[i]) => d[i].id < e /\ d[i].id \in Nat
        /\ \A i, j \in 1 .. Len(d) : IsAnswer(d[i]) /\ IsAnswer(d[j]) /\ d[i].id = d[j].id => i = j
        /\ \A i, j \in 1 .. Len(d) : \A n \in Commands :
             IsAnswer(d[i]) /\ d[j] = Caused(p, n) /\ i < j => d[i].id # n - 1
        /\ \A j \in 1 .. Len(d) : \A n \in resolved[p] : d[j] # Caused(p, n)
    BY <1>4, Types, Messages DEF DownSound, e
  <2>5. Answered(p)' = Answered(p) \cup {e}
    <3>1. Answered(p) = {d[i].id : i \in {j \in 1 .. Len(d) : IsAnswer(d[j])}}
      BY Known
    <3>2. Answered(p)' = {f[i].id : i \in {j \in 1 .. l : IsAnswer(f[j])}}
      <4>1. DOMAIN f = 1 .. l
        BY <1>9
      <4>2. QED
        BY <4>1 DEF Answered, IsAnswer
    <3>3. l \in 1 .. l
      BY <1>4, <2>1, <2>2
    <3> HIDE DEF d, f, l
    <3>4. ASSUME NEW x \in Answered(p)' PROVE x \in Answered(p) \cup {e}
      <4>1. PICK i \in 1 .. l : IsAnswer(f[i]) /\ x = f[i].id
        BY <3>2, <3>4
      <4>2. (i \in 1 .. Len(d) /\ f[i] = d[i]) \/ i = l
        BY <2>1, <2>3, <4>1
      <4>3. QED
        BY <2>1, <2>3, <3>1, <4>1, <4>2
    <3>5. ASSUME NEW x \in Answered(p) PROVE x \in Answered(p)'
      <4>1. PICK i \in 1 .. Len(d) : IsAnswer(d[i]) /\ x = d[i].id
        BY <3>1, <3>5
      <4>2. QED
        BY <2>1, <3>2, <4>1
    <3>6. e \in Answered(p)'
      BY <2>1, <2>3, <3>2, <3>3
    <3>7. QED
      BY <3>4, <3>5, <3>6
  <2> HIDE DEF d, f, l
  <2>6. CallbacksSound(p)'
    <3>1. \A n \in resolved[p] : n <= e + 1
      <4>1. \A n \in resolved[p] : n <= e /\ n \in Nat
        BY <1>4, Types DEF CallbacksSound, Commands, e
      <4>2. QED
        BY <1>4, <4>1
    <3>2. \A i \in 1 .. Len(t) : t[i].id \in DOMAIN callbacks[p]
      BY <1>4, <1>5 DEF CallbacksSound
    <3>3. Asked(p)' = {t[i].id : i \in 1 .. Len(t)}
      <4>1. DOMAIN t = 1 .. Len(t)
        BY <1>5
      <4>2. QED
        BY <1>7, <4>1 DEF Asked
    <3>4. socket[p] = "open" => DOMAIN callbacks[p] = (Asked(p) \cup Answered(p))'
      <4>1. socket[p] = "open" => DOMAIN callbacks[p] = Asked(p) \cup Answered(p)
        BY <1>4 DEF CallbacksSound
      <4>2. QED
        BY <1>5, <2>5, <3>3, <4>1
    <3>5. QED
      BY <1>1, <1>4, <1>7, <1>8, <3>1, <3>2, <3>4 DEF CallbacksSound
  <2>7. DownSound(p)'
    <3>1. ASSUME NEW i \in 1 .. l, IsAnswer(f[i]) PROVE f[i].id < e + 1 /\ (i # l => i \in 1 .. Len(d) /\ f[i] = d[i] /\ f[i].id < e)
      <4>1. CASE i = l
        BY <1>4, <2>1, <2>3, <4>1
      <4>2. CASE i # l
        <5>1. i \in 1 .. Len(d) /\ f[i] = d[i]
          BY <2>1, <2>3, <3>1, <4>2
        <5>2. QED
          BY <1>4, <2>4, <3>1, <4>2, <5>1
      <4>3. QED
        BY <4>1, <4>2
    <3>2. ASSUME NEW i \in 1 .. l, NEW j \in 1 .. l, IsAnswer(f[i]), IsAnswer(f[j]), f[i].id = f[j].id
          PROVE  i = j
      <4>1. f[l].id = e
        BY <2>1, <2>3
      <4>2. CASE i = l \/ j = l
        BY <1>4, <3>1, <3>2, <4>1, <4>2
      <4>3. CASE i # l /\ j # l
        BY <2>4, <3>1, <3>2, <4>3
      <4>4. QED
        BY <4>2, <4>3
    <3>3. ASSUME NEW i \in 1 .. l, NEW j \in 1 .. l, NEW n \in Commands,
                 IsAnswer(f[i]), f[j] = Caused(p, n), i < j
          PROVE  f[i].id # n - 1
      <4>1. i # l /\ j # l
        <5>1. j # l
          BY <2>1, <2>3, <3>3
        <5>2. i # l
          BY <2>2, <3>3
        <5>3. QED
          BY <5>1, <5>2
      <4>2. i \in 1 .. Len(d) /\ f[i] = d[i] /\ f[i].id < e /\ f[i].id \in Nat
        BY <2>4, <3>1, <3>3, <4>1
      <4>3. CASE j \in 1 .. Len(d)
        <5>1. f[j] = d[j]
          BY <2>1, <4>3
        <5>2. QED
          BY <2>4, <3>3, <4>2, <4>3, <5>1
      <4>4. CASE j \notin 1 .. Len(d)
        <5>1. n = e + 1
          BY <2>1, <2>3, <3>3, <4>1, <4>4
        <5>2. QED
          BY <1>4, <4>2, <5>1
      <4>5. QED
        BY <4>3, <4>4
    <3>4. ASSUME NEW j \in 1 .. l, NEW n \in resolved[p] PROVE f[j] # Caused(p, n)
      <4>1. n \in Commands /\ n \in Nat
        BY Types DEF Commands
      <4>2. n <= e
        BY <1>4 DEF CallbacksSound, e
      <4>3. n # e + 1
        BY <1>4, <4>1, <4>2
      <4>4. CASE j \in 1 .. Len(d)
        BY <2>1, <2>4, <4>4
      <4>5. CASE j \notin 1 .. Len(d)
        BY <2>1, <2>3, <4>1, <4>3, <4>5
      <4>6. QED
        BY <4>4, <4>5
    <3>5. /\ \A i \in 1 .. l : IsAnswer(f[i]) => f[i].id < Len(executed'[p])
          /\ \A i, j \in 1 .. l : IsAnswer(f[i]) /\ IsAnswer(f[j]) /\ f[i].id = f[j].id => i = j
          /\ \A i, j \in 1 .. l : \A n \in Commands :
               IsAnswer(f[i]) /\ f[j] = Caused(p, n) /\ i < j => f[i].id # n - 1
          /\ \A j \in 1 .. l : \A n \in resolved'[p] : f[j] # Caused(p, n)
      BY <1>1, <1>8, <3>1, <3>2, <3>3, <3>4
    <3>6. QED
      BY <3>5 DEF DownSound, f, l
  <2>8. QED
    BY <1>11, <1>12, <2>6, <2>7 DEF PageSound
<1>15. /\ time' \in [Pages -> Nat] /\ simulated' \in Nat /\ ClockSound'
       /\ updates' \in [Pages -> Seq(Recorded)]
  <2>1. /\ time \in [Pages -> Nat] /\ start \in [Pages -> Nat] /\ now \in Nat /\ simulated \in Nat
        /\ updates \in [Pages -> Seq(Recorded)]
    BY Records DEF Inv, TypeOK
  <2>2. Len(executed'[p]) # 0 /\ \A q \in Pages \ {p} : executed'[q] = executed[q]
    BY <1>4, <1>8
  <2>3. CASE UNCHANGED <<time, simulated, updates>>
    <3>1. \A q \in Pages : \A k \in 1 .. Len(updates[q]) : Since(q, k)' = Since(q, k)
      BY <1>1, <2>3 DEF Since
    <3>2. ClockSound'
      BY <1>1, <2>2, <2>3, <3>1 DEF Inv, ClockSound
    <3>3. QED
      BY <2>1, <2>3, <3>2
  <2>4. ASSUME NEW speed \in SimSpeeds, Elapse(p, speed)
        PROVE  /\ time' \in [Pages -> Nat] /\ simulated' \in Nat /\ ClockSound'
               /\ updates' \in [Pages -> Seq(Recorded)]
    <3> DEFINE passed == now - start[p] - time[p]
    <3>0. PICK n : n = Len(updates[p])
      OBVIOUS
    <3>1. /\ time' = [time EXCEPT ![p] = now - start[p]]
          /\ simulated' = simulated + Advance(passed * speed)
      BY <2>4 DEF Elapse
    <3>2. /\ n \in Nat /\ passed \in Nat /\ now - start[p] \in Nat /\ speed \in Nat
          /\ updates' \in [Pages -> Seq(Recorded)]
          /\ \A q \in Pages \ {p} : updates'[q] = updates[q]
          /\ Len(updates'[p]) = n + 1
          /\ updates'[p][n + 1] = [at |-> now, speed |-> speed]
          /\ Since(p, n + 1)' = passed
          /\ \A q \in Pages : \A k \in 1 .. Len(updates[q]) :
               Since(q, k)' = Since(q, k) /\ updates'[q][k].speed = updates[q][k].speed
      BY <1>1, <2>4, <3>0, UpdateRecorded
    <3> HIDE DEF passed
    <3>3. simulated' \in Nat
      <4>1. \A a, b \in Nat : a * b \in Nat /\ a + b \in Nat
        OBVIOUS
      <4>2. Advance(passed * speed) \in Nat
        BY <3>2, <4>1, AdvanceType
      <4>3. QED
        BY <2>1, <3>1, <4>1, <4>2
    <3>4. /\ time' \in [Pages -> Nat] /\ time'[p] = now - start[p]
          /\ \A q \in Pages \ {p} : time'[q] = time[q]
      BY <2>1, <3>1, <3>2
    <3>5. /\ start'[p] + time'[p] <= now' /\ n + 1 # 0
          /\ time'[p] = updates'[p][n + 1].at - start'[p]
      BY <1>1, <2>1, <3>2, <3>4
    <3>6. \A k \in 1 .. n + 1 : Since(p, k)' \in Nat
      <4>1. \A k \in 1 .. n : Since(p, k) \in Nat
        BY <3>0 DEF Inv, ClockSound
      <4>2. \A k \in 1 .. n + 1 : k \in 1 .. n \/ k = n + 1
        BY <3>2
      <4>3. QED
        BY <3>0, <3>2, <4>1, <4>2
    <3>7. ASSUME NEW q \in Pages \ {p}
          PROVE  LET m == Len(updates'[q])
                 IN  /\ start'[q] + time'[q] <= now'
                     /\ time'[q] = IF m = 0 THEN 0 ELSE updates'[q][m].at - start'[q]
                     /\ Len(executed'[q]) = 0 => m = 0
                     /\ \A k \in 1 .. m : Since(q, k)' \in Nat
      <4>1. /\ start[q] + time[q] <= now
            /\ time[q] = IF Len(updates[q]) = 0 THEN 0
                         ELSE updates[q][Len(updates[q])].at - start[q]
            /\ Len(executed[q]) = 0 => Len(updates[q]) = 0
            /\ \A k \in 1 .. Len(updates[q]) : Since(q, k) \in Nat
        BY DEF Inv, ClockSound
      <4>2. /\ updates'[q] = updates[q] /\ executed'[q] = executed[q] /\ time'[q] = time[q]
            /\ start'[q] = start[q] /\ now' = now
        BY <1>1, <2>2, <3>2, <3>4
      <4>3. \A k \in 1 .. Len(updates[q]) : Since(q, k)' = Since(q, k)
        BY <3>2
      <4>4. QED
        BY <4>1, <4>2, <4>3
    <3>8. ClockSound'
      BY <2>2, <3>2, <3>5, <3>6, <3>7 DEF ClockSound
    <3>9. QED
      BY <3>2, <3>3, <3>4, <3>8
  <2>5. QED
    BY <1>3, <2>3, <2>4
<1>16. TypeOK' /\ CallbacksType'
  BY <1>1, <1>7, <1>8, <1>9, <1>15 DEF Inv, TypeOK, CallbacksType, Message, Recorded
<1>17. QED
  BY <1>10, <1>13, <1>14, <1>15, <1>16 DEF Inv

-----------------------------------------------------------------------------
(* The theorems.                                                           *)

LEMMA InitInv == Init => Inv
<1> SUFFICES ASSUME Init PROVE Inv
  OBVIOUS
<1>1. \A S : <<>> \in Seq(S)
  OBVIOUS
<1>2. TypeOK
  BY <1>1 DEF Init, TypeOK
<1>3. CallbacksType
  BY DEF Init, CallbacksType
<1>4. Len(<<>>) = 0
  OBVIOUS
<1>5. ClockSound
  <2>1. ASSUME NEW p \in Pages
        PROVE  start[p] = 0 /\ time[p] = 0 /\ now = 0 /\ Len(updates[p]) = 0
    BY <1>4 DEF Init
  <2>2. QED
    BY <2>1 DEF ClockSound
<1>6. ASSUME NEW p \in Pages PROVE PageSound(p)
  <2>1. /\ socket[p] = "connecting" /\ ~connected[p] /\ requestId[p] = 0 /\ issued[p] = 0
        /\ Len(waiting[p]) = 0 /\ Len(up[p]) = 0 /\ Len(down[p]) = 0 /\ Len(executed[p]) = 0
        /\ DOMAIN callbacks[p] = {} /\ resolved[p] = {}
    BY <1>4 DEF Init
  <2>2. QED
    BY <2>1 DEF PageSound, WaitingSound, UpSound, CallbacksSound, DownSound
<1>7. QED
  BY <1>2, <1>3, <1>5, <1>6 DEF Inv

LEMMA NextInv == Inv /\ [Next]_vars => Inv'
<1> SUFFICES ASSUME Inv, [Next]_vars PROVE Inv'
  OBVIOUS
<1>1. CASE Tick
  BY <1>1, TickKeepsInv
<1>2. ASSUME NEW p \in Pages, SendCommand(p) PROVE Inv'
  BY <1>2, SendCommandKeepsInv
<1>3. ASSUME NEW p \in Pages, Then(p) PROVE Inv'
  BY <1>3, ThenKeepsInv
<1>4. ASSUME NEW p \in Pages, OnMessage(p) PROVE Inv'
  BY <1>4, OnMessageKeepsInv
<1>5. ASSUME NEW p \in Pages, OnOpen(p) PROVE Inv'
  BY <1>5, OnOpenKeepsInv
<1>6. ASSUME NEW p \in Pages, OnError(p) PROVE Inv'
  BY <1>6, OnErrorKeepsInv
<1>7. ASSUME NEW p \in Pages, OnClose(p) PROVE Inv'
  BY <1>7, OnCloseKeepsInv
<1>8. ASSUME NEW p \in Pages, CreateSession(p) PROVE Inv'
  BY <1>8, CreateSessionKeepsInv
<1>9. ASSUME NEW p \in Pages, ReceiveCommand(p) PROVE Inv'
  BY <1>9, ReceiveCommandKeepsInv
<1>10. CASE UNCHANGED vars
  <2>1. /\ UNCHANGED <<socket, connected, waiting, requestId, callbacks, issued, resolved, up, down>>
        /\ UNCHANGED <<sessions, executed, clockVars>>
    BY <1>10 DEF vars, clientVars, serverVars
  <2>2. \A q \in Pages : PageSound(q)'
    BY <2>1, PageStays DEF Mine
  <2>3. QED
    BY <2>1, <2>2 DEF Inv, TypeOK, CallbacksType, ClockSound, Since, clockVars
<1>11. QED
  BY <1>1, <1>2, <1>3, <1>4, <1>5, <1>6, <1>7, <1>8, <1>9, <1>10 DEF Next

THEOREM Invariance == Spec => []Inv
BY InitInv, NextInv, PTL DEF Spec

\* Messages, callbacks and the clock have their types (WSApi.js, receiveJSON).
THEOREM TypeCorrect == Spec => []TypeOK
<1>1. Inv => TypeOK
  BY DEF Inv
<1>2. QED
  BY <1>1, Invariance, PTL

\* WSApi keeps exactly the callbacks of the requests to be answered, each under
\* the id its answer bears, for any number of commands (sendCommand, onmessage).
THEOREM CallbacksAreKept == Spec => []CallbacksMatchRequests
<1>1. ASSUME Inv PROVE CallbacksMatchRequests
  <2>1. SUFFICES ASSUME NEW p \in Pages
                 PROVE  /\ socket[p] = "open" => DOMAIN callbacks[p] = Asked(p) \cup Answered(p)
                        /\ \A i \in DOMAIN up[p] : /\ up[p][i].id \in DOMAIN callbacks[p]
                                                   /\ callbacks[p][up[p][i].id] = up[p][i].command
    BY DEF CallbacksMatchRequests
  <2>2. CallbacksSound(p) /\ UpSound(p) /\ DOMAIN up[p] = 1 .. Len(up[p])
    BY <1>1, Known, Types
  <2>3. socket[p] = "open" => DOMAIN callbacks[p] = Asked(p) \cup Answered(p)
    BY <2>2 DEF CallbacksSound
  <2>4. ASSUME NEW i \in 1 .. Len(up[p])
        PROVE  /\ up[p][i].id \in DOMAIN callbacks[p]
               /\ callbacks[p][up[p][i].id] = up[p][i].command
    <3>1. /\ up[p][i].id \in DOMAIN callbacks[p]
          /\ callbacks[p][up[p][i].id] = up[p][i].id + 1
      BY <2>2 DEF CallbacksSound
    <3>2. up[p][i].id = Len(executed[p]) + i - 1 /\ up[p][i].command = Len(executed[p]) + i
      BY <2>2 DEF UpSound
    <3>3. Len(executed[p]) \in Nat
      BY <1>1, Types
    <3>4. \A a, b \in Nat : (a + b - 1) + 1 = a + b
      OBVIOUS
    <3>5. QED
      BY <3>1, <3>2, <3>3, <3>4
  <2>5. QED
    BY <2>2, <2>3, <2>4
<1>2. QED
  BY <1>1, Invariance, PTL

\* A promise is resolved only after the page has handled every event of the
\* command (receiveJSON sends the answer last).
THEOREM AnswersComeLast == Spec => []EventsBeforeAnswer
<1>1. ASSUME Inv PROVE EventsBeforeAnswer
  <2>1. SUFFICES ASSUME NEW p \in Pages, NEW n \in resolved[p], NEW i \in DOMAIN down[p]
                 PROVE  down[p][i] # Caused(p, n)
    BY DEF EventsBeforeAnswer
  <2>2. DownSound(p) /\ i \in 1 .. Len(down[p])
    BY <1>1, Known, Types
  <2>3. QED
    BY <2>2 DEF DownSound
<1>2. QED
  BY <1>1, Invariance, PTL

-----------------------------------------------------------------------------
(* Sums.  What SumFunction computes recursively, taking the elements in an *)
(* order nobody knows, is the number of Units: one for each element and    *)
(* each of the numbers up to its value.  Counting them needs no order.     *)

Units(f, s) == UNION {{x} \X (1 .. f[x]) : x \in s}

\* There are f[x] units of x, apart from those of the others.
LEMMA UnitsCount ==
  ASSUME NEW S, IsFiniteSet(S), NEW f \in [S -> Nat], NEW x \in S
  PROVE  /\ IsFiniteSet(Units(f, S))
         /\ Cardinality(Units(f, S)) = f[x] + Cardinality(Units(f, S \ {x}))
<1> DEFINE own(y) == {y} \X (1 .. f[y])
<1>1. ASSUME NEW y \in S PROVE IsFiniteSet(own(y)) /\ Cardinality(own(y)) = f[y]
  <2>1. IsFiniteSet({y}) /\ Cardinality({y}) = 1
    BY FS_Singleton
  <2>2. IsFiniteSet(1 .. f[y]) /\ Cardinality(1 .. f[y]) = f[y]
    BY FS_Interval
  <2> HIDE DEF own
  <2>3. /\ IsFiniteSet({y} \X (1 .. f[y]))
        /\ Cardinality({y} \X (1 .. f[y])) = Cardinality({y}) * Cardinality(1 .. f[y])
    BY <2>1, <2>2, FS_Product, Zenon
  <2>4. QED
    BY <2>1, <2>2, <2>3 DEF own
<1>2. ASSUME NEW s \in SUBSET S PROVE IsFiniteSet(Units(f, s))
  <2> DEFINE image == {own(y) : y \in s}
             g == [y \in s |-> own(y)]
  <2>1. IsFiniteSet(s)
    BY FS_Subset
  <2>2. g \in Surjection(s, image)
    BY DEF Surjection
  <2>3. IsFiniteSet(image)
    BY <2>1, <2>2, FS_Surjection
  <2>4. \A T \in image : IsFiniteSet(T)
    BY <1>1
  <2>5. IsFiniteSet(UNION image)
    BY <2>3, <2>4, FS_UNION
  <2>6. QED
    BY <2>5 DEF Units
<1>3. Units(f, S) = own(x) \cup Units(f, S \ {x}) /\ own(x) \cap Units(f, S \ {x}) = {}
  BY DEF Units
<1>4. IsFiniteSet(Units(f, S)) /\ IsFiniteSet(Units(f, S \ {x}))
  BY <1>2
<1> HIDE DEF own
<1>5. Cardinality(own(x) \cup Units(f, S \ {x}))
        = Cardinality(own(x)) + Cardinality(Units(f, S \ {x}))
            - Cardinality(own(x) \cap Units(f, S \ {x}))
  BY <1>1, <1>4, FS_Union, Zenon
<1>6. Cardinality(Units(f, S \ {x})) \in Nat
  BY <1>4, FS_CardinalityType
<1>7. /\ Cardinality(own(x) \cup Units(f, S \ {x})) = Cardinality(Units(f, S))
      /\ Cardinality(own(x) \cap Units(f, S \ {x})) = 0
  BY <1>3, FS_EmptySet
<1>8. f[x] \in Nat /\ Cardinality(own(x)) = f[x]
  BY <1>1
<1>9. QED
  BY <1>4, <1>5, <1>6, <1>7, <1>8

\* What SumFunction evaluates: the sums over the subsets of S, by taking away
\* one element after the other.
IsIter(iter, f, S) ==
  iter = [s \in SUBSET S |->
            IF s = {} THEN 0
            ELSE f[CHOOSE x \in s : TRUE] + iter[s \ {CHOOSE x \in s : TRUE}]]

\* Such a function counts the units.
LEMMA IterCounts ==
  ASSUME NEW S, IsFiniteSet(S), NEW f \in [S -> Nat], NEW iter, IsIter(iter, f, S)
  PROVE  iter[S] = Cardinality(Units(f, S))
<1> DEFINE wrong == {s \in SUBSET S : iter[s] # Cardinality(Units(f, s))}
<1>1. SUBSET S = FiniteSubsetsOf(S)
  BY FS_Subset DEF FiniteSubsetsOf
<1>2. IsWellFoundedOn(StrictSubsetOrdering(S), FiniteSubsetsOf(S))
  BY FS_StrictSubsetOrderingWellFounded
<1>3. SUFFICES ASSUME wrong # {} PROVE FALSE
  OBVIOUS
<1>4. wrong \subseteq FiniteSubsetsOf(S)
  BY <1>1
<1> HIDE DEF wrong
<1>5. PICK s \in wrong : \A t \in wrong : <<t, s>> \notin StrictSubsetOrdering(S)
  BY <1>2, <1>3, <1>4, WFMin
<1>6. s \in SUBSET S /\ iter[s] # Cardinality(Units(f, s))
  BY <1>5 DEF wrong
<1>7. CASE s = {}
  <2>1. Units(f, s) = {} /\ iter[s] = 0
    BY <1>6, <1>7 DEF Units, IsIter
  <2>2. QED
    BY <1>6, <2>1, FS_EmptySet
<1>8. CASE s # {}
  <2> DEFINE x == CHOOSE x \in s : TRUE
             t == s \ {x}
  <2>1. x \in s /\ t \in SUBSET S
    BY <1>6, <1>8
  <2>2. iter[s] = f[x] + iter[t]
    BY <1>6, <1>8 DEF IsIter
  <2> HIDE DEF x
  <2>3. <<t, s>> \in StrictSubsetOrdering(S)
    BY <1>6, <2>1 DEF StrictSubsetOrdering
  <2>4. iter[t] = Cardinality(Units(f, t))
    BY <1>5, <2>1, <2>3 DEF wrong
  <2>5. IsFiniteSet(s)
    BY <1>6, FS_Subset
  <2> DEFINE g == [y \in s |-> f[y]]
  <2>6. g \in [s -> Nat] /\ g[x] = f[x]
    BY <1>6, <2>1
  <2>7. Units(g, s) = Units(f, s) /\ Units(g, t) = Units(f, t)
    BY DEF Units
  <2> HIDE DEF g
  <2>8. Cardinality(Units(g, s)) = g[x] + Cardinality(Units(g, t))
    BY <2>1, <2>5, <2>6, UnitsCount
  <2>9. QED
    BY <1>6, <2>2, <2>4, <2>6, <2>7, <2>8
<1>9. QED
  BY <1>7, <1>8

\* Counting is such a function, so that there is one.
LEMMA CountIters ==
  ASSUME NEW S, IsFiniteSet(S), NEW f \in [S -> Nat]
  PROVE  \E iter : IsIter(iter, f, S)
<1> DEFINE iter == [s \in SUBSET S |-> Cardinality(Units(f, s))]
           pick(s) == CHOOSE x \in s : TRUE
<1>1. ASSUME NEW s \in SUBSET S
      PROVE  iter[s] = IF s = {} THEN 0 ELSE f[pick(s)] + iter[s \ {pick(s)}]
  <2>1. CASE s = {}
    <3>1. Units(f, s) = {}
      BY <2>1 DEF Units
    <3>2. QED
      BY <2>1, <3>1, FS_EmptySet
  <2>2. CASE s # {}
    <3> DEFINE g == [y \in s |-> f[y]]
               x == pick(s)
               t == s \ {x}
    <3>1. x \in s /\ t \in SUBSET S
      BY <2>2
    <3> HIDE DEF x
    <3>2. IsFiniteSet(s) /\ g \in [s -> Nat] /\ g[x] = f[x]
      BY <3>1, FS_Subset
    <3>3. Units(g, s) = Units(f, s) /\ Units(g, t) = Units(f, t)
      BY DEF Units
    <3> HIDE DEF g
    <3>4. Cardinality(Units(g, s)) = g[x] + Cardinality(Units(g, t))
      BY <3>1, <3>2, UnitsCount
    <3>5. iter[s] = f[x] + iter[t]
      BY <3>1, <3>2, <3>3, <3>4
    <3>6. QED
      BY <2>2, <3>5 DEF x
  <2>3. QED
    BY <2>1, <2>2
<1>2. iter = [s \in SUBSET S |-> IF s = {} THEN 0 ELSE f[pick(s)] + iter[s \ {pick(s)}]]
  BY <1>1
<1>3. QED
  BY <1>2 DEF IsIter

\* The sum of a function is the number of its units.
LEMMA SumCounts ==
  ASSUME NEW S, IsFiniteSet(S), NEW f \in [S -> Nat]
  PROVE  SumFunction(f) = Cardinality(Units(f, S))
<1> DEFINE iter == CHOOSE iter : IsIter(iter, f, S)
<1>1. SumFunction(f) = iter[S]
  BY DEF SumFunction, SumFunctionOnSet, FoldFunctionOnSet, MapThenFoldSet, IsIter
<1>2. IsIter(iter, f, S)
  BY CountIters, Zenon
<1> HIDE DEF iter
<1>3. iter[S] = Cardinality(Units(f, S))
  BY <1>2, IterCounts
<1>4. QED
  BY <1>1, <1>3

\* A sum grows by the term that is added.
LEMMA SumExtends ==
  ASSUME NEW S, IsFiniteSet(S), NEW x, x \notin S, NEW f \in [S -> Nat],
         NEW g \in [S \cup {x} -> Nat], \A y \in S : g[y] = f[y]
  PROVE  SumFunction(g) = SumFunction(f) + g[x] /\ SumFunction(f) \in Nat
<1> DEFINE T == S \cup {x}
<1>1. IsFiniteSet(T) /\ x \in T /\ T \ {x} = S /\ g[x] \in Nat
  BY FS_AddElement
<1>2. Units(g, S) = Units(f, S)
  BY DEF Units
<1>3. SumFunction(g) = Cardinality(Units(g, T))
  BY <1>1, SumCounts, Zenon
<1>4. SumFunction(f) = Cardinality(Units(f, S))
  BY SumCounts, Zenon
<1>5. IsFiniteSet(Units(g, T)) /\ Cardinality(Units(g, T)) = g[x] + Cardinality(Units(g, T \ {x}))
  <2> HIDE DEF T
  <2>1. g \in [T -> Nat]
    BY DEF T
  <2>2. QED
    BY <1>1, <2>1, UnitsCount, Zenon
<1>6. IsFiniteSet(Units(g, S))
  <2>1. Units(g, S) \subseteq Units(g, T)
    BY DEF Units
  <2>2. QED
    BY <1>5, <2>1, FS_Subset
<1>7. Cardinality(Units(g, S)) \in Nat
  BY <1>6, FS_CardinalityType
<1>8. Cardinality(Units(g, T)) = g[x] + Cardinality(Units(g, S))
  BY <1>1, <1>5
<1>9. QED
  BY <1>1, <1>2, <1>3, <1>4, <1>7, <1>8

\* The sum over nothing is zero.
LEMMA SumOfNothing ==
  ASSUME NEW f \in [{} -> Nat]
  PROVE  SumFunction(f) = 0
<1>1. Units(f, {}) = {}
  BY DEF Units
<1>2. IsFiniteSet({}) /\ Cardinality({}) = 0
  BY FS_EmptySet
<1>3. SumFunction(f) = Cardinality(Units(f, {}))
  BY <1>2, SumCounts, Zenon
<1>4. QED
  BY <1>1, <1>2, <1>3

-----------------------------------------------------------------------------
(* The time simulated.                                                     *)

\* Whole sub-updates are at least delta and less than one sub-update more.
LEMMA AdvanceBounds ==
  ASSUME NEW delta \in Nat
  PROVE  delta <= Advance(delta) /\ Advance(delta) <= delta + (Step - 1)
<1>1. Step \in Nat \ {0}
  BY SessionsAssumption
<1> DEFINE m == delta + Step - 1
           k == m \div Step
<1>2. m \in Nat /\ k \in Int /\ Step * k <= m /\ m < Step * k + Step
  BY <1>1
<1>3. delta <= Step * k /\ Step * k <= delta + (Step - 1)
  <2> HIDE DEF k
  <2>1. Step * k \in Int
    BY <1>1, <1>2
  <2>2. QED
    BY <1>1, <1>2, <2>1
<1>4. QED
  BY <1>1, <1>3 DEF Advance

LEMMA UpdatesFinite ==
  ASSUME Inv
  PROVE  IsFiniteSet(Updates)
<1> DEFINE f == [p \in Pages |-> Len(updates[p])]
<1>1. f \in [Pages -> Nat]
  BY DEF Inv, TypeOK
<1>2. Updates = Units(f, Pages)
  BY DEF Updates, Units
<1> HIDE DEF f
<1>3. IsFiniteSet(Pages)
  BY SessionsAssumption
<1>4. CASE Pages = {}
  <2>1. Updates = {}
    BY <1>4 DEF Updates
  <2>2. QED
    BY <2>1, FS_EmptySet
<1>5. CASE Pages # {}
  <2>1. PICK p \in Pages : TRUE
    BY <1>5
  <2>2. IsFiniteSet(Units(f, Pages))
    BY <1>1, <1>3, <2>1, UnitsCount, Zenon
  <2>3. QED
    BY <1>2, <2>2
<1>6. QED
  BY <1>4, <1>5

\* What each Update owes is a number.
LEMMA OwedType ==
  ASSUME Inv
  PROVE  Owed \in [Updates -> Nat]
<1>1. ASSUME NEW u \in Updates PROVE updates[u[1]][u[2]].speed * Since(u[1], u[2]) \in Nat
  <2>1. PICK p \in Pages : \E k \in 1 .. Len(updates[p]) : u = <<p, k>>
    BY DEF Updates
  <2>1a. PICK k \in 1 .. Len(updates[p]) : u = <<p, k>>
    BY <2>1
  <2>2. updates[p][k].speed \in Nat
    BY Records
  <2>3. updates[p][k].speed \in Nat /\ Since(p, k) \in Nat
    BY <2>2 DEF Inv, ClockSound
  <2>4. \A a, b \in Nat : a * b \in Nat
    OBVIOUS
  <2>5. QED
    BY <2>1a, <2>3, <2>4
<1>2. QED
  BY <1>1 DEF Owed

\* What an Update finds owed when it is carried out: what was, and the time
\* since the session's last one at the speed it carries.
LEMMA UpdateOwes ==
  ASSUME Inv, Inv', NEW p \in Pages, NEW speed \in SimSpeeds, Elapse(p, speed),
         UNCHANGED <<start, now>>
  PROVE  LET delta == (now - start[p] - time[p]) * speed
         IN  /\ delta \in Nat
             /\ SumFunction(Owed') = SumFunction(Owed) + delta /\ SumFunction(Owed) \in Nat
             /\ Cardinality(Updates') = Cardinality(Updates) + 1 /\ Cardinality(Updates) \in Nat
<1>0. PICK n : n = Len(updates[p])
  OBVIOUS
<1> DEFINE passed == now - start[p] - time[p]
           x == <<p, n + 1>>
<1>1. /\ n \in Nat /\ passed \in Nat /\ speed \in Nat
      /\ \A q \in Pages \ {p} : updates'[q] = updates[q]
      /\ Len(updates'[p]) = n + 1
      /\ updates'[p][n + 1] = [at |-> now, speed |-> speed]
      /\ Since(p, n + 1)' = passed
      /\ \A q \in Pages : \A k \in 1 .. Len(updates[q]) :
           Since(q, k)' = Since(q, k) /\ updates'[q][k].speed = updates[q][k].speed
  BY <1>0, UpdateRecorded
<1> HIDE DEF passed
<1>2. passed * speed \in Nat /\ speed * passed = passed * speed
  BY <1>1
<1>3. x \notin Updates /\ Updates' = Updates \cup {x}
  <2>1. 1 .. n + 1 = (1 .. n) \cup {n + 1} /\ n + 1 \notin 1 .. n
    BY <1>1
  <2>2. \A u : u \in Updates <=> \E q \in Pages : \E k \in 1 .. Len(updates[q]) : u = <<q, k>>
    BY DEF Updates
  <2>3. \A u : u \in Updates' <=> \E q \in Pages : \E k \in 1 .. Len(updates'[q]) : u = <<q, k>>
    BY DEF Updates
  <2>4. x \notin Updates
    BY <1>0, <2>1, <2>2
  <2>5. ASSUME NEW u \in Updates' PROVE u \in Updates \cup {x}
    <3>1. PICK q \in Pages : \E k \in 1 .. Len(updates'[q]) : u = <<q, k>>
      BY <2>3
    <3>1a. PICK k \in 1 .. Len(updates'[q]) : u = <<q, k>>
      BY <3>1
    <3>2. CASE q = p
      BY <1>0, <1>1, <2>1, <2>2, <3>1a, <3>2
    <3>3. CASE q # p
      BY <1>1, <2>2, <3>1a, <3>3
    <3>4. QED
      BY <3>2, <3>3
  <2>6. ASSUME NEW u \in Updates PROVE u \in Updates'
    <3>1. PICK q \in Pages : \E k \in 1 .. Len(updates[q]) : u = <<q, k>>
      BY <2>2
    <3>1a. PICK k \in 1 .. Len(updates[q]) : u = <<q, k>>
      BY <3>1
    <3>2. CASE q = p
      BY <1>0, <1>1, <2>1, <2>3, <3>1a, <3>2
    <3>3. CASE q # p
      BY <1>1, <2>3, <3>1a, <3>3
    <3>4. QED
      BY <3>2, <3>3
  <2>7. x \in Updates'
    BY <1>1, <2>1, <2>3
  <2>8. QED
    BY <2>4, <2>5, <2>6, <2>7
<1>4. IsFiniteSet(Updates) /\ Owed \in [Updates -> Nat] /\ Owed' \in [Updates \cup {x} -> Nat]
  <2>1. Owed' \in [Updates' -> Nat]
    <3>1. Owed' = [u \in Updates' |-> updates'[u[1]][u[2]].speed * Since(u[1], u[2])']
      BY DEF Owed
    <3>2. ASSUME NEW u \in Updates' PROVE updates'[u[1]][u[2]].speed * Since(u[1], u[2])' \in Nat
      <4>1. PICK q \in Pages : \E k \in 1 .. Len(updates'[q]) : u = <<q, k>>
        BY DEF Updates
      <4>1a. PICK k \in 1 .. Len(updates'[q]) : u = <<q, k>>
        BY <4>1
      <4>2. updates'[q][k].speed \in Nat
        <5>1. updates' \in [Pages -> Seq(Recorded)]
          BY DEF Inv, TypeOK, Recorded
        <5>2. updates'[q][k] \in Recorded
          BY <5>1
        <5>3. QED
          BY <5>2, SessionsAssumption DEF Recorded
      <4>3. updates'[q][k].speed \in Nat /\ Since(q, k)' \in Nat
        BY <4>2 DEF Inv, ClockSound
      <4>4. \A a, b \in Nat : a * b \in Nat
        OBVIOUS
      <4>5. QED
        BY <4>1a, <4>3, <4>4
    <3>3. QED
      BY <3>1, <3>2
  <2>2. QED
    BY <1>3, <2>1, UpdatesFinite, OwedType
<1>5. ASSUME NEW u \in Updates PROVE Owed'[u] = Owed[u]
  <2>1. PICK q \in Pages : \E k \in 1 .. Len(updates[q]) : u = <<q, k>>
    BY DEF Updates
  <2>1a. PICK k \in 1 .. Len(updates[q]) : u = <<q, k>>
    BY <2>1
  <2>2. u \in Updates'
    BY <1>3
  <2>3. QED
    BY <1>1, <2>1a, <2>2 DEF Owed
<1>6. Owed'[x] = passed * speed
  BY <1>1, <1>2, <1>3 DEF Owed
<1> HIDE DEF x
<1>7. SumFunction(Owed') = SumFunction(Owed) + Owed'[x] /\ SumFunction(Owed) \in Nat
  <2> DEFINE Sums(g) == SumFunction(g) = SumFunction(Owed) + g[x] /\ SumFunction(Owed) \in Nat
  <2>1. \A g \in [Updates \cup {x} -> Nat] : (\A y \in Updates : g[y] = Owed[y]) => Sums(g)
    BY <1>3, <1>4, SumExtends, Zenon
  <2>2. Sums(Owed')
    <3> HIDE DEF Sums
    <3>1. QED
      BY <1>4, <1>5, <2>1
  <2>3. QED
    BY <2>2
<1>8. Cardinality(Updates') = Cardinality(Updates) + 1 /\ Cardinality(Updates) \in Nat
  BY <1>3, <1>4, FS_AddElement, FS_CardinalityType
<1>9. QED
  BY <1>2, <1>6, <1>7, <1>8 DEF passed

\* An Update adds what it owes to what is owed, and that or a little more to
\* what is simulated.
LEMMA TimeStep ==
  Inv /\ TimeIsAccountedFor /\ [Next]_vars => TimeIsAccountedFor'
<1> SUFFICES ASSUME Inv, TimeIsAccountedFor, [Next]_vars PROVE TimeIsAccountedFor'
  OBVIOUS
<1>0. Inv'
  BY NextInv
<1>1. Step \in Nat \ {0} /\ simulated \in Nat
  BY SessionsAssumption DEF Inv, TypeOK
<1>2. /\ SumFunction(Owed) <= simulated
      /\ simulated <= SumFunction(Owed) + Cardinality(Updates) * (Step - 1)
  BY DEF TimeIsAccountedFor
<1>3. ASSUME UNCHANGED <<simulated, updates>>,
             \A p \in Pages : \A k \in 1 .. Len(updates[p]) : Since(p, k)' = Since(p, k)
      PROVE  TimeIsAccountedFor'
  <2>1. Updates' = Updates
    BY <1>3 DEF Updates
  <2>2. ASSUME NEW u \in Updates PROVE Since(u[1], u[2])' = Since(u[1], u[2])
    BY <1>3 DEF Updates
  <2>3. Owed' = Owed
    <3>1. Owed' = [u \in Updates' |-> updates'[u[1]][u[2]].speed * Since(u[1], u[2])']
      BY DEF Owed
    <3>2. QED
      BY <1>3, <2>1, <2>2, <3>1 DEF Owed
  <2>4. QED
    BY <1>2, <1>3, <2>1, <2>3 DEF TimeIsAccountedFor
<1>4. CASE UNCHANGED <<start, simulated, updates>>
  BY <1>3, <1>4 DEF Since
<1>5. ASSUME NEW p \in Pages, ReceiveCommand(p)
      PROVE  TimeIsAccountedFor'
  <2>1. UNCHANGED <<start, now>>
    BY <1>5 DEF ReceiveCommand
  <2>2. CASE UNCHANGED <<time, simulated, updates>>
    BY <1>4, <2>1, <2>2
  <2>3. ASSUME NEW speed \in SimSpeeds, Elapse(p, speed) PROVE TimeIsAccountedFor'
    <3> DEFINE delta == (now - start[p] - time[p]) * speed
               owed == SumFunction(Owed)
               count == Cardinality(Updates)
    <3>1. /\ delta \in Nat /\ owed \in Nat /\ count \in Nat
          /\ SumFunction(Owed') = owed + delta /\ Cardinality(Updates') = count + 1
      BY <1>0, <2>1, <2>3, UpdateOwes
    <3>2. simulated' = simulated + Advance(delta)
      BY <2>3 DEF Elapse
    <3> HIDE DEF delta
    <3>3. Advance(delta) \in Nat /\ delta <= Advance(delta) /\ Advance(delta) <= delta + (Step - 1)
      BY <3>1, AdvanceType, AdvanceBounds
    <3>4. (count + 1) * (Step - 1) = count * (Step - 1) + (Step - 1) /\ count * (Step - 1) \in Nat
      <4>1. \A a, b \in Nat : (a + 1) * b = a * b + b /\ a * b \in Nat
        OBVIOUS
      <4>2. count \in Nat /\ Step - 1 \in Nat
        BY <1>1, <3>1
      <4> HIDE DEF count
      <4>3. QED
        BY <4>1, <4>2
    <3>5. owed <= simulated /\ simulated <= owed + count * (Step - 1)
      BY <1>2
    <3> HIDE DEF owed, count
    <3>6. /\ owed + delta <= simulated'
          /\ simulated' <= (owed + delta) + (count + 1) * (Step - 1)
      BY <1>1, <3>1, <3>2, <3>3, <3>4, <3>5
    <3>7. QED
      BY <3>1, <3>6 DEF TimeIsAccountedFor
  <2>4. QED
    BY <1>5, <2>2, <2>3 DEF ReceiveCommand
<1>6. ASSUME NEW p \in Pages, CreateSession(p)
      PROVE  TimeIsAccountedFor'
  <2>1. socket[p] = "connecting" /\ start' = [start EXCEPT ![p] = now]
        /\ UNCHANGED <<simulated, updates>>
    BY <1>6 DEF CreateSession
  <2>2. Len(updates[p]) = 0
    BY <2>1, NothingSent DEF Inv, ClockSound
  <2>3. \A q \in Pages \ {p} : start'[q] = start[q]
    BY <2>1 DEF Inv, TypeOK
  <2>4. ASSUME NEW q \in Pages, NEW k \in 1 .. Len(updates[q])
        PROVE  Since(q, k)' = Since(q, k)
    BY <2>1, <2>2, <2>3 DEF Since
  <2>5. QED
    BY <1>3, <2>1, <2>4
<1>7. CASE Tick
  BY <1>4, <1>7 DEF Tick
<1>8. ASSUME NEW p \in Pages, SendCommand(p) \/ Then(p) \/ OnMessage(p) \/ OnOpen(p)
                               \/ OnError(p) \/ OnClose(p)
      PROVE  UNCHANGED <<start, simulated, updates>>
  BY <1>8 DEF SendCommand, Then, OnMessage, OnOpen, OnError, OnClose, serverVars, clockVars
<1>9. CASE UNCHANGED vars
  BY <1>4, <1>9 DEF vars, serverVars, clockVars
<1>10. QED
  BY <1>4, <1>5, <1>6, <1>7, <1>8, <1>9 DEF Next

\* However many pages ask for updates, and whenever, and however their sliders
\* move in between, no time is lost and none counted twice: the time between
\* two Updates of a session is simulated once, at the speed the second one
\* carries, up to a sub-update for each (ReceiveCommand("Update") and the clock
\* of transit_service.cc).
THEOREM TimeAddsUp == Spec => []TimeIsAccountedFor
<1>1. Init => TimeIsAccountedFor
  <2> SUFFICES ASSUME Init PROVE TimeIsAccountedFor
    OBVIOUS
  <2>1. Step \in Nat \ {0} /\ simulated = 0
    BY SessionsAssumption DEF Init
  <2>2. Updates = {}
    <3>1. Len(<<>>) = 0 /\ 1 .. 0 = {}
      OBVIOUS
    <3>2. \A p \in Pages : 1 .. Len(updates[p]) = {}
      BY <3>1 DEF Init
    <3>3. QED
      BY <3>2 DEF Updates
  <2>3. Owed \in [{} -> Nat]
    BY <2>2 DEF Owed
  <2>4. SumFunction(Owed) = 0 /\ Cardinality(Updates) = 0
    BY <2>2, <2>3, SumOfNothing, FS_EmptySet
  <2>5. QED
    BY <2>1, <2>4 DEF TimeIsAccountedFor
<1>2. QED
  BY <1>1, TimeStep, Invariance, PTL DEF Spec

-----------------------------------------------------------------------------
(* Every page is served as Requests says.                                  *)

\* What the abstract page sees.
Seen(p) == <<issued[p], executed[p], resolved[p]>>

LEMMA IssueStep ==
  ASSUME Inv, NEW p \in Pages, SendCommand(p), NEW q \in Pages
  PROVE  Request(q)!Next \/ UNCHANGED Seen(q)
<1>1. issued' = [issued EXCEPT ![p] = issued[p] + 1] /\ UNCHANGED <<resolved, executed>>
  BY DEF SendCommand, serverVars
<1>2. CASE q = p
  <2>1. Request(p)!Issue
    BY <1>1, Types DEF Request!Issue
  <2>2. QED
    BY <1>2, <2>1 DEF Request!Next
<1>3. CASE q # p
  BY <1>1, <1>3, Types DEF Seen
<1>4. QED
  BY <1>2, <1>3

LEMMA ResolveStep ==
  ASSUME Inv, NEW p \in Pages, OnMessage(p), NEW q \in Pages
  PROVE  Request(q)!Next \/ UNCHANGED Seen(q)
<1> DEFINE data == Head(down[p])
<1>1. /\ socket[p] = "open" /\ down[p] # <<>> /\ UNCHANGED <<issued, executed>>
      /\ \/ data.kind = "answer" /\ data.id \in DOMAIN callbacks[p] /\ Settle(p, data.id)
         \/ UNCHANGED resolved
  BY DEF OnMessage, serverVars
<1>2. CASE UNCHANGED resolved
  BY <1>1, <1>2 DEF Seen
<1>3. CASE data.kind = "answer" /\ data.id \in DOMAIN callbacks[p] /\ Settle(p, data.id)
  <2> DEFINE n == data.id + 1
  <2>1. CallbacksSound(p) /\ DownSound(p) /\ data = down[p][1] /\ 1 \in 1 .. Len(down[p])
        /\ Len(executed[p]) \in Nat
    BY <1>1, TakeFirst, Known, Types
  <2>2. IsAnswer(down[p][1]) /\ data.id < Len(executed[p]) /\ data.id \in Nat
    BY <1>3, <2>1, Types, Messages DEF DownSound, IsAnswer
  <2>3. callbacks[p][data.id] = n
    BY <1>3, <2>1 DEF CallbacksSound
  <2>4. n \in 1 .. Len(executed[p]) /\ n - 1 = data.id
    BY <2>1, <2>2
  <2>5. n \notin resolved[p]
    BY <1>3, <2>1, <2>4 DEF CallbacksSound
  <2>6. resolved' = [resolved EXCEPT ![p] = resolved[p] \cup {n}]
    BY <1>3, <2>3 DEF Settle
  <2> HIDE DEF n
  <2>7. CASE q = p
    <3>1. Request(p)!Resolve(n)
      BY <1>1, <2>5, <2>6, Types DEF Request!Resolve
    <3>2. QED
      BY <2>4, <2>7, <3>1 DEF Request!Next
  <2>8. CASE q # p
    BY <1>1, <2>6, <2>8, Types DEF Seen
  <2>9. QED
    BY <2>7, <2>8
<1>4. QED
  BY <1>1, <1>2, <1>3

LEMMA ExecuteStep ==
  ASSUME Inv, NEW p \in Pages, ReceiveCommand(p), NEW q \in Pages
  PROVE  Request(q)!Next \/ UNCHANGED Seen(q)
<1> DEFINE e == Len(executed[p])
<1>1. /\ up[p] # <<>> /\ UNCHANGED <<issued, resolved>>
      /\ executed' = [executed EXCEPT ![p] = Append(executed[p], Head(up[p]).command)]
  BY DEF ReceiveCommand, clientVars
<1>2. Head(up[p]).command = e + 1
  BY <1>1, NextRequest
<1>3. e < issued[p]
  <2>1. e + Len(up[p]) <= requestId[p] /\ requestId[p] + Len(waiting[p]) = issued[p]
    BY Known DEF UpSound, WaitingSound
  <2>2. /\ e \in Nat /\ Len(up[p]) \in Nat /\ requestId[p] \in Nat
        /\ Len(waiting[p]) \in Nat /\ issued[p] \in Nat
    BY Types
  <2>3. Len(up[p]) # 0
    BY <1>1, Types
  <2>4. \A a, b, c, d, f \in Nat : a + b <= c /\ c + d = f /\ b # 0 => a < f
    OBVIOUS
  <2> HIDE DEF e
  <2>5. QED
    BY <2>1, <2>2, <2>3, <2>4
<1>4. CASE q = p
  <2>1. executed'[p] = Append(executed[p], e + 1)
    BY <1>1, <1>2, Types
  <2>2. Request(p)!Execute
    BY <1>1, <1>3, <2>1 DEF Request!Execute
  <2>3. QED
    BY <1>4, <2>2 DEF Request!Next
<1>5. CASE q # p
  BY <1>1, <1>5, Types DEF Seen
<1>6. QED
  BY <1>4, <1>5

\* Whatever the connections do, every page's commands are carried out in order
\* and each promise is resolved once, by the answer to its own command
\* (sendCommand, onmessage, receiveJSON).
THEOREM ImplementsRequests == Spec => ServesRequests
<1>1. Init => \A p \in Pages : Request(p)!Init
  BY DEF Init, Request!Init
<1>2. Inv /\ [Next]_vars => [\A p \in Pages : Request(p)!Next \/ UNCHANGED Request(p)!vars]_vars
  <2> SUFFICES ASSUME Inv, Next, NEW q \in Pages
               PROVE  Request(q)!Next \/ UNCHANGED Seen(q)
    BY DEF Request!vars, Seen
  <2>1. CASE Tick
    BY <2>1 DEF Tick, clientVars, Seen
  <2>2. ASSUME NEW p \in Pages, SendCommand(p) PROVE Request(q)!Next \/ UNCHANGED Seen(q)
    BY <2>2, IssueStep
  <2>3. ASSUME NEW p \in Pages, OnMessage(p) PROVE Request(q)!Next \/ UNCHANGED Seen(q)
    BY <2>3, ResolveStep
  <2>4. ASSUME NEW p \in Pages, ReceiveCommand(p) PROVE Request(q)!Next \/ UNCHANGED Seen(q)
    BY <2>4, ExecuteStep
  <2>5. ASSUME NEW p \in Pages,
               Then(p) \/ OnOpen(p) \/ OnError(p) \/ OnClose(p) \/ CreateSession(p)
        PROVE  Request(q)!Next \/ UNCHANGED Seen(q)
    BY <2>5 DEF Then, OnOpen, OnError, OnClose, CreateSession, serverVars, clientVars, Seen
  <2>6. QED
    BY <2>1, <2>2, <2>3, <2>4, <2>5 DEF Next
<1>3. QED
  BY <1>1, <1>2, Invariance, PTL DEF Spec, ServesRequests
=============================================================================
