-------------------------- MODULE DevConnection_proofs --------------------------
(***************************************************************************)
(* Proofs about DevConnection, for every set of channels and values, every *)
(* size of the queue and number of connections: when a report can stumble, *)
(* what the server hears first on a connection, and that it is in step     *)
(* with the device unless a value was missed.                              *)
(***************************************************************************)
EXTENDS DevConnection, SequenceTheorems, TLAPS

Inbound == [kind : {"registered", "refused", "version_error"}]
           \cup [kind : {"set"}, channel : Channel, value : Value]

TypeInv ==
  /\ TypeOK
  /\ inbox \in Seq(Inbound)
  /\ server \in [values : [Channel -> Value], registered : BOOLEAN,
                 seen : {"nothing", "register", "other"}]
\* Where the srpc object is allocated.
Served == {"loop", "iterate", "install", "install_data", "start_mqtt", "set_get",
           "set_push", "set_result", "out", "free"}

\* The callback and its data go together, except where the connection's thread is
\* about to replace the second; without a connection there is neither.
CallbackInv ==
  /\ ~InWindow(pc) \/ pc \in {"install", "clear"} => (on_changed <=> user_data)
  /\ pc \in {"install_data", "start_mqtt"} => on_changed
  /\ pc = "start_mqtt" => user_data
  /\ pc \in {"clear_data", "free_mqtt", "join_mqtt", "connect", "finished"} => ~on_changed
  /\ pc \in {"free_mqtt", "join_mqtt", "connect", "finished"} => ~user_data
  /\ pc \in Served => live
  /\ pc \in {"connect", "finished"} => ~mqtt_running /\ step[Mqtt] = "idle"
  /\ step[Mqtt] = "idle" => ~heard.on_changed

\* A report that met no window finds what it has read.
SafeInv(t) ==
  step[t] # "idle" /\ ~hist.overlapped[t] =>
    /\ ~InWindow(pc)
    /\ step[t] \in {"load", "deref", "push"} => on_changed
    /\ step[t] = "push" => target[t] = connection
    /\ t = Mqtt => (heard.on_changed <=> on_changed) /\ (heard.user_data <=> user_data)

\* What the server has heard when the connection is registered, and what a report
\* of this connection has read.
HeardInv ==
  /\ on_changed \/ heard.on_changed \/ pc = "install" => registered = 1
  /\ \A t \in Reporters :
       step[t] \in {"load", "deref", "push"} /\ hist.began[t] = connection => registered = 1
  /\ step[Mqtt] # "idle" => hist.began[Mqtt] = connection
  /\ \A t \in Reporters : hist.began[t] <= connection
  /\ \/ inbox # <<>> \/ server.registered \/ registered = 1
     \/ pc \in {"set_get", "set_push", "set_result"}
     => server.seen # "nothing"

\* Unless a report has strayed, the first message of a connection is its
\* registration, and nothing is queued behind it until the server has heard it.
FirstInv ==
  /\ Mqtt \notin hist.strayed
  /\ hist.strayed = {} =>
       /\ server.seen # "other"
       /\ server.seen = "nothing" =>
            \/ out_queue = <<>>
            \/ registered # 0 /\ Len(out_queue) = 1 /\ Head(out_queue).kind = "register"

\* The value of channel c that message m, which is about it, tells.
Told(m, c) == IF m.kind = "register" THEN m.values[c] ELSE m.value

\* Once queue q is sent, a server whose view of the values is view has value v of
\* channel c.
Settled(q, view, c, v) ==
  \/ \E i \in 1 .. Len(q) :
       /\ About(q[i], c) /\ Told(q[i], c) = v
       /\ \A j \in 1 .. Len(q) : j > i => ~About(q[j], c)
  \/ view[c] = v /\ \A j \in 1 .. Len(q) : ~About(q[j], c)

\* The server has registered the device, or is going to hear of it.
Known ==
  \/ server.registered
  \/ \E i \in 1 .. Len(out_queue) : out_queue[i].kind = "register"

KnownInv ==
  /\ registered = 0 => ~Known
  /\ registered = 1 => server.registered
  /\ \A i \in 1 .. Len(inbox) : inbox[i].kind = "registered" => server.registered

\* A report under way, and one that has read its value.
Under(t) == IF t = Conn THEN pc \in {"set_get", "set_push"} ELSE step[t] \notin {"idle", "heard"}
Reading(t) == IF t = Conn THEN pc = "set_push" ELSE step[t] \notin {"idle", "heard"}

\* What an undisturbed report has read is the value of its channel, and every channel
\* is told or reported, unless a value was missed.
ReadInv ==
  \A t \in Threads : Reading(t) /\ ~hist.raced[t] => report[t].value = value[report[t].channel]

\* Two reports of a channel that are under way have raced.
RaceInv ==
  \A t, u \in Threads :
    t # u /\ Under(t) /\ Under(u) /\ report[t].channel = report[u].channel => hist.raced[t]

ToldInv ==
  \A c \in Channel : Known /\ ~hist.missed[c] =>
    \/ Settled(out_queue, server.values, c, value[c])
    \/ \E t \in Threads : report[t].channel = c /\ Under(t)

StepInv == KnownInv /\ ReadInv /\ RaceInv /\ ToldInv

FaultInv == CallbackInv /\ (\A t \in Reporters : SafeInv(t)) /\ FaultOnlyWhenOverlapped
-----------------------------------------------------------------------------
(* What the operators on the history and on the queue do.                  *)

\* A read is of the channel's value, unless another thread is setting it.
LEMMA ReadableType ==
  ASSUME NEW t \in Threads, NEW c \in Channel, value \in [Channel -> Value]
  PROVE  /\ Readable(t, c) \subseteq Value /\ value[c] \in Readable(t, c)
         /\ \A v \in Readable(t, c) :
              v = value[c] \/ \E u \in Threads \ {t} : report[u].channel = c /\ Under(u)
BY DEF Readable, Setting, Under

LEMMA NoReportType == NoReport \in [channel : Channel, value : Value]
BY DevConnectionAssumption DEF NoReport

LEMMA OverlappingType ==
  ASSUME hist \in History, step \in [Reporters -> Steps], NEW s
  PROVE  /\ Overlapping(hist, s) \in History
         /\ \A t \in Reporters : Overlapping(hist, s).overlapped[t] <=>
              hist.overlapped[t] \/ (InWindow(s) /\ step[t] # "idle")
         /\ Overlapping(hist, s).began = hist.began
         /\ Overlapping(hist, s).strayed = hist.strayed
BY DEF History, Overlapping

LEMMA BeginType ==
  ASSUME NEW t \in Threads, NEW c, hist \in History
  PROVE  /\ Begin(hist, t, c) \in History
         /\ Begin(hist, t, c).overlapped = hist.overlapped
         /\ Begin(hist, t, c).began = hist.began
         /\ Begin(hist, t, c).strayed = hist.strayed
         /\ Begin(hist, t, c).changes = hist.changes
BY DEF History, Begin

LEMMA OutcomeType ==
  ASSUME NEW t \in Threads, NEW queued \in BOOLEAN, hist \in History,
         report[t].channel \in Channel
  PROVE  /\ Outcome(hist, t, queued) \in History
         /\ \A u \in Reporters : Outcome(hist, t, queued).overlapped[u] <=>
              hist.overlapped[u] /\ u # t
         /\ \A u \in Reporters :
              Outcome(hist, t, queued).began[u] = IF u = t THEN 0 ELSE hist.began[u]
         /\ Outcome(hist, t, queued).strayed = hist.strayed
<1> DEFINE a == [hist EXCEPT !.missed[report[t].channel] = ~queued \/ hist.raced[t]]
           b == [a EXCEPT !.raced[t] = FALSE]
           c == [b EXCEPT !.overlapped = [u \in Reporters |-> @[u] /\ u # t]]
           d == [c EXCEPT !.began = [u \in Reporters |-> IF u = t THEN 0 ELSE @[u]]]
<1>1. Outcome(hist, t, queued) = d
  BY Zenon DEF Outcome, History
<1>2. /\ a \in History /\ a.overlapped = hist.overlapped /\ a.began = hist.began
      /\ a.strayed = hist.strayed
  BY DEF History
<1> HIDE DEF a
<1>3. /\ b \in History /\ b.overlapped = hist.overlapped /\ b.began = hist.began
      /\ b.strayed = hist.strayed
  BY <1>2 DEF History
<1> HIDE DEF b
<1>4. /\ c \in History /\ c.began = hist.began /\ c.strayed = hist.strayed
      /\ \A u \in Reporters : c.overlapped[u] <=> hist.overlapped[u] /\ u # t
  BY <1>3 DEF History
<1> HIDE DEF c
<1>5. /\ d \in History /\ d.overlapped = c.overlapped /\ d.strayed = hist.strayed
      /\ \A u \in Reporters : d.began[u] = IF u = t THEN 0 ELSE hist.began[u]
  BY <1>4, DevConnectionAssumption DEF History
<1> QED BY <1>1, <1>4, <1>5

\* The report of t ends when its value is queued or refused.
LEMMA RoomOutcome ==
  ASSUME NEW t \in Threads, hist \in History, report[t].channel \in Channel
  PROVE  /\ Outcome(hist, t, Room) \in History
         /\ Outcome(hist, t, Room).strayed = hist.strayed
         /\ \A u \in Reporters :
              Outcome(hist, t, Room).began[u] = IF u = t THEN 0 ELSE hist.began[u]
<1>1. Room \in BOOLEAN
  BY DEF Room
<1>2. PICK room \in BOOLEAN : room = Room
  BY <1>1, Zenon
<1>3. /\ Outcome(hist, t, room) \in History
      /\ Outcome(hist, t, room).strayed = hist.strayed
      /\ \A u \in Reporters :
           Outcome(hist, t, room).began[u] = IF u = t THEN 0 ELSE hist.began[u]
  BY OutcomeType
<1> QED BY <1>2, <1>3, Zenon

LEMMA NewReportType ==
  ASSUME NEW h \in History, NEW t \in Reporters, h.changes < MaxChanges,
         connection \in 0 .. MaxConnections
  PROVE  /\ NewReport(h, t) \in History
         /\ \A u \in Reporters : u # t =>
              /\ NewReport(h, t).overlapped[u] = h.overlapped[u]
              /\ NewReport(h, t).began[u] = h.began[u]
         /\ NewReport(h, t).overlapped[t] <=> InWindow(pc)
         /\ NewReport(h, t).began[t] = connection
         /\ NewReport(h, t).strayed = h.strayed
<1>0. PICK w \in BOOLEAN : w = InWindow(pc)
  <2>1. CASE InWindow(pc)
    <3>1. InWindow(pc) = TRUE
      BY <2>1 DEF InWindow
    <3> QED BY <3>1, Zenon
  <2>2. CASE ~InWindow(pc)
    <3>1. InWindow(pc) = FALSE
      BY <2>2 DEF InWindow
    <3> QED BY <3>1, Zenon
  <2> QED BY <2>1, <2>2
<1> DEFINE a == [h EXCEPT !.overlapped[t] = w]
           b == [a EXCEPT !.began[t] = connection]
           c == [b EXCEPT !.changes = @ + 1]
<1>1. NewReport(h, t) = c
  BY <1>0, Zenon DEF NewReport, History
<1>2. a \in History /\ a.began = h.began /\ a.strayed = h.strayed /\ a.changes = h.changes
      /\ a.overlapped[t] = w
      /\ \A u \in Reporters : u # t => a.overlapped[u] = h.overlapped[u]
  BY DEF History
<1> HIDE DEF a
<1>3. b \in History /\ b.overlapped = a.overlapped /\ b.strayed = h.strayed /\ b.changes = h.changes
      /\ b.began[t] = connection
      /\ \A u \in Reporters : u # t => b.began[u] = h.began[u]
  BY <1>2 DEF History
<1> HIDE DEF b
<1>4. c \in History /\ c.overlapped = a.overlapped /\ c.began = b.began /\ c.strayed = h.strayed
  BY <1>3, DevConnectionAssumption DEF History
<1> QED BY <1>0, <1>1, <1>2, <1>3, <1>4

LEMMA OtherType ==
  ASSUME hist \in History, hist.other < MaxOther
  PROVE  /\ [hist EXCEPT !.other = @ + 1] \in History
         /\ [hist EXCEPT !.other = @ + 1].overlapped = hist.overlapped
         /\ [hist EXCEPT !.other = @ + 1].began = hist.began
         /\ [hist EXCEPT !.other = @ + 1].strayed = hist.strayed
<1>1. hist.other + 1 \in 0 .. MaxOther
  BY DevConnectionAssumption DEF History
<1> QED BY <1>1 DEF History

\* A lost message leaves its channels missed.
LEMMA LoseType ==
  ASSUME hist \in History, Lose
  PROVE  /\ hist' \in History
         /\ hist'.overlapped = hist.overlapped /\ hist'.began = hist.began
         /\ hist'.strayed = hist.strayed /\ hist'.raced = hist.raced
         /\ \A c \in Channel : hist'.missed[c] <=>
              \/ hist.missed[c]
              \/ /\ About(Head(out_queue), c)
                 /\ \A i \in 2 .. Len(out_queue) : ~About(out_queue[i], c)
<1> DEFINE f == [c \in Channel |->
                   \/ hist.missed[c]
                   \/ /\ About(Head(out_queue), c)
                      /\ \A i \in 2 .. Len(out_queue) : ~About(out_queue[i], c)]
<1>1. hist' = [hist EXCEPT !.missed = f]
  BY Zenon DEF Lose, History
<1>2. f \in [Channel -> BOOLEAN]
  BY DEF History
<1>3. \A c \in Channel : f[c] <=>
        \/ hist.missed[c]
        \/ /\ About(Head(out_queue), c)
           /\ \A i \in 2 .. Len(out_queue) : ~About(out_queue[i], c)
  BY Zenon
<1> HIDE DEF f
<1>4. /\ hist' \in History /\ hist'.missed = f
      /\ hist'.overlapped = hist.overlapped /\ hist'.began = hist.began
      /\ hist'.strayed = hist.strayed /\ hist'.raced = hist.raced
  BY <1>1, <1>2 DEF History
<1> QED BY <1>3, <1>4

LEMMA RoomType == Room = TRUE \/ Room = FALSE
<1>1. CASE Room
  BY <1>1 DEF Room
<1>2. CASE ~Room
  BY <1>2 DEF Room
<1> QED BY <1>1, <1>2

\* Queueing keeps the queue within its size and what is first in it first.
LEMMA QueueType ==
  ASSUME out_queue \in Seq(Message), Len(out_queue) <= QueueSize, NEW m \in Message, Queue(m)
  PROVE  /\ out_queue' \in Seq(Message) /\ Len(out_queue') <= QueueSize
         /\ out_queue # <<>> => out_queue' # <<>> /\ Head(out_queue') = Head(out_queue)
         /\ out_queue = <<>> => out_queue' = <<m>>
<1>1. CASE Room
  <2>1. out_queue' = Append(out_queue, m)
    BY <1>1 DEF Queue
  <2>2. Len(out_queue') = Len(out_queue) + 1 /\ out_queue' \in Seq(Message)
    BY <2>1
  <2>3. out_queue # <<>> => out_queue' # <<>> /\ Head(out_queue') = Head(out_queue)
    BY <2>1
  <2>4. out_queue = <<>> => out_queue' = <<m>>
    BY <2>1
  <2> QED BY <1>1, <2>2, <2>3, <2>4, DevConnectionAssumption DEF Room
<1>2. CASE ~Room
  BY <1>2, DevConnectionAssumption DEF Queue, Room
<1> QED BY <1>1, <1>2

LEMMA MessageTypes ==
  /\ \A f \in [Channel -> Value] : [kind |-> "register", values |-> f] \in Message
  /\ \A c \in Channel, v \in Value : [kind |-> "value", channel |-> c, value |-> v] \in Message
  /\ [kind |-> "own"] \in Message /\ [kind |-> "result"] \in Message
BY DEF Message

LEMMA ReceiveType ==
  ASSUME TypeInv, NEW k, Receive(k)
  PROVE  /\ inbox' \in Seq(Inbound) /\ Head(inbox) \in Inbound /\ Head(inbox).kind = k
         /\ pc = "iterate" /\ inbox # <<>>
BY DEF Receive, TypeInv
-----------------------------------------------------------------------------
(* Types.                                                                  *)

LEMMA TypeInitial == Init => TypeInv
<1> SUFFICES ASSUME Init PROVE TypeInv
  OBVIOUS
<1>1. hist \in History
  BY DevConnectionAssumption DEF Init, History
<1>2. report \in [Threads -> [channel : Channel, value : Value]]
  BY NoReportType DEF Init
<1>3. server \in [values : [Channel -> Value], registered : BOOLEAN,
                 seen : {"nothing", "register", "other"}]
  BY DEF Init
<1>4. out_queue \in Seq(Message) /\ Len(out_queue) <= QueueSize /\ inbox \in Seq(Inbound)
  BY DevConnectionAssumption DEF Init
<1>5. /\ step \in [Reporters -> Steps] /\ target \in [Reporters -> 0 .. MaxConnections]
      /\ heard \in [on_changed : BOOLEAN, user_data : BOOLEAN]
      /\ connection \in 0 .. MaxConnections
  BY DevConnectionAssumption DEF Init, Steps, NothingHeard
<1>6. /\ pc \in ConnStates /\ registered \in {-1, 0, 1} /\ fault \in {"none"} \cup Reporters
      /\ {terminated, live, on_changed, user_data, mqtt_running, mqtt_stuck} \subseteq BOOLEAN
      /\ value \in [Channel -> Value]
  BY DEF Init, ConnStates
<1> QED BY <1>1, <1>2, <1>3, <1>4, <1>5, <1>6 DEF TypeInv, TypeOK

LEMMA GotoType ==
  ASSUME TypeInv, NEW s \in ConnStates, Goto(s)
  PROVE  pc' \in ConnStates /\ hist' \in History
BY OverlappingType DEF Goto, TypeInv, TypeOK

\* What the server makes of a message.
LEMMA ServeType ==
  ASSUME TypeInv, NEW m \in Message, Serve(m)
  PROVE  /\ inbox' \in Seq(Inbound)
         /\ server' \in [values : [Channel -> Value], registered : BOOLEAN,
                        seen : {"nothing", "register", "other"}]
         /\ server.seen # "nothing" => server'.seen = server.seen
         /\ server.seen = "nothing" =>
              server'.seen = IF m.kind = "register" THEN "register" ELSE "other"
<1>1. inbox' \in Seq(Inbound)
  <2>1. CASE m.kind # "register"
    BY <2>1 DEF Serve, Answer, TypeInv
  <2>2. CASE m.kind = "register"
    <3>1. PICK k \in {"registered", "refused", "version_error"} :
            inbox' = Append(inbox, [kind |-> k])
      BY <2>2 DEF Serve, Answer
    <3>2. [kind |-> k] \in Inbound
      BY DEF Inbound
    <3> QED BY <3>1, <3>2 DEF TypeInv
  <2> QED BY <2>1, <2>2
<1> DEFINE values == CASE m.kind = "register" -> m.values
                       [] m.kind = "value" /\ server.registered ->
                            [server.values EXCEPT ![m.channel] = m.value]
                       [] OTHER -> server.values
           registers == server.registered
                          \/ (m.kind = "register" /\ inbox'[Len(inbox')].kind = "registered")
           seen == IF server.seen # "nothing" THEN server.seen
                   ELSE IF m.kind = "register" THEN "register" ELSE "other"
<1>2. values \in [Channel -> Value]
  BY DEF Message, TypeInv
<1>3. registers \in BOOLEAN
  BY DEF TypeInv
<1>4. seen \in {"nothing", "register", "other"}
  BY DEF TypeInv
<1>5. server' = [values |-> values, registered |-> registers, seen |-> seen]
  BY DEF Serve
<1>6. server'.seen = seen
  BY <1>5
<1> QED
  <2>1. server' \in [values : [Channel -> Value], registered : BOOLEAN,
                     seen : {"nothing", "register", "other"}]
    <3>1. PICK f \in [Channel -> Value], r \in BOOLEAN, x \in {"nothing", "register", "other"} :
            server' = [values |-> f, registered |-> r, seen |-> x]
      BY <1>2, <1>3, <1>4, <1>5, Zenon
    <3> QED BY <3>1
  <2>2. server.seen # "nothing" => seen = server.seen
    OBVIOUS
  <2>3. server.seen = "nothing" => seen = IF m.kind = "register" THEN "register" ELSE "other"
    OBVIOUS
  <2> HIDE DEF seen
  <2> QED BY <1>1, <1>6, <2>1, <2>2, <2>3

LEMMA TypeKept ==
  ASSUME TypeInv, [Next]_vars
  PROVE  TypeInv'
<1> USE DevConnectionAssumption DEF connVars, cbVars, reportVars, serverVars, reporterUnchanged
<1>0. /\ {W1, Mqtt} \subseteq Reporters /\ Conn \in Threads /\ Reporters \subseteq Threads
      /\ pc \in ConnStates /\ hist \in History /\ step \in [Reporters -> Steps]
      /\ report \in [Threads -> [channel : Channel, value : Value]]
      /\ value \in [Channel -> Value] /\ connection \in 0 .. MaxConnections
      /\ out_queue \in Seq(Message) /\ Len(out_queue) <= QueueSize
      /\ registered \in {-1, 0, 1} /\ target \in [Reporters -> 0 .. MaxConnections]
  BY DEF Reporters, Threads, TypeInv, TypeOK
<1>1. CASE ConnectFails
  <2>1. pc' \in ConnStates /\ hist' \in History
    BY <1>1, GotoType DEF ConnectFails, ConnStates
  <2> QED BY <1>1, <2>1 DEF ConnectFails, TypeInv, TypeOK
<1>2. CASE LeaveThread
  <2>1. pc' \in ConnStates /\ hist' \in History
    BY <1>2, GotoType DEF LeaveThread, ConnStates
  <2> QED BY <1>2, <2>1 DEF LeaveThread, TypeInv, TypeOK
<1>3. CASE LeaveLoop
  <2>1. pc' \in ConnStates /\ hist' \in History
    BY <1>3, GotoType DEF LeaveLoop, ConnStates
  <2> QED BY <1>3, <2>1 DEF LeaveLoop, TypeInv, TypeOK
<1>4. CASE Iterate
  <2>1. pc' \in ConnStates /\ hist' \in History
    BY <1>4, GotoType DEF Iterate, ConnStates
  <2> QED BY <1>4, <2>1 DEF Iterate, TypeInv, TypeOK
<1>5. CASE IterateFails
  <2>1. pc' \in ConnStates /\ hist' \in History
    BY <1>5, GotoType DEF IterateFails, ConnStates
  <2> QED BY <1>5, <2>1 DEF IterateFails, TypeInv, TypeOK
<1>6. CASE IterateNoData
  <2>1. pc' \in ConnStates /\ hist' \in History
    BY <1>6, GotoType DEF IterateNoData, ConnStates
  <2> QED BY <1>6, <2>1 DEF IterateNoData, TypeInv, TypeOK
<1>7. CASE NothingToSend
  <2>1. pc' \in ConnStates /\ hist' \in History
    BY <1>7, GotoType DEF NothingToSend, ConnStates
  <2> QED BY <1>7, <2>1 DEF NothingToSend, TypeInv, TypeOK
<1>8. CASE FreeSrpc
  <2>1. pc' \in ConnStates /\ hist' \in History
    BY <1>8, GotoType DEF FreeSrpc, ConnStates
  <2> QED BY <1>8, <2>1 DEF FreeSrpc, TypeInv, TypeOK
<1>9. CASE SetOnChanged
  <2>1. pc' \in ConnStates /\ hist' \in History
    BY <1>9, GotoType DEF SetOnChanged, ConnStates
  <2> QED BY <1>9, <2>1 DEF SetOnChanged, TypeInv, TypeOK
<1>10. CASE SetUserData
  <2>1. pc' \in ConnStates /\ hist' \in History
    BY <1>10, GotoType DEF SetUserData, ConnStates
  <2> QED BY <1>10, <2>1 DEF SetUserData, TypeInv, TypeOK
<1>11. CASE StartMqtt
  <2>1. pc' \in ConnStates /\ hist' \in History
    BY <1>11, GotoType DEF StartMqtt, ConnStates
  <2> QED BY <1>11, <2>1 DEF StartMqtt, TypeInv, TypeOK
<1>12. CASE JoinMqtt
  <2>1. pc' \in ConnStates /\ hist' \in History
    BY <1>12, GotoType DEF JoinMqtt, ConnStates
  <2> QED BY <1>12, <2>1 DEF JoinMqtt, TypeInv, TypeOK
<1>36. CASE DisconnectMqtt
  <2>1. pc' \in ConnStates /\ hist' \in History
    BY <1>36, GotoType DEF DisconnectMqtt, ConnStates
  <2> QED BY <1>36, <2>1 DEF DisconnectMqtt, TypeInv, TypeOK
<1>37. CASE MqttSticks
  BY <1>37 DEF MqttSticks, TypeInv, TypeOK
<1>38. CASE Lose
  <2>1. out_queue' \in Seq(Message) /\ Len(out_queue') <= QueueSize
    BY <1>0, <1>38 DEF Lose
  <2>2. hist' \in History
    BY <1>0, <1>38, LoseType DEF Lose
  <2> QED BY <1>38, <2>1, <2>2 DEF Lose, TypeInv, TypeOK, ConnStates
<1>13. CASE Connect
  <2>1. pc' \in ConnStates /\ hist' \in History
    BY <1>13, GotoType DEF Connect, ConnStates
  <2>2. connection' \in 0 .. MaxConnections
    BY <1>0, <1>13 DEF Connect
  <2>3. server' \in [values : [Channel -> Value], registered : BOOLEAN,
                     seen : {"nothing", "register", "other"}]
    <3>1. [server EXCEPT !.registered = FALSE, !.seen = "nothing"]
            = [[server EXCEPT !.registered = FALSE] EXCEPT !.seen = "nothing"]
      BY Zenon DEF TypeInv
    <3> QED BY <1>13, <3>1 DEF Connect, TypeInv
  <2> QED BY <1>13, <2>1, <2>2, <2>3 DEF Connect, TypeInv, TypeOK
<1>14. CASE Register
  <2>1. out_queue' \in Seq(Message) /\ Len(out_queue') <= QueueSize
    <3>1. PICK read \in [Channel -> Value] : Queue([kind |-> "register", values |-> read])
      BY <1>14 DEF Register
    <3> QED BY <1>0, <3>1, MessageTypes, QueueType
  <2>2. hist' \in History
    <3>1. [c \in Channel |-> \E t \in Reporters : Reporting(t, c)] \in [Channel -> BOOLEAN]
      OBVIOUS
    <3>2. PICK f \in [Channel -> BOOLEAN] : hist' = [hist EXCEPT !.missed = f]
      BY <1>14, <3>1 DEF Register
    <3> QED BY <1>0, <3>2 DEF History
  <2> QED BY <1>14, <2>1, <2>2 DEF Register, TypeInv, TypeOK, ConnStates
<1>15. CASE OwnCall
  <2>1. out_queue' \in Seq(Message) /\ Len(out_queue') <= QueueSize
    BY <1>0, <1>15, MessageTypes, QueueType DEF OwnCall
  <2>2. hist' \in History
    BY <1>0, <1>15, OtherType DEF OwnCall
  <2> QED BY <1>15, <2>1, <2>2 DEF OwnCall, TypeInv, TypeOK
<1>16. CASE OnRegistered
  <2>1. pc' \in ConnStates /\ hist' \in History
    BY <1>16, GotoType DEF OnRegistered, ConnStates
  <2>2. inbox' \in Seq(Inbound)
    BY <1>16, ReceiveType DEF OnRegistered
  <2> QED BY <1>16, <2>1, <2>2 DEF OnRegistered, TypeInv, TypeOK
<1>17. CASE OnRefused
  <2>1. pc' \in ConnStates /\ hist' \in History
    BY <1>17, GotoType DEF OnRefused, ConnStates
  <2>2. inbox' \in Seq(Inbound)
    BY <1>17, ReceiveType DEF OnRefused
  <2> QED BY <1>17, <2>1, <2>2 DEF OnRefused, TypeInv, TypeOK
<1>18. CASE OnVersionError
  <2>1. pc' \in ConnStates /\ hist' \in History
    BY <1>18, GotoType DEF OnVersionError, ConnStates
  <2>2. inbox' \in Seq(Inbound)
    BY <1>18, ReceiveType DEF OnVersionError
  <2> QED BY <1>18, <2>1, <2>2 DEF OnVersionError, TypeInv, TypeOK
<1>19. CASE OnSetValue
  <2>1. inbox' \in Seq(Inbound) /\ Head(inbox) \in Inbound /\ Head(inbox).kind = "set"
    BY <1>19, ReceiveType DEF OnSetValue
  <2>2. Head(inbox).channel \in Channel /\ Head(inbox).value \in Value
    BY <2>1 DEF Inbound
  <2>3. hist' \in History
    BY <1>0, <1>19, BeginType DEF OnSetValue
  <2>4. value' \in [Channel -> Value] /\ report' \in [Threads -> [channel : Channel, value : Value]]
    BY <1>0, <1>19, <2>2 DEF OnSetValue
  <2> QED BY <1>19, <2>1, <2>3, <2>4 DEF OnSetValue, TypeInv, TypeOK, ConnStates
<1>20. CASE SetGet
  <2>1. pc' \in ConnStates /\ hist' \in History
    BY <1>20, GotoType DEF SetGet, ConnStates
  <2>2. report' \in [Threads -> [channel : Channel, value : Value]]
    <3>1. PICK v \in Readable(Conn, report[Conn].channel) :
            report' = [report EXCEPT ![Conn].value = v]
      BY <1>20 DEF SetGet
    <3> QED BY <1>0, <3>1, ReadableType
  <2> QED BY <1>20, <2>1, <2>2 DEF SetGet, TypeInv, TypeOK
<1>21. CASE SetPush
  <2>1. out_queue' \in Seq(Message) /\ Len(out_queue') <= QueueSize
    BY <1>0, <1>21, MessageTypes, QueueType DEF SetPush
  <2>2. hist' \in History
    BY <1>0, <1>21, OutcomeType, RoomType DEF SetPush
  <2>3. report' \in [Threads -> [channel : Channel, value : Value]]
    BY <1>0, <1>21, NoReportType DEF SetPush
  <2> QED BY <1>21, <2>1, <2>2, <2>3 DEF SetPush, TypeInv, TypeOK, ConnStates
<1>22. CASE SetResult
  <2>1. out_queue' \in Seq(Message) /\ Len(out_queue') <= QueueSize
    BY <1>0, <1>22, MessageTypes, QueueType DEF SetResult
  <2>2. pc' \in ConnStates /\ hist' \in History
    BY <1>22, GotoType DEF SetResult, ConnStates
  <2> QED BY <1>22, <2>1, <2>2 DEF SetResult, TypeInv, TypeOK
<1>23. CASE Send
  <2>1. pc' \in ConnStates /\ hist' \in History
    BY <1>23, GotoType DEF Send, ConnStates
  <2>2. out_queue' \in Seq(Message) /\ Len(out_queue') <= QueueSize /\ Head(out_queue) \in Message
    BY <1>0, <1>23 DEF Send
  <2>3. inbox' \in Seq(Inbound) /\ server' \in [values : [Channel -> Value], registered : BOOLEAN,
                                              seen : {"nothing", "register", "other"}]
    BY <1>23, <2>2, ServeType DEF Send
  <2> QED BY <1>23, <2>1, <2>2, <2>3 DEF Send, TypeInv, TypeOK
<1>24. CASE Stop
  BY <1>24 DEF Stop, TypeInv, TypeOK
<1>25. ASSUME NEW c \in Channel, NEW v \in Value, ServerSets(c, v) PROVE TypeInv'
  <2>1. [kind |-> "set", channel |-> c, value |-> v] \in Inbound
    BY DEF Inbound
  <2>2. hist' \in History /\ inbox' \in Seq(Inbound)
    BY <1>0, <1>25, <2>1, OtherType DEF ServerSets, TypeInv
  <2> QED BY <1>25, <2>2 DEF ServerSets, TypeInv, TypeOK
<1>26. CASE Hear
  <2>1. hist' \in History
    BY <1>0, <1>26, NewReportType DEF Hear
  <2> QED BY <1>0, <1>26, <2>1 DEF Hear, TypeInv, TypeOK, Steps
<1>27. ASSUME NEW t \in Reporters, NEW c \in Channel, NEW v \in Value, SetValue(t, c, v),
             hist' \in History, heard' \in [on_changed : BOOLEAN, user_data : BOOLEAN]
      PROVE  TypeInv'
  <2>1. value' \in [Channel -> Value] /\ step' \in [Reporters -> Steps]
        /\ report' \in [Threads -> [channel : Channel, value : Value]]
    BY <1>0, <1>27 DEF SetValue, Steps
  <2> QED BY <1>27, <2>1 DEF SetValue, TypeInv, TypeOK
<1>28. ASSUME NEW c \in Channel, NEW v \in Value, MqttChange(c, v) PROVE TypeInv'
  <2>1. hist' \in History
    BY <1>0, <1>28, BeginType DEF MqttChange
  <2>2. heard' \in [on_changed : BOOLEAN, user_data : BOOLEAN]
    BY <1>28 DEF MqttChange, TypeInv, TypeOK
  <2> QED BY <1>0, <1>28, <1>27, <2>1, <2>2 DEF MqttChange
<1>29. ASSUME NEW c \in Channel, NEW v \in Value, W1Change(c, v) PROVE TypeInv'
  <2>1. hist' \in History
    BY <1>0, <1>29, BeginType, NewReportType DEF W1Change
  <2>2. heard' \in [on_changed : BOOLEAN, user_data : BOOLEAN]
    BY <1>29 DEF W1Change, TypeInv, TypeOK
  <2> QED BY <1>0, <1>29, <1>27, <2>1, <2>2 DEF W1Change
<1>30. ASSUME NEW t \in Reporters, Get(t) PROVE TypeInv'
  <2>1. report' \in [Threads -> [channel : Channel, value : Value]] /\ step' \in [Reporters -> Steps]
    <3>1. step' = [step EXCEPT ![t] = "check"]
      BY <1>30 DEF Get
    <3>2. ASSUME NEW v \in Readable(t, report[t].channel),
                 report' = [report EXCEPT ![t].value = v]
          PROVE  report' \in [Threads -> [channel : Channel, value : Value]]
      <4>1. report[t].channel \in Channel
        BY <1>0
      <4>2. v \in Value
        BY <1>0, <4>1, ReadableType
      <4> QED BY <1>0, <3>2, <4>2
    <3> QED BY <1>0, <1>30, <3>1, <3>2 DEF Get, Steps
  <2> QED BY <1>30, <2>1 DEF Get, TypeInv, TypeOK
<1>31. ASSUME NEW t \in Reporters, Check(t) PROVE TypeInv'
  <2>1. hist' \in History
    <3>1. Outcome(hist, t, FALSE) \in History
      BY <1>0, OutcomeType
    <3> QED BY <1>0, <1>31, <3>1 DEF Check
  <2>2. report' \in [Threads -> [channel : Channel, value : Value]] /\ step' \in [Reporters -> Steps]
    BY <1>0, <1>31, NoReportType DEF Check, Steps
  <2>3. heard' \in [on_changed : BOOLEAN, user_data : BOOLEAN]
    <3>1. NothingHeard \in [on_changed : BOOLEAN, user_data : BOOLEAN]
      BY DEF NothingHeard
    <3>2. heard' = heard \/ heard' = NothingHeard
      BY <1>31 DEF Check
    <3> QED BY <3>1, <3>2 DEF TypeInv, TypeOK
  <2> QED BY <1>31, <2>1, <2>2, <2>3 DEF Check, TypeInv, TypeOK
<1>32. ASSUME NEW t \in Reporters, Load(t) PROVE TypeInv'
  <2>1. fault' \in {"none"} \cup Reporters
    BY <1>32 DEF Load, Fault, TypeInv, TypeOK
  <2>2. step' \in [Reporters -> Steps] /\ target' \in [Reporters -> 0 .. MaxConnections]
    <3>1. CASE IF t = Mqtt THEN heard.user_data ELSE on_changed /\ user_data
      <4>1. step' = [step EXCEPT ![t] = "deref"] /\ UNCHANGED target
        BY <1>32, <3>1 DEF Load
      <4> QED BY <1>0, <4>1 DEF Steps
    <3>2. CASE ~(IF t = Mqtt THEN heard.user_data ELSE on_changed /\ user_data)
      BY <1>0, <1>32, <3>2 DEF Load, Fault
    <3> QED BY <3>1, <3>2
  <2> QED BY <1>32, <2>1, <2>2 DEF Load, Fault, TypeInv, TypeOK
<1>33. ASSUME NEW t \in Reporters, Deref(t) PROVE TypeInv'
  <2>1. fault' \in {"none"} \cup Reporters
    BY <1>33 DEF Deref, Fault, TypeInv, TypeOK
  <2>2. step' \in [Reporters -> Steps] /\ target' \in [Reporters -> 0 .. MaxConnections]
    <3>1. CASE pc # "finished"
      <4>1. /\ target' = [target EXCEPT ![t] = connection]
            /\ step' = [step EXCEPT ![t] = "push"]
        BY <1>33, <3>1 DEF Deref
      <4> QED BY <1>0, <4>1 DEF Steps
    <3>2. CASE pc = "finished"
      BY <1>0, <1>33, <3>2 DEF Deref, Fault
    <3> QED BY <3>1, <3>2
  <2> QED BY <1>33, <2>1, <2>2 DEF Deref, Fault, TypeInv, TypeOK
<1>34. ASSUME NEW t \in Reporters, Push(t) PROVE TypeInv'
  <2>1. CASE live /\ target[t] = connection
    <3>1. out_queue' \in Seq(Message) /\ Len(out_queue') <= QueueSize
      BY <1>0, <1>34, <2>1, MessageTypes, QueueType DEF Push
    <3>2. Outcome(hist, t, Room) \in History
      BY <1>0, OutcomeType, RoomType
    <3>3. hist' \in History
      BY <1>34, <2>1, <3>2 DEF Push, History
    <3>4. /\ report' \in [Threads -> [channel : Channel, value : Value]]
          /\ step' \in [Reporters -> Steps] /\ target' \in [Reporters -> 0 .. MaxConnections]
      <4>1. /\ target' = [target EXCEPT ![t] = 0] /\ report' = [report EXCEPT ![t] = NoReport]
            /\ step' = [step EXCEPT ![t] = "idle"]
        BY <1>34, <2>1 DEF Push
      <4>2. 0 \in 0 .. MaxConnections
        OBVIOUS
      <4> QED BY <1>0, <4>1, <4>2, NoReportType DEF Steps
    <3>5. heard' \in [on_changed : BOOLEAN, user_data : BOOLEAN]
      <4>1. NothingHeard \in [on_changed : BOOLEAN, user_data : BOOLEAN]
        BY DEF NothingHeard
      <4>2. heard' = heard \/ heard' = NothingHeard
        BY <1>34, <2>1 DEF Push
      <4> QED BY <4>1, <4>2 DEF TypeInv, TypeOK
    <3> QED BY <1>34, <2>1, <3>1, <3>3, <3>4, <3>5 DEF Push, TypeInv, TypeOK
  <2>2. CASE ~(live /\ target[t] = connection)
    BY <1>34, <2>2 DEF Push, Fault, TypeInv, TypeOK
  <2> QED BY <2>1, <2>2
<1>35. CASE UNCHANGED vars
  BY <1>35 DEF vars, TypeInv, TypeOK
<1> QED
  BY <1>1, <1>2, <1>3, <1>4, <1>5, <1>6, <1>7, <1>8, <1>9, <1>10, <1>11, <1>12,
     <1>13, <1>14, <1>15, <1>16, <1>17, <1>18, <1>19, <1>20, <1>21, <1>22, <1>23,
     <1>24, <1>25, <1>26, <1>28, <1>29, <1>30, <1>31, <1>32, <1>33, <1>34, <1>35,
     <1>36, <1>37, <1>38
  DEF Next, ConnStep, ReportStep
-----------------------------------------------------------------------------
(* When a report can stumble.                                              *)

LEMMA FaultInitial == Init => FaultInv
<1> USE DevConnectionAssumption
<1> SUFFICES ASSUME Init PROVE FaultInv
  OBVIOUS
<1>1. CallbackInv
  BY DEF Init, CallbackInv, Served, InWindow, Reporters, NothingHeard
<1>2. FaultOnlyWhenOverlapped
  BY DEF Init, FaultOnlyWhenOverlapped, Reporters
<1>3. \A t \in Reporters : SafeInv(t)
  BY DEF Init, SafeInv
<1> QED BY <1>1, <1>2, <1>3 DEF FaultInv

\* The connection's thread moves to s: into a window, out of one, or elsewhere
\* without touching what the reports read.
LEMMA SafeMove ==
  ASSUME TypeInv, FaultInv, NEW s, pc' = s, UNCHANGED <<reportVars, fault>>, fault = "none",
         \A t \in Reporters : hist'.overlapped[t] <=>
           hist.overlapped[t] \/ (InWindow(s) /\ step[t] # "idle"),
         InWindow(s) \/ InWindow(pc) \/ UNCHANGED <<on_changed, user_data, connection>>
  PROVE  (\A t \in Reporters : SafeInv(t)') /\ FaultOnlyWhenOverlapped'
<1>1. ASSUME NEW t \in Reporters PROVE SafeInv(t)'
  <2> USE DEF FaultInv, SafeInv, reportVars
  <2>1. CASE InWindow(s)
    BY <2>1
  <2>2. CASE InWindow(pc)
    BY <2>2 DEF InWindow
  <2>3. CASE ~InWindow(s) /\ UNCHANGED <<on_changed, user_data, connection>>
    BY <2>3
  <2> QED BY <2>1, <2>2, <2>3
<1>2. FaultOnlyWhenOverlapped'
  BY DevConnectionAssumption DEF FaultOnlyWhenOverlapped, Reporters
<1> QED BY <1>1, <1>2

LEMMA FaultKept ==
  ASSUME TypeInv, FaultInv, [Next]_vars
  PROVE  FaultInv'
<1> USE DevConnectionAssumption DEF connVars, cbVars, reportVars, serverVars, reporterUnchanged
<1>0. /\ {W1, Mqtt} \subseteq Reporters /\ Conn \in Threads /\ Reporters \subseteq Threads
      /\ Conn \notin Reporters
      /\ hist \in History /\ step \in [Reporters -> Steps] /\ pc \in ConnStates
      /\ report \in [Threads -> [channel : Channel, value : Value]]
      /\ target \in [Reporters -> 0 .. MaxConnections] /\ connection \in 0 .. MaxConnections
  BY DEF Reporters, Threads, TypeInv, TypeOK
<1>a. CASE UNCHANGED vars
  BY <1>a DEF vars, FaultInv, CallbackInv, SafeInv, FaultOnlyWhenOverlapped, InWindow
<1> SUFFICES ASSUME Next PROVE FaultInv'
  BY <1>a
<1>b. fault = "none"
  BY DEF Next
<1>c. ASSUME NEW s, Goto(s)
      PROVE  /\ pc' = s
             /\ \A t \in Reporters : hist'.overlapped[t] <=>
                  hist.overlapped[t] \/ (InWindow(s) /\ step[t] # "idle")
  BY <1>0, <1>c, OverlappingType DEF Goto
<1>1. CASE ConnectFails
  <2>1. (\A t \in Reporters : SafeInv(t)') /\ FaultOnlyWhenOverlapped'
    BY <1>1, <1>b, <1>c, SafeMove DEF ConnectFails, InWindow
  <2>2. CallbackInv'
    BY <1>1, <1>c DEF ConnectFails, FaultInv, CallbackInv, InWindow, Served
  <2> QED BY <2>1, <2>2 DEF FaultInv
<1>2. CASE LeaveThread
  <2>1. (\A t \in Reporters : SafeInv(t)') /\ FaultOnlyWhenOverlapped'
    BY <1>2, <1>b, <1>c, SafeMove DEF LeaveThread, InWindow
  <2>2. CallbackInv'
    BY <1>2, <1>c DEF LeaveThread, FaultInv, CallbackInv, InWindow, Served
  <2> QED BY <2>1, <2>2 DEF FaultInv
<1>3. CASE LeaveLoop
  <2>1. (\A t \in Reporters : SafeInv(t)') /\ FaultOnlyWhenOverlapped'
    BY <1>3, <1>b, <1>c, SafeMove DEF LeaveLoop, InWindow
  <2>2. CallbackInv'
    BY <1>3, <1>c DEF LeaveLoop, FaultInv, CallbackInv, InWindow, Served
  <2> QED BY <2>1, <2>2 DEF FaultInv
<1>4. CASE Iterate
  <2>1. (\A t \in Reporters : SafeInv(t)') /\ FaultOnlyWhenOverlapped'
    BY <1>4, <1>b, <1>c, SafeMove DEF Iterate, InWindow
  <2>2. CallbackInv'
    BY <1>4, <1>c DEF Iterate, FaultInv, CallbackInv, InWindow, Served
  <2> QED BY <2>1, <2>2 DEF FaultInv
<1>5. CASE IterateFails
  <2>1. (\A t \in Reporters : SafeInv(t)') /\ FaultOnlyWhenOverlapped'
    BY <1>5, <1>b, <1>c, SafeMove DEF IterateFails, InWindow
  <2>2. CallbackInv'
    BY <1>5, <1>c DEF IterateFails, FaultInv, CallbackInv, InWindow, Served
  <2> QED BY <2>1, <2>2 DEF FaultInv
<1>6. CASE IterateNoData
  <2>1. (\A t \in Reporters : SafeInv(t)') /\ FaultOnlyWhenOverlapped'
    BY <1>6, <1>b, <1>c, SafeMove DEF IterateNoData, InWindow
  <2>2. CallbackInv'
    BY <1>6, <1>c DEF IterateNoData, FaultInv, CallbackInv, InWindow, Served
  <2> QED BY <2>1, <2>2 DEF FaultInv
<1>7. CASE NothingToSend
  <2>1. (\A t \in Reporters : SafeInv(t)') /\ FaultOnlyWhenOverlapped'
    BY <1>7, <1>b, <1>c, SafeMove DEF NothingToSend, InWindow
  <2>2. CallbackInv'
    BY <1>7, <1>c DEF NothingToSend, FaultInv, CallbackInv, InWindow, Served
  <2> QED BY <2>1, <2>2 DEF FaultInv
<1>8. CASE FreeSrpc
  <2>1. (\A t \in Reporters : SafeInv(t)') /\ FaultOnlyWhenOverlapped'
    BY <1>8, <1>b, <1>c, SafeMove DEF FreeSrpc, InWindow
  <2>2. CallbackInv'
    BY <1>8, <1>c DEF FreeSrpc, FaultInv, CallbackInv, InWindow, Served
  <2> QED BY <2>1, <2>2 DEF FaultInv
<1>9. CASE StartMqtt
  <2>1. (\A t \in Reporters : SafeInv(t)') /\ FaultOnlyWhenOverlapped'
    BY <1>9, <1>b, <1>c, SafeMove DEF StartMqtt, InWindow
  <2>2. CallbackInv'
    BY <1>9, <1>c DEF StartMqtt, FaultInv, CallbackInv, InWindow, Served
  <2> QED BY <2>1, <2>2 DEF FaultInv
<1>10. CASE JoinMqtt
  <2>1. (\A t \in Reporters : SafeInv(t)') /\ FaultOnlyWhenOverlapped'
    BY <1>10, <1>b, <1>c, SafeMove DEF JoinMqtt, InWindow
  <2>2. CallbackInv'
    BY <1>10, <1>c DEF JoinMqtt, FaultInv, CallbackInv, InWindow, Served
  <2> QED BY <2>1, <2>2 DEF FaultInv
<1>36. CASE DisconnectMqtt
  <2>1. (\A t \in Reporters : SafeInv(t)') /\ FaultOnlyWhenOverlapped'
    BY <1>36, <1>b, <1>c, SafeMove DEF DisconnectMqtt, InWindow
  <2>2. CallbackInv'
    BY <1>36, <1>c DEF DisconnectMqtt, FaultInv, CallbackInv, InWindow, Served
  <2> QED BY <2>1, <2>2 DEF FaultInv
<1>37. CASE MqttSticks
  BY <1>37 DEF MqttSticks, FaultInv, CallbackInv, SafeInv, FaultOnlyWhenOverlapped, InWindow
<1>38. CASE Lose
  <2>1. hist'.overlapped = hist.overlapped
    BY <1>0, <1>38, LoseType
  <2>2. pc = "out" /\ pc' = "loop" /\ UNCHANGED <<connection, live, cbVars, step, target, heard, fault>>
    BY <1>38 DEF Lose
  <2>3. CallbackInv' /\ FaultOnlyWhenOverlapped'
    BY <1>b, <2>2 DEF FaultInv, CallbackInv, FaultOnlyWhenOverlapped, InWindow, Served, Reporters
  <2>4. ASSUME NEW t \in Reporters PROVE SafeInv(t)'
    BY <2>1, <2>2 DEF FaultInv, SafeInv, InWindow
  <2> QED BY <2>3, <2>4 DEF FaultInv
<1>11. CASE OnRegistered
  <2>1. (\A t \in Reporters : SafeInv(t)') /\ FaultOnlyWhenOverlapped'
    BY <1>11, <1>b, <1>c, SafeMove DEF OnRegistered, InWindow, Receive
  <2>2. CallbackInv'
    BY <1>11, <1>c DEF OnRegistered, FaultInv, CallbackInv, InWindow, Served, Receive
  <2> QED BY <2>1, <2>2 DEF FaultInv
<1>12. CASE OnRefused
  <2>1. (\A t \in Reporters : SafeInv(t)') /\ FaultOnlyWhenOverlapped'
    BY <1>12, <1>b, <1>c, SafeMove DEF OnRefused, InWindow, Receive
  <2>2. CallbackInv'
    BY <1>12, <1>c DEF OnRefused, FaultInv, CallbackInv, InWindow, Served, Receive
  <2> QED BY <2>1, <2>2 DEF FaultInv
<1>13. CASE OnVersionError
  <2>1. (\A t \in Reporters : SafeInv(t)') /\ FaultOnlyWhenOverlapped'
    BY <1>13, <1>b, <1>c, SafeMove DEF OnVersionError, InWindow, Receive
  <2>2. CallbackInv'
    BY <1>13, <1>c DEF OnVersionError, FaultInv, CallbackInv, InWindow, Served, Receive
  <2> QED BY <2>1, <2>2 DEF FaultInv
<1>14. CASE SetResult
  <2>1. (\A t \in Reporters : SafeInv(t)') /\ FaultOnlyWhenOverlapped'
    BY <1>14, <1>b, <1>c, SafeMove DEF SetResult, InWindow
  <2>2. CallbackInv'
    BY <1>14, <1>c DEF SetResult, FaultInv, CallbackInv, InWindow, Served
  <2> QED BY <2>1, <2>2 DEF FaultInv
<1>15. CASE Send
  <2>1. (\A t \in Reporters : SafeInv(t)') /\ FaultOnlyWhenOverlapped'
    BY <1>15, <1>b, <1>c, SafeMove DEF Send, InWindow
  <2>2. CallbackInv'
    BY <1>15, <1>c DEF Send, FaultInv, CallbackInv, InWindow, Served
  <2> QED BY <2>1, <2>2 DEF FaultInv
<1>16. CASE SetOnChanged
  <2>1. PICK s \in {"install_data", "clear_data"} : Goto(s) /\ (s = "install_data" <=> pc = "install")
    BY <1>16 DEF SetOnChanged
  <2>2. (\A t \in Reporters : SafeInv(t)') /\ FaultOnlyWhenOverlapped'
    BY <1>16, <1>b, <1>c, <2>1, SafeMove DEF SetOnChanged, InWindow
  <2>3. CallbackInv'
    BY <1>16, <1>c, <2>1 DEF SetOnChanged, FaultInv, CallbackInv, InWindow, Served
  <2> QED BY <2>2, <2>3 DEF FaultInv
<1>17. CASE SetUserData
  <2>1. PICK s \in {"start_mqtt", "free_mqtt"} : Goto(s) /\ (s = "start_mqtt" <=> pc = "install_data")
    BY <1>17 DEF SetUserData
  <2>2. (\A t \in Reporters : SafeInv(t)') /\ FaultOnlyWhenOverlapped'
    BY <1>17, <1>b, <1>c, <2>1, SafeMove DEF SetUserData, InWindow
  <2>3. CallbackInv'
    BY <1>17, <1>c, <2>1 DEF SetUserData, FaultInv, CallbackInv, InWindow, Served
  <2> QED BY <2>2, <2>3 DEF FaultInv
<1>18. CASE Connect
  <2>1. pc' = "loop" /\ \A t \in Reporters : hist'.overlapped[t] <=> hist.overlapped[t]
    BY <1>18, <1>c DEF Connect, InWindow
  <2>2. ~on_changed /\ step[Mqtt] = "idle" /\ pc = "connect"
    BY <1>18 DEF Connect, FaultInv, CallbackInv
  <2>3. ASSUME NEW t \in Reporters PROVE SafeInv(t)'
    BY <1>18, <2>1, <2>2 DEF Connect, FaultInv, SafeInv, InWindow
  <2>4. CallbackInv'
    BY <1>18, <2>1 DEF Connect, FaultInv, CallbackInv, InWindow, Served
  <2>5. FaultOnlyWhenOverlapped'
    BY <1>18, <1>b DEF Connect, FaultOnlyWhenOverlapped, Reporters
  <2> QED BY <2>3, <2>4, <2>5 DEF FaultInv
<1>19. CASE Register
  <2>1. \A t \in Reporters : hist'.overlapped[t] <=> hist.overlapped[t]
    BY <1>0, <1>19 DEF Register, History
  <2>2. pc = "loop" /\ pc' = "iterate" /\ UNCHANGED <<connection, live, cbVars, step, target, heard, fault>>
    BY <1>19 DEF Register
  <2>3. CallbackInv' /\ FaultOnlyWhenOverlapped'
    BY <1>b, <2>2 DEF FaultInv, CallbackInv, FaultOnlyWhenOverlapped, InWindow, Served, Reporters
  <2>4. ASSUME NEW t \in Reporters PROVE SafeInv(t)'
    BY <2>1, <2>2 DEF FaultInv, SafeInv, InWindow
  <2> QED BY <2>3, <2>4 DEF FaultInv
<1>20. CASE OwnCall
  <2>1. \A t \in Reporters : hist'.overlapped[t] <=> hist.overlapped[t]
    BY <1>0, <1>20, OtherType DEF OwnCall
  <2>2. pc = "loop" /\ pc' = "loop" /\ UNCHANGED <<connection, live, cbVars, step, target, heard, fault>>
    BY <1>20 DEF OwnCall
  <2>3. CallbackInv' /\ FaultOnlyWhenOverlapped'
    BY <1>b, <2>2 DEF FaultInv, CallbackInv, FaultOnlyWhenOverlapped, InWindow, Served, Reporters
  <2>4. ASSUME NEW t \in Reporters PROVE SafeInv(t)'
    BY <2>1, <2>2 DEF FaultInv, SafeInv, InWindow
  <2> QED BY <2>3, <2>4 DEF FaultInv
<1>21. CASE OnSetValue
  <2>1. \A t \in Reporters : hist'.overlapped[t] <=> hist.overlapped[t]
    BY <1>0, <1>21, BeginType DEF OnSetValue
  <2>2. pc = "iterate" /\ pc' = "set_get" /\ UNCHANGED <<connection, live, cbVars, step, target, heard, fault>>
    BY <1>21 DEF OnSetValue, Receive
  <2>3. CallbackInv' /\ FaultOnlyWhenOverlapped'
    BY <1>b, <2>2 DEF FaultInv, CallbackInv, FaultOnlyWhenOverlapped, InWindow, Served, Reporters
  <2>4. ASSUME NEW t \in Reporters PROVE SafeInv(t)'
    BY <2>1, <2>2 DEF FaultInv, SafeInv, InWindow
  <2> QED BY <2>3, <2>4 DEF FaultInv
<1>22. CASE SetPush
  <2>1. \A t \in Reporters : hist'.overlapped[t] <=> hist.overlapped[t]
    BY <1>0, <1>22, OutcomeType, RoomType DEF SetPush
  <2>2. pc = "set_push" /\ pc' = "set_result" /\ UNCHANGED <<connection, live, cbVars, step, target, heard, fault>>
    BY <1>22 DEF SetPush
  <2>3. CallbackInv' /\ FaultOnlyWhenOverlapped'
    BY <1>b, <2>2 DEF FaultInv, CallbackInv, FaultOnlyWhenOverlapped, InWindow, Served, Reporters
  <2>4. ASSUME NEW t \in Reporters PROVE SafeInv(t)'
    BY <2>1, <2>2 DEF FaultInv, SafeInv, InWindow
  <2> QED BY <2>3, <2>4 DEF FaultInv
<1>23. CASE SetGet
  <2>1. pc = "set_get" /\ pc' = "set_push"
        /\ UNCHANGED <<connection, live, cbVars, step, target, heard, fault>>
    BY <1>23, <1>c DEF SetGet
  <2>2. \A t \in Reporters : hist'.overlapped[t] <=> hist.overlapped[t]
    BY <1>23, <1>c DEF SetGet, InWindow
  <2>3. CallbackInv' /\ FaultOnlyWhenOverlapped'
    BY <1>b, <2>1 DEF FaultInv, CallbackInv, FaultOnlyWhenOverlapped, InWindow, Served, Reporters
  <2>4. ASSUME NEW t \in Reporters PROVE SafeInv(t)'
    BY <2>1, <2>2 DEF FaultInv, SafeInv, InWindow
  <2> QED BY <2>3, <2>4 DEF FaultInv
<1>24. CASE Stop
  BY <1>24 DEF Stop, FaultInv, CallbackInv, SafeInv, FaultOnlyWhenOverlapped, InWindow
<1>25. ASSUME NEW c \in Channel, NEW v \in Value, ServerSets(c, v) PROVE FaultInv'
  <2>1. hist'.overlapped = hist.overlapped
    BY <1>0, <1>25, OtherType DEF ServerSets
  <2> QED BY <1>25, <2>1 DEF ServerSets, FaultInv, CallbackInv, SafeInv, FaultOnlyWhenOverlapped, InWindow
<1>26. CASE Hear
  <2>1. /\ \A u \in Reporters : u # Mqtt => hist'.overlapped[u] = hist.overlapped[u]
        /\ hist'.overlapped[Mqtt] <=> InWindow(pc)
    BY <1>0, <1>26, NewReportType DEF Hear
  <2>2. heard'.on_changed = on_changed /\ heard'.user_data = user_data /\ mqtt_running
        /\ step' = [step EXCEPT ![Mqtt] = "heard"]
        /\ UNCHANGED <<pc, connVars, cbVars, target, fault>>
    BY <1>26 DEF Hear
  <2>3. CallbackInv' /\ FaultOnlyWhenOverlapped'
    BY <1>0, <1>b, <2>2 DEF FaultInv, CallbackInv, FaultOnlyWhenOverlapped, InWindow, Served, Reporters
  <2>4. ASSUME NEW t \in Reporters PROVE SafeInv(t)'
    <3>1. CASE t = Mqtt
      BY <1>0, <2>1, <2>2, <3>1 DEF SafeInv, InWindow
    <3>2. CASE t # Mqtt
      BY <1>0, <2>1, <2>2, <3>2 DEF FaultInv, SafeInv, InWindow
    <3> QED BY <3>1, <3>2
  <2> QED BY <2>3, <2>4 DEF FaultInv
<1>27. ASSUME NEW c \in Channel, NEW v \in Value, MqttChange(c, v) PROVE FaultInv'
  <2>1. hist'.overlapped = hist.overlapped
    BY <1>0, <1>27, BeginType DEF MqttChange
  <2>2. /\ heard'.on_changed = heard.on_changed
        /\ heard'.user_data = heard.user_data \/ heard'.user_data = user_data
        /\ step' = [step EXCEPT ![Mqtt] = "get"] /\ step[Mqtt] = "heard"
        /\ UNCHANGED <<pc, connVars, cbVars, target, fault>>
    BY <1>27 DEF MqttChange, SetValue, TypeInv, TypeOK
  <2>3. CallbackInv' /\ FaultOnlyWhenOverlapped'
    BY <1>0, <1>b, <2>2 DEF FaultInv, CallbackInv, FaultOnlyWhenOverlapped, InWindow, Served, Reporters
  <2>4. ASSUME NEW t \in Reporters PROVE SafeInv(t)'
    BY <1>0, <2>1, <2>2 DEF FaultInv, SafeInv, InWindow
  <2> QED BY <2>3, <2>4 DEF FaultInv
<1>28. ASSUME NEW c \in Channel, NEW v \in Value, W1Change(c, v) PROVE FaultInv'
  <2>1. /\ \A u \in Reporters : u # W1 => hist'.overlapped[u] = hist.overlapped[u]
        /\ hist'.overlapped[W1] <=> InWindow(pc)
    <3>1. Begin(hist, W1, c) \in History /\ Begin(hist, W1, c).overlapped = hist.overlapped
          /\ Begin(hist, W1, c).changes = hist.changes
      BY <1>0, BeginType
    <3> QED BY <1>0, <1>28, <3>1, NewReportType DEF W1Change
  <2>2. step' = [step EXCEPT ![W1] = "get"] /\ UNCHANGED <<pc, connVars, cbVars, target, heard, fault>>
    BY <1>28 DEF W1Change, SetValue
  <2>3. CallbackInv' /\ FaultOnlyWhenOverlapped'
    BY <1>0, <1>b, <2>2 DEF FaultInv, CallbackInv, FaultOnlyWhenOverlapped, InWindow, Served, Reporters
  <2>4. ASSUME NEW t \in Reporters PROVE SafeInv(t)'
    <3>1. CASE t = W1
      BY <1>0, <2>1, <2>2, <3>1 DEF SafeInv, InWindow
    <3>2. CASE t # W1
      BY <1>0, <2>1, <2>2, <3>2 DEF FaultInv, SafeInv, InWindow
    <3> QED BY <3>1, <3>2
  <2> QED BY <2>3, <2>4 DEF FaultInv
<1>29. ASSUME NEW t \in Reporters, Get(t) PROVE FaultInv'
  <2>1. step' = [step EXCEPT ![t] = "check"] /\ step[t] = "get"
        /\ UNCHANGED <<pc, connVars, cbVars, target, heard, fault, hist>>
    BY <1>29 DEF Get
  <2>2. CallbackInv' /\ FaultOnlyWhenOverlapped'
    BY <1>0, <1>b, <2>1 DEF FaultInv, CallbackInv, FaultOnlyWhenOverlapped, InWindow, Served, Reporters
  <2>3. ASSUME NEW u \in Reporters PROVE SafeInv(u)'
    BY <1>0, <2>1 DEF FaultInv, SafeInv, InWindow
  <2> QED BY <2>2, <2>3 DEF FaultInv
<1>30. ASSUME NEW t \in Reporters, Check(t) PROVE FaultInv'
  <2>0. step[t] = "check" /\ UNCHANGED <<pc, connVars, cbVars, target, fault>>
    BY <1>30 DEF Check
  <2>1. CASE IF t = Mqtt THEN heard.on_changed ELSE on_changed
    <3>1. step' = [step EXCEPT ![t] = "load"] /\ UNCHANGED <<heard, hist>>
      BY <1>30, <2>1 DEF Check
    <3>2. CallbackInv' /\ FaultOnlyWhenOverlapped'
      BY <1>0, <1>b, <2>0, <3>1 DEF FaultInv, CallbackInv, FaultOnlyWhenOverlapped, InWindow, Served, Reporters
    <3>3. ASSUME NEW u \in Reporters PROVE SafeInv(u)'
      BY <1>0, <2>0, <2>1, <3>1 DEF FaultInv, SafeInv, InWindow
    <3> QED BY <3>2, <3>3 DEF FaultInv
  <2>2. CASE ~(IF t = Mqtt THEN heard.on_changed ELSE on_changed)
    <3>1. /\ step' = [step EXCEPT ![t] = "idle"] /\ hist' = Outcome(hist, t, FALSE)
          /\ heard' = IF t = Mqtt THEN NothingHeard ELSE heard
      BY <1>30, <2>2 DEF Check
    <3>2. \A u \in Reporters : u # t => (hist'.overlapped[u] <=> hist.overlapped[u])
      BY <1>0, <3>1, OutcomeType
    <3>3. CallbackInv' /\ FaultOnlyWhenOverlapped'
      BY <1>0, <1>b, <2>0, <3>1
      DEF FaultInv, CallbackInv, FaultOnlyWhenOverlapped, InWindow, Served, Reporters, NothingHeard
    <3>4. ASSUME NEW u \in Reporters PROVE SafeInv(u)'
      BY <1>0, <2>0, <3>1, <3>2 DEF FaultInv, SafeInv, InWindow
    <3> QED BY <3>3, <3>4 DEF FaultInv
  <2> QED BY <2>1, <2>2
<1>31. ASSUME NEW t \in Reporters, Fault(t, t), hist.overlapped[t] PROVE FaultInv'
  BY <1>31 DEF Fault, FaultInv, CallbackInv, SafeInv, FaultOnlyWhenOverlapped, InWindow
<1>32. ASSUME NEW t \in Reporters, Load(t) PROVE FaultInv'
  <2>1. CASE IF t = Mqtt THEN heard.user_data ELSE on_changed /\ user_data
    <3>1. step[t] = "load" /\ step' = [step EXCEPT ![t] = "deref"]
          /\ UNCHANGED <<pc, connVars, cbVars, target, heard, fault, hist>>
      BY <1>32, <2>1 DEF Load
    <3>2. CallbackInv' /\ FaultOnlyWhenOverlapped'
      BY <1>0, <1>b, <3>1 DEF FaultInv, CallbackInv, FaultOnlyWhenOverlapped, InWindow, Served, Reporters
    <3>3. ASSUME NEW u \in Reporters PROVE SafeInv(u)'
      BY <1>0, <3>1 DEF FaultInv, SafeInv, InWindow
    <3> QED BY <3>2, <3>3 DEF FaultInv
  <2>2. CASE ~(IF t = Mqtt THEN heard.user_data ELSE on_changed /\ user_data)
    <3>1. Fault(t, t) /\ step[t] = "load"
      BY <1>32, <2>2 DEF Load
    <3>2. hist.overlapped[t]
      BY <1>0, <2>2, <3>1 DEF FaultInv, CallbackInv, SafeInv, Reporters
    <3> QED BY <1>31, <3>1, <3>2
  <2> QED BY <2>1, <2>2
<1>33. ASSUME NEW t \in Reporters, Deref(t) PROVE FaultInv'
  <2>1. CASE pc # "finished"
    <3>1. step[t] = "deref" /\ step' = [step EXCEPT ![t] = "push"]
          /\ target' = [target EXCEPT ![t] = connection]
          /\ UNCHANGED <<pc, connVars, cbVars, heard, fault, hist>>
      BY <1>33, <2>1 DEF Deref
    <3>2. CallbackInv' /\ FaultOnlyWhenOverlapped'
      BY <1>0, <1>b, <3>1 DEF FaultInv, CallbackInv, FaultOnlyWhenOverlapped, InWindow, Served, Reporters
    <3>3. ASSUME NEW u \in Reporters PROVE SafeInv(u)'
      BY <1>0, <3>1 DEF FaultInv, SafeInv, InWindow
    <3> QED BY <3>2, <3>3 DEF FaultInv
  <2>2. CASE pc = "finished"
    <3>1. Fault(t, t) /\ step[t] = "deref"
      BY <1>33, <2>2 DEF Deref
    <3>2. hist.overlapped[t]
      BY <2>2, <3>1 DEF FaultInv, SafeInv, InWindow
    <3> QED BY <1>31, <3>1, <3>2
  <2> QED BY <2>1, <2>2
<1>34. ASSUME NEW t \in Reporters, Push(t) PROVE FaultInv'
  <2>1. CASE live /\ target[t] = connection
    <3>1. /\ step' = [step EXCEPT ![t] = "idle"] /\ target' = [target EXCEPT ![t] = 0]
          /\ heard' = IF t = Mqtt THEN NothingHeard ELSE heard
          /\ UNCHANGED <<pc, connVars, cbVars, fault>>
      BY <1>34, <2>1 DEF Push
    <3>2. \A u \in Reporters : u # t => (hist'.overlapped[u] <=> hist.overlapped[u])
      <4>1. /\ Outcome(hist, t, Room) \in History
            /\ \A u \in Reporters : u # t =>
                 (Outcome(hist, t, Room).overlapped[u] <=> hist.overlapped[u])
        BY <1>0, OutcomeType, RoomType
      <4> QED BY <1>34, <2>1, <4>1 DEF Push, History
    <3>3. CallbackInv' /\ FaultOnlyWhenOverlapped'
      BY <1>0, <1>b, <3>1
      DEF FaultInv, CallbackInv, FaultOnlyWhenOverlapped, InWindow, Served, Reporters, NothingHeard
    <3>4. ASSUME NEW u \in Reporters PROVE SafeInv(u)'
      BY <1>0, <3>1, <3>2 DEF FaultInv, SafeInv, InWindow
    <3> QED BY <3>3, <3>4 DEF FaultInv
  <2>2. CASE ~(live /\ target[t] = connection)
    <3>1. Fault(t, t) /\ step[t] = "push"
      BY <1>34, <2>2 DEF Push
    <3>2. hist.overlapped[t]
      BY <1>0, <2>2, <3>1 DEF FaultInv, CallbackInv, SafeInv, InWindow, Served, ConnStates
    <3> QED BY <1>31, <3>1, <3>2
  <2> QED BY <2>1, <2>2
<1> QED
  BY <1>1, <1>2, <1>3, <1>4, <1>5, <1>6, <1>7, <1>8, <1>9, <1>10, <1>11, <1>12,
     <1>13, <1>14, <1>15, <1>16, <1>17, <1>18, <1>19, <1>20, <1>21, <1>22, <1>23,
     <1>24, <1>25, <1>26, <1>27, <1>28, <1>29, <1>30, <1>32, <1>33, <1>34, <1>36, <1>37, <1>38
  DEF Next, ConnStep, ReportStep
-----------------------------------------------------------------------------
(* What the server hears first.                                            *)

LEMMA FirstInitial == Init => HeardInv /\ FirstInv
<1> SUFFICES ASSUME Init PROVE HeardInv /\ FirstInv
  OBVIOUS
<1>1. /\ ~on_changed /\ ~heard.on_changed /\ pc = "connect" /\ inbox = <<>>
      /\ registered = 0 /\ connection = 0 /\ out_queue = <<>>
      /\ ~server.registered /\ server.seen = "nothing" /\ hist.strayed = {}
  BY DEF Init, NothingHeard
<1>2. \A t \in Reporters : step[t] = "idle" /\ hist.began[t] = 0
  BY DEF Init
<1>3. Mqtt \in Reporters
  BY DEF Reporters
<1>4. HeardInv
  BY <1>1, <1>2, <1>3 DEF HeardInv
<1>5. FirstInv
  BY <1>1 DEF FirstInv
<1> QED BY <1>4, <1>5

LEMMA FirstKept ==
  ASSUME TypeInv, CallbackInv, HeardInv, FirstInv, [Next]_vars
  PROVE  HeardInv' /\ FirstInv'
<1> USE DevConnectionAssumption DEF connVars, cbVars, reportVars, serverVars, reporterUnchanged
<1>0. /\ {W1, Mqtt} \subseteq Reporters /\ Conn \in Threads /\ Reporters \subseteq Threads
      /\ Conn \notin Reporters
      /\ hist \in History /\ step \in [Reporters -> Steps] /\ pc \in ConnStates
      /\ report \in [Threads -> [channel : Channel, value : Value]]
      /\ value \in [Channel -> Value] /\ connection \in 0 .. MaxConnections
      /\ out_queue \in Seq(Message) /\ Len(out_queue) <= QueueSize
      /\ registered \in {-1, 0, 1}
  BY DEF Reporters, Threads, TypeInv, TypeOK
<1>a. ASSUME NEW s, Goto(s)
      PROVE  pc' = s /\ hist'.began = hist.began /\ hist'.strayed = hist.strayed
  BY <1>0, <1>a, OverlappingType DEF Goto
\* Nothing these properties speak of changes but the place of the thread.
<1>b. ASSUME UNCHANGED <<connection, registered, on_changed, out_queue, step, heard, inbox, server>>,
             hist'.began = hist.began, hist'.strayed = hist.strayed,
             pc' \notin {"install", "set_get", "set_push", "set_result"}
      PROVE  HeardInv' /\ FirstInv'
  BY <1>b DEF HeardInv, FirstInv
\* A message is added to the queue by a registered device.
<1>c. ASSUME NEW m \in Message, Queue(m), server.seen # "nothing", UNCHANGED server,
             hist.strayed \subseteq hist'.strayed, Mqtt \notin hist'.strayed
      PROVE  FirstInv'
  BY <1>c DEF FirstInv
<1>1. CASE ConnectFails
  BY <1>1, <1>a, <1>b DEF ConnectFails
<1>2. CASE LeaveThread
  BY <1>2, <1>a, <1>b DEF LeaveThread
<1>3. CASE LeaveLoop
  BY <1>3, <1>a, <1>b DEF LeaveLoop
<1>4. CASE Iterate
  BY <1>4, <1>a, <1>b DEF Iterate
<1>5. CASE IterateFails
  BY <1>5, <1>a, <1>b DEF IterateFails
<1>6. CASE IterateNoData
  BY <1>6, <1>a, <1>b DEF IterateNoData
<1>7. CASE NothingToSend
  BY <1>7, <1>a, <1>b DEF NothingToSend
<1>8. CASE FreeSrpc
  BY <1>8, <1>a, <1>b DEF FreeSrpc
<1>9. CASE StartMqtt
  BY <1>9, <1>a, <1>b DEF StartMqtt
<1>10. CASE JoinMqtt
  BY <1>10, <1>a, <1>b DEF JoinMqtt
<1>36. CASE DisconnectMqtt
  BY <1>36, <1>a, <1>b DEF DisconnectMqtt
<1>37. CASE MqttSticks
  BY <1>37 DEF MqttSticks, HeardInv, FirstInv
<1>38. CASE Lose
  <2>1. /\ hist'.began = hist.began /\ hist'.strayed = hist.strayed /\ pc' = "loop"
        /\ UNCHANGED <<connection, registered, on_changed, step, heard, inbox, server>>
        /\ out_queue # <<>> /\ out_queue' = Tail(out_queue)
    BY <1>0, <1>38, LoseType DEF Lose
  <2>2. Len(out_queue) = 1 => out_queue' = <<>>
    BY <1>0, <2>1
  <2> QED BY <2>1, <2>2 DEF HeardInv, FirstInv
<1>11. CASE SetUserData
  BY <1>11, <1>a, <1>b DEF SetUserData
<1>12. CASE SetOnChanged
  <2>1. /\ UNCHANGED <<connection, registered, out_queue, step, heard, inbox, server>>
        /\ pc' \in {"install_data", "clear_data"} /\ on_changed' = (pc = "install")
        /\ hist'.began = hist.began /\ hist'.strayed = hist.strayed
    BY <1>12, <1>a DEF SetOnChanged
  <2> QED BY <2>1 DEF HeardInv, FirstInv
<1>13. CASE Connect
  <2>1. /\ hist'.began = hist.began /\ hist'.strayed = hist.strayed
        /\ pc' = "loop" /\ UNCHANGED <<on_changed, step, heard>> /\ connection' = connection + 1
        /\ registered' = 0 /\ out_queue' = <<>> /\ inbox' = <<>> /\ pc = "connect"
        /\ server'.seen = "nothing" /\ server'.registered = FALSE
    BY <1>13, <1>a DEF Connect, TypeInv
  <2>2. ~on_changed /\ step[Mqtt] = "idle" /\ ~heard.on_changed
    BY <2>1 DEF CallbackInv
  <2>3. \A t \in Reporters : hist.began[t] <= connection' /\ hist.began[t] # connection'
    <3> TAKE t \in Reporters
    <3>1. hist.began[t] \in Nat /\ hist.began[t] <= connection /\ connection \in Nat
      BY <1>0 DEF History, HeardInv
    <3> QED BY <2>1, <3>1
  <2>4. HeardInv'
    BY <2>1, <2>2, <2>3 DEF HeardInv
  <2>5. FirstInv'
    BY <2>1 DEF FirstInv
  <2> QED BY <2>4, <2>5
<1>14. CASE Register
  <2>1. /\ hist'.began = hist.began /\ hist'.strayed = hist.strayed
    BY <1>0, <1>14 DEF Register, History
  <2>2. /\ pc' = "iterate" /\ registered = 0 /\ registered' = -1
        /\ UNCHANGED <<connection, on_changed, step, heard, inbox, server>>
    BY <1>14 DEF Register
  <2>3. out_queue = <<>> => Len(out_queue') = 1 /\ Head(out_queue').kind = "register"
    <3>1. PICK read \in [Channel -> Value] : Queue([kind |-> "register", values |-> read])
      BY <1>14 DEF Register
    <3> QED BY <1>0, <3>1, MessageTypes, QueueType
  <2> QED BY <2>1, <2>2, <2>3 DEF HeardInv, FirstInv
<1>15. CASE OwnCall
  <2>1. hist'.began = hist.began /\ hist'.strayed = hist.strayed
    BY <1>0, <1>15, OtherType DEF OwnCall
  <2>2. server.seen # "nothing"
    BY <1>15 DEF OwnCall, HeardInv
  <2>3. FirstInv'
    BY <1>15, <1>c, <2>1, <2>2, MessageTypes DEF OwnCall, FirstInv
  <2>4. HeardInv'
    BY <1>15, <2>1 DEF OwnCall, HeardInv
  <2> QED BY <2>3, <2>4
<1>16. CASE OnRegistered
  <2>1. /\ pc' = "install" /\ hist'.began = hist.began /\ hist'.strayed = hist.strayed
        /\ inbox # <<>> /\ UNCHANGED <<connection, on_changed, out_queue, step, heard, server>>
        /\ registered' = registered \/ registered' = 1
        /\ pc' = "install" => registered' = 1
    BY <1>16, <1>a DEF OnRegistered, Receive
  <2>2. server.seen # "nothing"
    BY <2>1 DEF HeardInv
  <2> QED BY <2>1, <2>2 DEF HeardInv, FirstInv
<1>17. CASE OnRefused
  <2>1. /\ pc' = "out" /\ hist'.began = hist.began /\ hist'.strayed = hist.strayed
        /\ inbox # <<>> /\ UNCHANGED <<connection, on_changed, out_queue, step, heard, server>>
        /\ registered' = registered \/ registered' = 1
        /\ pc' = "install" => registered' = 1
    BY <1>17, <1>a DEF OnRefused, Receive
  <2>2. server.seen # "nothing"
    BY <2>1 DEF HeardInv
  <2> QED BY <2>1, <2>2 DEF HeardInv, FirstInv
<1>18. CASE OnVersionError
  <2>1. /\ pc' = "out" /\ hist'.began = hist.began /\ hist'.strayed = hist.strayed
        /\ inbox # <<>> /\ UNCHANGED <<connection, on_changed, out_queue, step, heard, server>>
        /\ registered' = registered \/ registered' = 1
        /\ pc' = "install" => registered' = 1
    BY <1>18, <1>a DEF OnVersionError, Receive
  <2>2. server.seen # "nothing"
    BY <2>1 DEF HeardInv
  <2> QED BY <2>1, <2>2 DEF HeardInv, FirstInv
<1>19. CASE OnSetValue
  <2>1. hist'.began = hist.began /\ hist'.strayed = hist.strayed
    BY <1>0, <1>19, BeginType DEF OnSetValue
  <2>2. /\ pc' = "set_get" /\ inbox # <<>>
        /\ UNCHANGED <<connection, registered, on_changed, out_queue, step, heard, server>>
    BY <1>19 DEF OnSetValue, Receive
  <2> QED BY <2>1, <2>2 DEF HeardInv, FirstInv
<1>20. CASE SetGet
  <2>1. hist'.began = hist.began /\ hist'.strayed = hist.strayed /\ pc = "set_get" /\ pc' = "set_push"
    BY <1>20, <1>a DEF SetGet
  <2>2. UNCHANGED <<connection, registered, on_changed, out_queue, step, heard, inbox, server>>
    BY <1>20 DEF SetGet
  <2> QED BY <2>1, <2>2 DEF HeardInv, FirstInv
<1>21. CASE SetPush
  <2>1. /\ Outcome(hist, Conn, Room).strayed = hist.strayed
        /\ \A u \in Reporters : Outcome(hist, Conn, Room).began[u] = hist.began[u]
    <3>1. /\ Outcome(hist, Conn, Room).strayed = hist.strayed
          /\ \A u \in Reporters :
               Outcome(hist, Conn, Room).began[u] = IF u = Conn THEN 0 ELSE hist.began[u]
      BY <1>0, RoomOutcome
    <3> QED BY <1>0, <3>1
  <2>2. /\ pc = "set_push" /\ pc' = "set_result" /\ hist' = Outcome(hist, Conn, Room)
        /\ UNCHANGED <<connection, registered, on_changed, step, heard, inbox, server>>
        /\ Queue([kind |-> "value", channel |-> report[Conn].channel, value |-> report[Conn].value])
    BY <1>21 DEF SetPush
  <2>3. server.seen # "nothing"
    BY <2>2 DEF HeardInv
  <2>4. FirstInv'
    BY <1>0, <1>c, <2>1, <2>2, <2>3, MessageTypes DEF FirstInv
  <2>5. HeardInv'
    BY <1>0, <2>1, <2>2, <2>3 DEF HeardInv
  <2> QED BY <2>4, <2>5
<1>22. CASE SetResult
  <2>1. /\ hist'.began = hist.began /\ hist'.strayed = hist.strayed /\ pc = "set_result" /\ pc' = "out"
        /\ UNCHANGED <<connection, registered, on_changed, step, heard, inbox, server>>
        /\ Queue([kind |-> "result"])
    BY <1>22, <1>a DEF SetResult
  <2>2. server.seen # "nothing"
    BY <2>1 DEF HeardInv
  <2>3. FirstInv'
    BY <1>c, <2>1, <2>2, MessageTypes DEF FirstInv
  <2>4. HeardInv'
    BY <2>1 DEF HeardInv
  <2> QED BY <2>3, <2>4
<1>23. CASE Send
  <2>1. /\ hist'.began = hist.began /\ hist'.strayed = hist.strayed /\ pc' = "loop"
        /\ UNCHANGED <<connection, registered, on_changed, step, heard>>
        /\ out_queue # <<>> /\ Serve(Head(out_queue))
    BY <1>23, <1>a DEF Send
  <2>2. Head(out_queue) \in Message
    BY <1>0, <2>1
  <2>3. /\ server.seen # "nothing" => server'.seen = server.seen
        /\ server.seen = "nothing" =>
             server'.seen = IF Head(out_queue).kind = "register" THEN "register" ELSE "other"
    BY <2>1, <2>2, ServeType
  <2>4. server'.seen # "nothing"
    BY <2>3
  <2> QED BY <2>1, <2>3, <2>4 DEF HeardInv, FirstInv
<1>24. CASE Stop
  BY <1>24 DEF Stop, HeardInv, FirstInv
<1>25. ASSUME NEW c \in Channel, NEW v \in Value, ServerSets(c, v) PROVE HeardInv' /\ FirstInv'
  <2>1. hist'.began = hist.began /\ hist'.strayed = hist.strayed
    BY <1>0, <1>25, OtherType DEF ServerSets
  <2>2. server.seen # "nothing" /\ UNCHANGED <<pc, connVars, on_changed, out_queue, step, heard, server>>
    BY <1>25 DEF ServerSets, HeardInv
  <2> QED BY <2>1, <2>2 DEF HeardInv, FirstInv
<1>26. CASE Hear
  <2>1. /\ \A u \in Reporters : u # Mqtt => hist'.began[u] = hist.began[u]
        /\ hist'.began[Mqtt] = connection /\ hist'.strayed = hist.strayed
    BY <1>0, <1>26, NewReportType DEF Hear
  <2>2. heard'.on_changed = on_changed /\ step' = [step EXCEPT ![Mqtt] = "heard"]
        /\ UNCHANGED <<pc, connVars, on_changed, out_queue, serverVars>>
    BY <1>26 DEF Hear
  <2>3. FirstInv'
    BY <2>1, <2>2 DEF FirstInv
  <2>4. \A u \in Reporters : hist'.began[u] <= connection
    BY <1>0, <2>1 DEF HeardInv
  <2>5. HeardInv'
    BY <1>0, <2>1, <2>2, <2>4 DEF HeardInv
  <2> QED BY <2>3, <2>5
<1>27. ASSUME NEW c \in Channel, NEW v \in Value, MqttChange(c, v) PROVE HeardInv' /\ FirstInv'
  <2>1. hist'.began = hist.began /\ hist'.strayed = hist.strayed
    BY <1>0, <1>27, BeginType DEF MqttChange
  <2>2. /\ heard'.on_changed = heard.on_changed
        /\ step' = [step EXCEPT ![Mqtt] = "get"] /\ step[Mqtt] = "heard"
        /\ UNCHANGED <<pc, connVars, on_changed, out_queue, serverVars>>
    BY <1>27 DEF MqttChange, SetValue, TypeInv, TypeOK
  <2> QED BY <1>0, <2>1, <2>2 DEF HeardInv, FirstInv
<1>28. ASSUME NEW c \in Channel, NEW v \in Value, W1Change(c, v) PROVE HeardInv' /\ FirstInv'
  <2>1. /\ \A u \in Reporters : u # W1 => hist'.began[u] = hist.began[u]
        /\ hist'.began[W1] = connection /\ hist'.strayed = hist.strayed
    <3>1. Begin(hist, W1, c) \in History /\ Begin(hist, W1, c).began = hist.began
          /\ Begin(hist, W1, c).strayed = hist.strayed /\ Begin(hist, W1, c).changes = hist.changes
      BY <1>0, BeginType
    <3> QED BY <1>0, <1>28, <3>1, NewReportType DEF W1Change
  <2>2. step' = [step EXCEPT ![W1] = "get"]
        /\ UNCHANGED <<pc, connVars, on_changed, out_queue, heard, serverVars>>
    BY <1>28 DEF W1Change, SetValue
  <2>3. FirstInv'
    BY <2>1, <2>2 DEF FirstInv
  <2>4. \A u \in Reporters : hist'.began[u] <= connection
    BY <1>0, <2>1 DEF HeardInv
  <2>5. HeardInv'
    BY <1>0, <2>1, <2>2, <2>4 DEF HeardInv
  <2> QED BY <2>3, <2>5
<1>29. ASSUME NEW t \in Reporters, Get(t) PROVE HeardInv' /\ FirstInv'
  <2>1. step' = [step EXCEPT ![t] = "check"] /\ step[t] = "get"
        /\ UNCHANGED <<pc, connVars, on_changed, out_queue, heard, serverVars, hist>>
    BY <1>29 DEF Get
  <2> QED BY <1>0, <2>1 DEF HeardInv, FirstInv
<1>30. ASSUME NEW t \in Reporters, Check(t) PROVE HeardInv' /\ FirstInv'
  <2>0. step[t] = "check" /\ UNCHANGED <<pc, connVars, on_changed, out_queue, serverVars>>
    BY <1>30 DEF Check
  <2>1. CASE IF t = Mqtt THEN heard.on_changed ELSE on_changed
    <3>1. step' = [step EXCEPT ![t] = "load"] /\ UNCHANGED <<heard, hist>>
      BY <1>30, <2>1 DEF Check
    <3> QED BY <1>0, <2>0, <2>1, <3>1 DEF HeardInv, FirstInv
  <2>2. CASE ~(IF t = Mqtt THEN heard.on_changed ELSE on_changed)
    <3>1. /\ step' = [step EXCEPT ![t] = "idle"] /\ hist' = Outcome(hist, t, FALSE)
          /\ heard' = IF t = Mqtt THEN NothingHeard ELSE heard
      BY <1>30, <2>2 DEF Check
    <3>2. /\ \A u \in Reporters : hist'.began[u] = IF u = t THEN 0 ELSE hist.began[u]
          /\ hist'.strayed = hist.strayed
      <4>1. /\ Outcome(hist, t, FALSE).strayed = hist.strayed
            /\ \A u \in Reporters :
                 Outcome(hist, t, FALSE).began[u] = IF u = t THEN 0 ELSE hist.began[u]
        BY <1>0, OutcomeType
      <4> QED BY <3>1, <4>1
    <3>3. FirstInv'
      BY <2>0, <3>2 DEF FirstInv
    <3>4. \A u \in Reporters : hist'.began[u] <= connection
      BY <1>0, <3>2 DEF HeardInv
    <3>5. HeardInv'
      BY <1>0, <2>0, <3>1, <3>2, <3>4 DEF HeardInv, NothingHeard
    <3> QED BY <3>3, <3>5
  <2> QED BY <2>1, <2>2
<1>31. ASSUME NEW t \in Reporters, Fault(t, t) PROVE HeardInv' /\ FirstInv'
  BY <1>31 DEF Fault, HeardInv, FirstInv
<1>32. ASSUME NEW t \in Reporters, Load(t) PROVE HeardInv' /\ FirstInv'
  <2>1. CASE IF t = Mqtt THEN heard.user_data ELSE on_changed /\ user_data
    <3>1. step[t] = "load" /\ step' = [step EXCEPT ![t] = "deref"]
          /\ UNCHANGED <<pc, connVars, on_changed, out_queue, heard, serverVars, hist>>
      BY <1>32, <2>1 DEF Load
    <3> QED BY <1>0, <3>1 DEF HeardInv, FirstInv
  <2>2. CASE ~(IF t = Mqtt THEN heard.user_data ELSE on_changed /\ user_data)
    BY <1>31, <1>32, <2>2 DEF Load
  <2> QED BY <2>1, <2>2
<1>33. ASSUME NEW t \in Reporters, Deref(t) PROVE HeardInv' /\ FirstInv'
  <2>1. CASE pc # "finished"
    <3>1. step[t] = "deref" /\ step' = [step EXCEPT ![t] = "push"]
          /\ UNCHANGED <<pc, connVars, on_changed, out_queue, heard, serverVars, hist>>
      BY <1>33, <2>1 DEF Deref
    <3> QED BY <1>0, <3>1 DEF HeardInv, FirstInv
  <2>2. CASE pc = "finished"
    BY <1>31, <1>33, <2>2 DEF Deref
  <2> QED BY <2>1, <2>2
<1>34. ASSUME NEW t \in Reporters, Push(t) PROVE HeardInv' /\ FirstInv'
  <2>1. CASE live /\ target[t] = connection
    <3>1. /\ step' = [step EXCEPT ![t] = "idle"] /\ step[t] = "push"
          /\ heard' = IF t = Mqtt THEN NothingHeard ELSE heard
          /\ UNCHANGED <<pc, connVars, on_changed, serverVars>>
          /\ Queue([kind |-> "value", channel |-> report[t].channel, value |-> report[t].value])
      BY <1>34, <2>1 DEF Push
    <3>2. /\ \A u \in Reporters : hist'.began[u] = IF u = t THEN 0 ELSE hist.began[u]
          /\ hist'.strayed = IF hist.began[t] # connection THEN hist.strayed \cup {t} ELSE hist.strayed
      <4>1. /\ Outcome(hist, t, Room) \in History
            /\ Outcome(hist, t, Room).strayed = hist.strayed
            /\ \A u \in Reporters :
                 Outcome(hist, t, Room).began[u] = IF u = t THEN 0 ELSE hist.began[u]
        BY <1>0, RoomOutcome
      <4> QED BY <1>34, <2>1, <4>1 DEF Push, History
    <3>3. HeardInv'
      <4>1. \A u \in Reporters : hist'.began[u] <= connection
        BY <1>0, <3>2 DEF HeardInv
      <4> QED BY <1>0, <3>1, <3>2, <4>1 DEF HeardInv, NothingHeard
    <3>4. Mqtt \notin hist'.strayed
      <4>1. t = Mqtt => hist.began[t] = connection
        BY <3>1 DEF HeardInv
      <4>2. Mqtt \notin hist.strayed
        BY DEF FirstInv
      <4> QED BY <3>2, <4>1, <4>2
    <3>5. CASE hist.began[t] # connection
      <4>1. hist'.strayed # {}
        BY <3>2, <3>5
      <4> QED BY <3>3, <3>4, <4>1 DEF FirstInv
    <3>6. CASE hist.began[t] = connection
      <4>1. server.seen # "nothing"
        BY <3>1, <3>6 DEF HeardInv
      <4> QED BY <1>0, <1>c, <3>1, <3>2, <3>3, <3>4, <3>6, <4>1, MessageTypes
    <3> QED BY <3>3, <3>5, <3>6
  <2>2. CASE ~(live /\ target[t] = connection)
    BY <1>31, <1>34, <2>2 DEF Push
  <2> QED BY <2>1, <2>2
<1>35. CASE UNCHANGED vars
  BY <1>35 DEF vars, HeardInv, FirstInv
<1> QED
  BY <1>1, <1>2, <1>3, <1>4, <1>5, <1>6, <1>7, <1>8, <1>9, <1>10, <1>11, <1>12,
     <1>13, <1>14, <1>15, <1>16, <1>17, <1>18, <1>19, <1>20, <1>21, <1>22, <1>23,
     <1>24, <1>25, <1>26, <1>27, <1>28, <1>29, <1>30, <1>32, <1>33, <1>34, <1>35,
     <1>36, <1>37, <1>38
  DEF Next, ConnStep, ReportStep
-----------------------------------------------------------------------------
(* What the server is told.                                                *)

LEMMA SettledOther ==
  ASSUME NEW q \in Seq(Message), NEW m \in Message, NEW view, NEW c, NEW v,
         ~About(m, c), Settled(q, view, c, v)
  PROVE  Settled(Append(q, m), view, c, v)
<1> DEFINE r == Append(q, m)
<1>1. /\ Len(r) = Len(q) + 1 /\ r[Len(q) + 1] = m /\ Len(q) \in Nat
      /\ \A i \in 1 .. Len(q) : r[i] = q[i]
  OBVIOUS
<1> HIDE DEF r
<1>2. \A j \in 1 .. Len(r) : j \in 1 .. Len(q) \/ r[j] = m
  BY <1>1
<1>3. CASE view[c] = v /\ \A j \in 1 .. Len(q) : ~About(q[j], c)
  <2>1. \A j \in 1 .. Len(r) : ~About(r[j], c)
    BY <1>1, <1>2, <1>3
  <2> QED BY <1>3, <2>1 DEF Settled, r
<1>4. CASE \E i \in 1 .. Len(q) :
              /\ About(q[i], c) /\ Told(q[i], c) = v
              /\ \A j \in 1 .. Len(q) : j > i => ~About(q[j], c)
  <2>1. PICK i \in 1 .. Len(q) :
          /\ About(q[i], c) /\ Told(q[i], c) = v
          /\ \A j \in 1 .. Len(q) : j > i => ~About(q[j], c)
    BY <1>4
  <2>2. i \in 1 .. Len(r) /\ About(r[i], c) /\ Told(r[i], c) = v
    BY <1>1, <2>1
  <2>3. \A j \in 1 .. Len(r) : j > i => ~About(r[j], c)
    BY <1>1, <1>2, <2>1
  <2> QED BY <2>2, <2>3 DEF Settled, r
<1> QED BY <1>3, <1>4 DEF Settled

LEMMA SettledTold ==
  ASSUME NEW q \in Seq(Message), NEW m \in Message, NEW view, NEW c,
         About(m, c)
  PROVE  Settled(Append(q, m), view, c, Told(m, c))
<1> DEFINE r == Append(q, m)
<1>1. Len(r) = Len(q) + 1 /\ r[Len(q) + 1] = m /\ Len(q) \in Nat
  OBVIOUS
<1> HIDE DEF r
<1>2. Len(q) + 1 \in 1 .. Len(r) /\ \A j \in 1 .. Len(r) : ~(j > Len(q) + 1)
  BY <1>1
<1> QED BY <1>1, <1>2 DEF Settled, r

\* The first message is sent: the server takes its value, if it is the last word on c.
LEMMA SettledTail ==
  ASSUME NEW q \in Seq(Message), q # <<>>, NEW view, NEW seen, NEW c, NEW v,
         Settled(q, view, c, v),
         ~About(Head(q), c) => seen[c] = view[c],
         /\ About(Head(q), c)
         /\ \A j \in 1 .. Len(q) : j > 1 => ~About(q[j], c)
         => seen[c] = Told(Head(q), c)
  PROVE  Settled(Tail(q), seen, c, v)
<1> DEFINE r == Tail(q)
<1>1. /\ Len(q) \in Nat \ {0} /\ Len(r) = Len(q) - 1 /\ Head(q) = q[1]
      /\ \A i \in 1 .. Len(r) : r[i] = q[i + 1]
  OBVIOUS
<1> HIDE DEF r
<1>2. CASE view[c] = v /\ \A j \in 1 .. Len(q) : ~About(q[j], c)
  <2>1. \A j \in 1 .. Len(r) : ~About(r[j], c)
    BY <1>1, <1>2
  <2>2. seen[c] = v
    BY <1>1, <1>2
  <2> QED BY <2>1, <2>2 DEF Settled, r
<1>3. CASE \E i \in 1 .. Len(q) :
              /\ About(q[i], c) /\ Told(q[i], c) = v
              /\ \A j \in 1 .. Len(q) : j > i => ~About(q[j], c)
  <2>1. PICK i \in 1 .. Len(q) :
          /\ About(q[i], c) /\ Told(q[i], c) = v
          /\ \A j \in 1 .. Len(q) : j > i => ~About(q[j], c)
    BY <1>3
  <2>2. CASE i = 1
    <3>1. seen[c] = v
      BY <1>1, <2>1, <2>2
    <3>2. \A j \in 1 .. Len(r) : ~About(r[j], c)
      BY <1>1, <2>1, <2>2
    <3> QED BY <3>1, <3>2 DEF Settled, r
  <2>3. CASE i # 1
    <3>1. i - 1 \in 1 .. Len(r) /\ r[i - 1] = q[i]
      BY <1>1, <2>1, <2>3
    <3>2. \A j \in 1 .. Len(r) : j > i - 1 => ~About(r[j], c)
      BY <1>1, <2>1
    <3> QED BY <2>1, <3>1, <3>2 DEF Settled, r
  <2> QED BY <2>2, <2>3
<1> QED BY <1>2, <1>3 DEF Settled

\* What the server has registered and shows after message m.
LEMMA ServeTold ==
  ASSUME TypeInv, NEW m \in Message, Serve(m), NEW c \in Channel
  PROVE  /\ server.registered => server'.registered
         /\ server'.registered => server.registered \/ m.kind = "register"
         /\ ~About(m, c) => server'.values[c] = server.values[c]
         /\ m.kind = "register" => server'.values[c] = m.values[c]
         /\ m.kind = "value" /\ m.channel = c /\ server.registered =>
              server'.values[c] = m.value
<1>1. server.values \in [Channel -> Value]
  BY DEF TypeInv
<1>2. CASE m.kind = "register"
  BY <1>2 DEF Serve, About
<1>3. CASE m.kind = "value" /\ server.registered
  <2>1. server'.values = [server.values EXCEPT ![m.channel] = m.value]
    BY <1>3 DEF Serve
  <2>2. server'.registered = (server.registered \/ FALSE)
    BY <1>3 DEF Serve
  <2> QED BY <1>1, <1>3, <2>1, <2>2 DEF About
<1>4. CASE m.kind # "register" /\ ~(m.kind = "value" /\ server.registered)
  <2>1. server'.values = server.values
    BY <1>4 DEF Serve
  <2>2. server'.registered = (server.registered \/ FALSE)
    BY <1>4 DEF Serve
  <2> QED BY <1>4, <2>1, <2>2
<1> QED BY <1>2, <1>3, <1>4

\* An answer that tells of a registration is the server's word for it.
LEMMA ServeAnswers ==
  ASSUME TypeInv, NEW m \in Message, Serve(m), server.registered => server'.registered,
         \A i \in 1 .. Len(inbox) : inbox[i].kind = "registered" => server.registered
  PROVE  \A i \in 1 .. Len(inbox') : inbox'[i].kind = "registered" => server'.registered
<1>1. CASE m.kind # "register"
  BY <1>1 DEF Serve, Answer
<1>2. CASE m.kind = "register"
  <2>1. PICK k : inbox' = Append(inbox, [kind |-> k])
    BY <1>2 DEF Serve, Answer
  <2>2. /\ Len(inbox') = Len(inbox) + 1 /\ Len(inbox) \in Nat
        /\ \A i \in 1 .. Len(inbox) : inbox'[i] = inbox[i]
    BY <2>1 DEF TypeInv
  <2>3. inbox'[Len(inbox')].kind = "registered" => server'.registered
    BY <1>2 DEF Serve
  <2>4. \A i \in 1 .. Len(inbox') : i \in 1 .. Len(inbox) \/ i = Len(inbox')
    BY <2>2
  <2> QED BY <2>2, <2>3, <2>4
<1> QED BY <1>1, <1>2

\* What the operators on the history do to races and missed values.
LEMMA OverlappingTells ==
  ASSUME hist \in History, NEW s
  PROVE  /\ Overlapping(hist, s).raced = hist.raced
         /\ Overlapping(hist, s).missed = hist.missed
BY DEF History, Overlapping

LEMMA BeginTells ==
  ASSUME NEW t \in Threads, NEW c, hist \in History
  PROVE  /\ Begin(hist, t, c).missed = hist.missed
         /\ Begin(hist, t, c).raced[t] <=>
              \E u \in Threads \ {t} : report[u].channel = c /\ Under(u)
         /\ \A u \in Threads : u # t =>
              (Begin(hist, t, c).raced[u] <=>
                 hist.raced[u] \/ (report[u].channel = c /\ Under(u)))
<1>1. Begin(hist, t, c).missed = hist.missed
  BY DEF History, Begin
<1>2. \A u \in Threads : (report[u].channel = c /\ Under(u)) <=> Reporting(u, c)
  BY DEF Under, Reporting
<1>3. \A u \in Threads : u # t =>
        (Begin(hist, t, c).raced[u] <=> hist.raced[u] \/ Reporting(u, c))
  BY DEF History, Begin
<1>4. Begin(hist, t, c).raced[t] <=> \E u \in Threads \ {t} : Reporting(u, c)
  BY DEF History, Begin
<1> QED BY <1>1, <1>2, <1>3, <1>4

LEMMA OutcomeTells ==
  ASSUME NEW t \in Threads, NEW queued \in BOOLEAN, hist \in History,
         report[t].channel \in Channel
  PROVE  /\ Outcome(hist, t, queued).missed[report[t].channel] <=> ~queued \/ hist.raced[t]
         /\ \A c \in Channel : c # report[t].channel =>
              (Outcome(hist, t, queued).missed[c] <=> hist.missed[c])
         /\ \A u \in Threads : u # t =>
              (Outcome(hist, t, queued).raced[u] <=> hist.raced[u])
<1> DEFINE a == [hist EXCEPT !.missed[report[t].channel] = ~queued \/ hist.raced[t]]
           b == [a EXCEPT !.raced[t] = FALSE]
           c == [b EXCEPT !.overlapped = [u \in Reporters |-> @[u] /\ u # t]]
           d == [c EXCEPT !.began = [u \in Reporters |-> IF u = t THEN 0 ELSE @[u]]]
<1>1. Outcome(hist, t, queued) = d
  BY Zenon DEF Outcome, History
<1>2. /\ a \in History /\ a.raced = hist.raced
      /\ a.missed[report[t].channel] <=> ~queued \/ hist.raced[t]
      /\ \A x \in Channel : x # report[t].channel => (a.missed[x] <=> hist.missed[x])
  BY DEF History
<1> HIDE DEF a
<1>3. /\ b \in History /\ b.missed = a.missed
      /\ \A u \in Threads : u # t => b.raced[u] = a.raced[u]
  BY <1>2 DEF History
<1> HIDE DEF b
<1>4. c \in History /\ c.missed = b.missed /\ c.raced = b.raced
  BY <1>3 DEF History
<1> HIDE DEF c
<1>5. d.missed = c.missed /\ d.raced = c.raced
  BY <1>4 DEF History
<1> HIDE DEF d
<1> QED BY <1>1, <1>2, <1>3, <1>4, <1>5

LEMMA NewReportTells ==
  ASSUME NEW h \in History, NEW t
  PROVE  NewReport(h, t).raced = h.raced /\ NewReport(h, t).missed = h.missed
BY DEF History, NewReport

LEMMA StepInitial == Init => StepInv
<1> SUFFICES ASSUME Init PROVE StepInv
  OBVIOUS
<1>1. /\ registered = 0 /\ ~server.registered /\ Len(out_queue) = 0 /\ Len(inbox) = 0
      /\ pc = "connect" /\ \A t \in Reporters : step[t] = "idle"
  BY DEF Init
<1>2. KnownInv /\ ~Known
  BY <1>1 DEF KnownInv, Known
<1>3. ReadInv /\ RaceInv
  BY <1>1 DEF ReadInv, RaceInv, Reading, Under, Threads
<1> QED BY <1>2, <1>3 DEF StepInv, ToldInv

LEMMA StepKept ==
  ASSUME TypeInv, StepInv, [Next]_vars
  PROVE  StepInv'
<1> USE DevConnectionAssumption DEF connVars, cbVars, reportVars, serverVars, reporterUnchanged
<1>0. /\ {W1, Mqtt} \subseteq Reporters /\ Conn \in Threads /\ Reporters \subseteq Threads
      /\ Conn \notin Reporters /\ Threads = Reporters \cup {Conn}
      /\ hist \in History /\ step \in [Reporters -> Steps] /\ pc \in ConnStates
      /\ report \in [Threads -> [channel : Channel, value : Value]]
      /\ value \in [Channel -> Value] /\ connection \in 0 .. MaxConnections
      /\ out_queue \in Seq(Message) /\ Len(out_queue) <= QueueSize
      /\ registered \in {-1, 0, 1}
  BY DEF Reporters, Threads, TypeInv, TypeOK
<1>a. ASSUME NEW s, Goto(s)
      PROVE  pc' = s /\ hist'.raced = hist.raced /\ hist'.missed = hist.missed
  BY <1>0, <1>a, OverlappingTells DEF Goto
\* No report begins, reads or ends.
<1>b. ASSUME UNCHANGED <<value, report, registered, inbox, out_queue, server>>,
             hist'.raced = hist.raced, hist'.missed = hist.missed,
             UNCHANGED step, {pc, pc'} \cap {"set_get", "set_push"} = {}
      PROVE  StepInv'
  BY <1>b DEF StepInv, KnownInv, ReadInv, RaceInv, ToldInv, Known, Reading, Under
<1>c. ASSUME UNCHANGED <<value, report>>, hist'.raced = hist.raced, UNCHANGED step,
             {pc, pc'} \cap {"set_get", "set_push"} = {}
      PROVE  /\ ReadInv' /\ RaceInv'
             /\ \A t \in Threads : Under(t)' <=> Under(t)
  BY <1>c DEF StepInv, ReadInv, RaceInv, Reading, Under
\* A message that tells no value is queued.
<1>d. ASSUME NEW m \in Message, m.kind \in {"own", "result"}, Queue(m)
      PROVE  /\ Known' => Known \/ server'.registered
             /\ \A c \in Channel, v \in Value :
                  Settled(out_queue, server.values, c, v) => Settled(out_queue', server.values, c, v)
  <2>1. \A c \in Channel : ~About(m, c)
    BY <1>d DEF About
  <2>2. CASE out_queue' = out_queue
    BY <2>2 DEF Known
  <2>3. CASE out_queue' = Append(out_queue, m)
    <3>1. \A i \in 1 .. Len(out_queue') : (i \in 1 .. Len(out_queue) /\ out_queue'[i] = out_queue[i])
                                          \/ out_queue'[i] = m
      BY <1>0, <2>3
    <3>2. Known' => Known \/ server'.registered
      BY <1>d, <3>1 DEF Known
    <3> QED BY <1>0, <2>1, <2>3, <3>2, SettledOther
  <2> QED BY <1>d, <2>2, <2>3 DEF Queue
<1>e. ASSUME NEW m \in Message, m.kind \in {"own", "result"}, Queue(m),
             UNCHANGED <<value, report, registered, inbox, server, step>>,
             hist'.raced = hist.raced, hist'.missed = hist.missed,
             {pc, pc'} \cap {"set_get", "set_push"} = {}
      PROVE  StepInv'
  <2>1. KnownInv'
    BY <1>d, <1>e DEF StepInv, KnownInv, Known
  <2>2. ToldInv'
    <3> SUFFICES ASSUME NEW c \in Channel, Known', ~hist'.missed[c]
                 PROVE  \/ Settled(out_queue', server'.values, c, value'[c])
                        \/ \E t \in Threads : report'[t].channel = c /\ Under(t)'
      BY DEF ToldInv
    <3>1. Known
      BY <1>d, <1>e DEF Known
    <3>2. CASE Settled(out_queue, server.values, c, value[c])
      BY <1>0, <1>d, <1>e, <3>2
    <3>3. CASE \E t \in Threads : report[t].channel = c /\ Under(t)
      BY <1>c, <1>e, <3>3
    <3> QED BY <1>e, <3>1, <3>2, <3>3 DEF StepInv, ToldInv
  <2> QED BY <1>c, <1>e, <2>1, <2>2 DEF StepInv
\* A report of channel c by t begins: the value is set.
<1>f. ASSUME NEW t \in Threads, NEW c \in Channel, NEW v \in Value,
             value' = [value EXCEPT ![c] = v], report'[t].channel = c, Under(t)', ~Under(t),
             Reading(t)' => report'[t].value = v,
             UNCHANGED <<registered, out_queue, server>>,
             \A i \in 1 .. Len(inbox') : inbox'[i].kind = "registered" => server.registered,
             \A u \in Threads : u # t =>
               /\ report'[u] = report[u] /\ (Under(u)' <=> Under(u)) /\ (Reading(u)' <=> Reading(u))
               /\ hist'.raced[u] <=> hist.raced[u] \/ (report[u].channel = c /\ Under(u)),
             hist'.raced[t] <=> \E u \in Threads \ {t} : report[u].channel = c /\ Under(u),
             hist'.missed = hist.missed
      PROVE  StepInv'
  <2>1. KnownInv' /\ (Known' <=> Known)
    BY <1>f DEF StepInv, KnownInv, Known
  <2>4. RaceInv'
    <3> SUFFICES ASSUME NEW u \in Threads, NEW w \in Threads, u # w, Under(u)', Under(w)',
                        report'[u].channel = report'[w].channel
                 PROVE  hist'.raced[u]
      BY DEF RaceInv
    <3>1. CASE u = t
      BY <1>f, <3>1
    <3>2. CASE w = t
      BY <1>f, <3>2
    <3>3. CASE u # t /\ w # t
      BY <1>f, <3>3 DEF StepInv, RaceInv
    <3> QED BY <3>1, <3>2, <3>3
  <2>2. ReadInv'
    <3> SUFFICES ASSUME NEW u \in Threads, Reading(u)', ~hist'.raced[u]
                 PROVE  report'[u].value = value'[report'[u].channel]
      BY DEF ReadInv
    <3>1. CASE u = t
      BY <1>0, <1>f, <3>1
    <3>2. CASE u # t
      <4>1. ~hist.raced[u] /\ report[u].channel # c /\ Reading(u) /\ report[u].channel \in Channel
        BY <1>0, <1>f, <3>2 DEF Reading, Under
      <4>2. report[u].value = value[report[u].channel]
        BY <4>1 DEF StepInv, ReadInv
      <4> QED BY <1>0, <1>f, <3>2, <4>1, <4>2
    <3> QED BY <3>1, <3>2
  <2>3. ToldInv'
    <3> SUFFICES ASSUME NEW d \in Channel, Known', ~hist'.missed[d]
                 PROVE  \/ Settled(out_queue', server'.values, d, value'[d])
                        \/ \E u \in Threads : report'[u].channel = d /\ Under(u)'
      BY DEF ToldInv
    <3>1. CASE d = c
      BY <1>f, <3>1
    <3>2. CASE d # c
      <4>1. value'[d] = value[d]
        BY <1>0, <1>f, <3>2
      <4>2. CASE Settled(out_queue, server.values, d, value[d])
        BY <1>f, <4>1, <4>2
      <4>3. CASE \E u \in Threads : report[u].channel = d /\ Under(u)
        BY <1>f, <4>3
      <4> QED BY <1>f, <2>1, <4>2, <4>3 DEF StepInv, ToldInv
    <3> QED BY <3>1, <3>2
  <2> QED BY <2>1, <2>2, <2>3, <2>4 DEF StepInv
\* The report of t ends, with its value queued or not.
<1>g. ASSUME NEW t \in Threads, NEW queued \in BOOLEAN, NEW m \in Message,
             m = [kind |-> "value", channel |-> report[t].channel, value |-> report[t].value],
             Reading(t), ~Reading(t)', ~Under(t)',
             out_queue' = IF queued THEN Append(out_queue, m) ELSE out_queue,
             UNCHANGED <<value, registered, inbox, server>>,
             hist'.missed = Outcome(hist, t, queued).missed,
             hist'.raced = Outcome(hist, t, queued).raced,
             \A u \in Threads : u # t =>
               report'[u] = report[u] /\ (Under(u)' <=> Under(u)) /\ (Reading(u)' <=> Reading(u))
      PROVE  StepInv'
  <2> DEFINE c == report[t].channel
  <2>0. /\ c \in Channel /\ m.kind = "value" /\ m.channel = c /\ m.value = report[t].value
        /\ \A d \in Channel : d # c => ~About(m, d)
    BY <1>0, <1>g DEF About
  <2> HIDE DEF c
  <2>1. /\ hist'.missed[c] <=> ~queued \/ hist.raced[t]
        /\ \A d \in Channel : d # c => (hist'.missed[d] <=> hist.missed[d])
        /\ \A u \in Threads : u # t => (hist'.raced[u] <=> hist.raced[u])
    BY <1>0, <1>g, <2>0, OutcomeTells DEF c
  <2>2. Known' <=> Known
    <3>1. CASE queued
      <4>1. out_queue' = Append(out_queue, m)
        BY <1>g, <3>1
      <4>2. /\ Len(out_queue') = Len(out_queue) + 1 /\ out_queue'[Len(out_queue) + 1] = m
            /\ Len(out_queue) \in Nat
            /\ \A i \in 1 .. Len(out_queue) : out_queue'[i] = out_queue[i]
        BY <1>0, <4>1
      <4>3. \A i \in 1 .. Len(out_queue') : i \in 1 .. Len(out_queue) \/ out_queue'[i] = m
        BY <4>2
      <4>4. \A i \in 1 .. Len(out_queue) : i \in 1 .. Len(out_queue')
        BY <4>2
      <4> QED BY <1>g, <2>0, <4>2, <4>3, <4>4 DEF Known
    <3>2. CASE ~queued
      BY <1>g, <3>2 DEF Known
    <3> QED BY <3>1, <3>2
  <2>3. KnownInv'
    BY <1>g, <2>2 DEF StepInv, KnownInv
  <2>4. ReadInv'
    <3> SUFFICES ASSUME NEW u \in Threads, Reading(u)', ~hist'.raced[u]
                 PROVE  report'[u].value = value'[report'[u].channel]
      BY DEF ReadInv
    <3>1. u # t /\ ~hist.raced[u] /\ Reading(u)
      BY <1>g, <2>1
    <3> QED BY <1>g, <3>1 DEF StepInv, ReadInv
  <2>6. RaceInv'
    <3> SUFFICES ASSUME NEW u \in Threads, NEW w \in Threads, u # w, Under(u)', Under(w)',
                        report'[u].channel = report'[w].channel
                 PROVE  hist'.raced[u]
      BY DEF RaceInv
    <3>1. u # t /\ w # t
      BY <1>g
    <3> QED BY <1>g, <2>1, <3>1 DEF StepInv, RaceInv
  <2>5. ToldInv'
    <3> SUFFICES ASSUME NEW d \in Channel, Known', ~hist'.missed[d]
                 PROVE  \/ Settled(out_queue', server'.values, d, value'[d])
                        \/ \E u \in Threads : report'[u].channel = d /\ Under(u)'
      BY DEF ToldInv
    <3>1. CASE d = c
      <4>1. queued /\ ~hist.raced[t]
        BY <2>1, <3>1
      <4>2. report[t].value = value[c]
        BY <1>g, <4>1 DEF StepInv, ReadInv, c
      <4>3. About(m, c) /\ Told(m, c) = value[c]
        BY <2>0, <4>2 DEF About, Told
      <4>4. Settled(Append(out_queue, m), server.values, c, value[c])
        BY <1>0, <4>3, SettledTold
      <4> QED BY <1>g, <3>1, <4>1, <4>4
    <3>2. CASE d # c
      <4>1. CASE Settled(out_queue, server.values, d, value[d])
        <5>1. Settled(Append(out_queue, m), server.values, d, value[d])
          BY <1>0, <2>0, <3>2, <4>1, SettledOther
        <5> QED BY <1>g, <4>1, <5>1
      <4>2. CASE \E u \in Threads : report[u].channel = d /\ Under(u)
        BY <1>g, <3>2, <4>2 DEF c
      <4> QED BY <2>1, <2>2, <3>2, <4>1, <4>2 DEF StepInv, ToldInv
    <3> QED BY <3>1, <3>2
  <2> QED BY <2>3, <2>4, <2>5, <2>6 DEF StepInv
<1>1. CASE ConnectFails
  BY <1>1, <1>a, <1>b DEF ConnectFails
<1>2. CASE LeaveThread
  BY <1>2, <1>a, <1>b DEF LeaveThread
<1>3. CASE LeaveLoop
  BY <1>3, <1>a, <1>b DEF LeaveLoop
<1>4. CASE Iterate
  BY <1>4, <1>a, <1>b DEF Iterate
<1>5. CASE IterateFails
  BY <1>5, <1>a, <1>b DEF IterateFails
<1>6. CASE IterateNoData
  BY <1>6, <1>a, <1>b DEF IterateNoData
<1>7. CASE NothingToSend
  BY <1>7, <1>a, <1>b DEF NothingToSend
<1>8. CASE FreeSrpc
  BY <1>8, <1>a, <1>b DEF FreeSrpc
<1>9. CASE StartMqtt
  BY <1>9, <1>a, <1>b DEF StartMqtt
<1>10. CASE JoinMqtt
  BY <1>10, <1>a, <1>b DEF JoinMqtt
<1>36. CASE DisconnectMqtt
  BY <1>36, <1>a, <1>b DEF DisconnectMqtt
<1>37. CASE MqttSticks
  BY <1>37 DEF MqttSticks, StepInv, KnownInv, ReadInv, RaceInv, ToldInv, Known, Reading, Under
<1>38. CASE Lose
  <2> DEFINE m == Head(out_queue)
  <2>1. /\ hist'.raced = hist.raced /\ pc = "out" /\ pc' = "loop"
        /\ UNCHANGED <<value, report, registered, step, inbox, server>>
        /\ out_queue # <<>> /\ out_queue' = Tail(out_queue)
        /\ \A c \in Channel : hist'.missed[c] <=>
             \/ hist.missed[c]
             \/ About(m, c) /\ \A i \in 2 .. Len(out_queue) : ~About(out_queue[i], c)
    BY <1>0, <1>38, LoseType DEF Lose
  <2>2. /\ Len(out_queue) \in Nat \ {0} /\ Len(out_queue') = Len(out_queue) - 1
        /\ m = out_queue[1] /\ \A i \in 1 .. Len(out_queue') : out_queue'[i] = out_queue[i + 1]
    BY <1>0, <2>1
  <2> HIDE DEF m
  <2>3. Known' => Known
    <3>1. \A i \in 1 .. Len(out_queue') : i + 1 \in 1 .. Len(out_queue)
      BY <2>2
    <3> QED BY <2>1, <2>2, <3>1 DEF Known
  <2>4. KnownInv'
    BY <2>1, <2>3 DEF StepInv, KnownInv
  <2>5. ReadInv' /\ RaceInv' /\ \A t \in Threads : Under(t)' <=> Under(t)
    BY <1>c, <2>1
  <2>6. ToldInv'
    <3> SUFFICES ASSUME NEW c \in Channel, Known', ~hist'.missed[c]
                 PROVE  \/ Settled(out_queue', server'.values, c, value'[c])
                        \/ \E t \in Threads : report'[t].channel = c /\ Under(t)'
      BY DEF ToldInv
    <3>1. CASE Settled(out_queue, server.values, c, value[c])
      <4>1. ~(About(m, c) /\ \A j \in 1 .. Len(out_queue) : j > 1 => ~About(out_queue[j], c))
        <5>1. ~(About(m, c) /\ \A i \in 2 .. Len(out_queue) : ~About(out_queue[i], c))
          BY <2>1
        <5>2. \A i \in 2 .. Len(out_queue) : i \in 1 .. Len(out_queue) /\ i > 1
          BY <2>2
        <5> QED BY <5>1, <5>2
      <4>2. Settled(Tail(out_queue), server.values, c, value[c])
        BY <1>0, <2>1, <3>1, <4>1, SettledTail DEF m
      <4> QED BY <2>1, <4>2
    <3>2. CASE \E t \in Threads : report[t].channel = c /\ Under(t)
      BY <2>1, <2>5, <3>2
    <3> QED BY <2>1, <2>3, <3>1, <3>2 DEF StepInv, ToldInv
  <2> QED BY <2>4, <2>5, <2>6 DEF StepInv
<1>11. CASE SetUserData
  BY <1>11, <1>a, <1>b DEF SetUserData
<1>12. CASE SetOnChanged
  BY <1>12, <1>a, <1>b DEF SetOnChanged
<1>13. CASE Connect
  <2>1. /\ hist'.raced = hist.raced /\ pc = "connect" /\ pc' = "loop"
        /\ UNCHANGED <<value, report, step>>
        /\ registered' = 0 /\ Len(out_queue') = 0 /\ Len(inbox') = 0 /\ server'.registered = FALSE
    BY <1>13, <1>a DEF Connect, TypeInv
  <2>2. ReadInv' /\ RaceInv'
    BY <1>c, <2>1
  <2>3. KnownInv' /\ ~Known'
    BY <2>1 DEF KnownInv, Known
  <2> QED BY <2>2, <2>3 DEF StepInv, ToldInv
<1>14. CASE Register
  <2>0. PICK read \in [Channel -> Value] :
          /\ \A c \in Channel : read[c] \in Readable(Conn, c)
          /\ Queue([kind |-> "register", values |-> read])
    BY <1>14 DEF Register
  <2> DEFINE m == [kind |-> "register", values |-> read]
  <2>1. /\ hist'.raced = hist.raced /\ pc = "loop" /\ pc' = "iterate"
        /\ UNCHANGED <<value, report, step, inbox, server>>
        /\ registered = 0 /\ registered' = -1 /\ Queue(m)
        /\ \A c \in Channel : hist'.missed[c] <=> \E t \in Reporters : Reporting(t, c)
    BY <1>0, <1>14, <2>0 DEF Register, History
  <2>2. m \in Message /\ \A c \in Channel : About(m, c) /\ Told(m, c) = read[c]
    BY <1>0, MessageTypes DEF About, Told
  <2>6. ASSUME NEW c \in Channel, ~hist'.missed[c] PROVE read[c] = value[c]
    <3>1. \A t \in Reporters : ~(report[t].channel = c /\ Under(t))
      BY <1>0, <2>1, <2>6 DEF Reporting, Under
    <3> QED BY <1>0, <2>0, <3>1, ReadableType
  <2> HIDE DEF m
  <2>3. ReadInv' /\ RaceInv'
    BY <1>c, <2>1
  <2>4. KnownInv'
    BY <2>1 DEF StepInv, KnownInv
  <2>5. ToldInv'
    <3>1. CASE out_queue' = Append(out_queue, m)
      <4>1. \A c \in Channel : ~hist'.missed[c] =>
              Settled(out_queue', server'.values, c, value'[c])
        BY <1>0, <2>1, <2>2, <2>6, <3>1, SettledTold
      <4> QED BY <4>1 DEF ToldInv
    <3>2. CASE out_queue' = out_queue
      <4>1. ~Known'
        BY <2>1, <3>2 DEF StepInv, KnownInv, Known
      <4> QED BY <4>1 DEF ToldInv
    <3> QED BY <2>1, <3>1, <3>2 DEF Queue
  <2> QED BY <2>3, <2>4, <2>5 DEF StepInv
<1>15. CASE OwnCall
  <2>1. hist'.raced = hist.raced /\ hist'.missed = hist.missed
    BY <1>0, <1>15 DEF OwnCall, History
  <2> QED BY <1>15, <1>e, <2>1, MessageTypes DEF OwnCall
\* An answer of the server is taken from the inbox.
<1>h. ASSUME NEW k, Receive(k)
      PROVE  /\ \A i \in 1 .. Len(inbox') : inbox'[i].kind = "registered" => server.registered
             /\ k = "registered" => server.registered
             /\ pc = "iterate"
  <2>1. /\ Len(inbox) \in Nat \ {0} /\ Len(inbox') = Len(inbox) - 1 /\ Head(inbox) = inbox[1]
        /\ \A i \in 1 .. Len(inbox') : inbox'[i] = inbox[i + 1]
    BY <1>h DEF Receive, TypeInv
  <2>2. \A i \in 1 .. Len(inbox') : i + 1 \in 1 .. Len(inbox)
    BY <2>1
  <2>3. 1 \in 1 .. Len(inbox)
    BY <2>1
  <2> QED BY <1>h, <2>1, <2>2, <2>3 DEF Receive, StepInv, KnownInv
<1>i. ASSUME NEW k, Receive(k), UNCHANGED <<value, report, out_queue, server, step>>,
             hist'.raced = hist.raced, hist'.missed = hist.missed,
             pc' \notin {"set_get", "set_push"},
             registered' = registered \/ (registered' = 1 /\ k = "registered")
      PROVE  StepInv'
  <2>1. KnownInv' /\ (Known' <=> Known)
    BY <1>h, <1>i DEF StepInv, KnownInv, Known
  <2>2. ReadInv' /\ RaceInv' /\ \A t \in Threads : Under(t)' <=> Under(t)
    BY <1>c, <1>h, <1>i
  <2>3. ToldInv'
    BY <1>i, <2>1, <2>2 DEF StepInv, ToldInv
  <2> QED BY <2>1, <2>2, <2>3 DEF StepInv
<1>16. CASE OnRegistered
  BY <1>16, <1>a, <1>i DEF OnRegistered
<1>17. CASE OnRefused
  BY <1>17, <1>a, <1>i DEF OnRefused
<1>18. CASE OnVersionError
  BY <1>18, <1>a, <1>i DEF OnVersionError
<1>19. CASE OnSetValue
  <2> DEFINE m == Head(inbox)
  <2>1. m \in Inbound /\ m.kind = "set" /\ pc = "iterate"
    BY <1>19, ReceiveType DEF OnSetValue
  <2>2. m.channel \in Channel /\ m.value \in Value
    BY <2>1 DEF Inbound
  <2> HIDE DEF m
  <2>3. /\ value' = [value EXCEPT ![m.channel] = m.value]
        /\ report' = [report EXCEPT ![Conn].channel = m.channel]
        /\ hist' = Begin(hist, Conn, m.channel) /\ pc' = "set_get"
        /\ UNCHANGED <<registered, out_queue, server, step>>
    BY <1>19 DEF OnSetValue, m
  <2>4. report'[Conn].channel = m.channel /\ \A u \in Threads : u # Conn => report'[u] = report[u]
    BY <1>0, <2>2, <2>3
  <2>5. /\ Under(Conn)' /\ ~Under(Conn) /\ ~Reading(Conn)'
        /\ \A u \in Threads : u # Conn =>
             (Under(u)' <=> Under(u)) /\ (Reading(u)' <=> Reading(u))
    BY <2>1, <2>3 DEF Under, Reading
  <2>6. \A i \in 1 .. Len(inbox') : inbox'[i].kind = "registered" => server.registered
    BY <1>19, <1>h DEF OnSetValue
  <2>7. /\ hist'.missed = hist.missed
        /\ hist'.raced[Conn] <=>
             \E u \in Threads \ {Conn} : report[u].channel = m.channel /\ Under(u)
        /\ \A u \in Threads : u # Conn =>
             (hist'.raced[u] <=> hist.raced[u] \/ (report[u].channel = m.channel /\ Under(u)))
    BY <1>0, <2>3, BeginTells
  <2> QED BY <1>0, <1>f, <2>2, <2>3, <2>4, <2>5, <2>6, <2>7
<1>20. CASE SetGet
  <2>1. /\ hist'.raced = hist.raced /\ hist'.missed = hist.missed
        /\ pc = "set_get" /\ pc' = "set_push"
        /\ UNCHANGED <<value, registered, inbox, out_queue, server, step>>
    BY <1>20, <1>a DEF SetGet
  <2>0. PICK v \in Readable(Conn, report[Conn].channel) :
          report' = [report EXCEPT ![Conn].value = v]
    BY <1>20 DEF SetGet
  <2>2. /\ report'[Conn].value = v
        /\ \A u \in Threads : u # Conn => report'[u] = report[u]
        /\ \A u \in Threads : report'[u].channel = report[u].channel
    BY <1>0, <2>0
  <2>3. \A u \in Threads : (Under(u)' <=> Under(u)) /\ (u # Conn => (Reading(u)' <=> Reading(u)))
    BY <2>1 DEF Under, Reading
  <2>7. ~hist.raced[Conn] => v = value[report[Conn].channel]
    <3>1. Under(Conn)
      BY <2>1 DEF Under
    <3> QED BY <1>0, <2>0, <3>1, ReadableType DEF StepInv, RaceInv
  <2>4. ReadInv' /\ RaceInv'
    <3>1. ReadInv'
      BY <2>1, <2>2, <2>3, <2>7 DEF StepInv, ReadInv
    <3>2. RaceInv'
      BY <2>1, <2>2, <2>3 DEF StepInv, RaceInv
    <3> QED BY <3>1, <3>2
  <2>5. KnownInv' /\ (Known' <=> Known)
    BY <2>1 DEF StepInv, KnownInv, Known
  <2>6. ToldInv'
    BY <2>1, <2>2, <2>3, <2>5 DEF StepInv, ToldInv
  <2> QED BY <2>4, <2>5, <2>6 DEF StepInv
<1>21. CASE SetPush
  <2> DEFINE m == [kind |-> "value", channel |-> report[Conn].channel, value |-> report[Conn].value]
  <2>1. m \in Message
    BY <1>0, MessageTypes
  <2>2. PICK room \in BOOLEAN : room = Room
    <3>1. Room \in BOOLEAN
      BY DEF Room
    <3> QED BY <3>1, Zenon
  <2>3. /\ pc = "set_push" /\ pc' = "set_result" /\ UNCHANGED <<value, registered, inbox, server, step>>
        /\ report' = [report EXCEPT ![Conn] = NoReport]
        /\ Queue(m)
    BY <1>21 DEF SetPush
  <2>4. hist' = Outcome(hist, Conn, room)
    BY <1>21, <2>2, Zenon DEF SetPush
  <2>5. out_queue' = IF room THEN Append(out_queue, m) ELSE out_queue
    BY <2>2, <2>3, Zenon DEF Queue
  <2>6. /\ Reading(Conn) /\ ~Reading(Conn)' /\ ~Under(Conn)'
        /\ \A u \in Threads : u # Conn =>
             (Under(u)' <=> Under(u)) /\ (Reading(u)' <=> Reading(u))
    BY <2>3 DEF Under, Reading
  <2>7. \A u \in Threads : u # Conn => report'[u] = report[u]
    BY <1>0, <2>3
  <2> HIDE DEF m
  <2> QED BY <1>0, <1>g, <2>1, <2>3, <2>4, <2>5, <2>6, <2>7 DEF m
<1>22. CASE SetResult
  <2>1. /\ Queue([kind |-> "result"]) /\ hist'.raced = hist.raced /\ hist'.missed = hist.missed
        /\ UNCHANGED <<value, report, registered, inbox, server, step>>
        /\ pc = "set_result" /\ pc' = "out"
    BY <1>22, <1>a DEF SetResult
  <2> QED BY <1>e, <2>1, MessageTypes
<1>23. CASE Send
  <2> DEFINE m == Head(out_queue)
  <2>1. /\ hist'.raced = hist.raced /\ hist'.missed = hist.missed /\ pc = "out" /\ pc' = "loop"
        /\ UNCHANGED <<value, report, registered, step>>
        /\ out_queue # <<>> /\ out_queue' = Tail(out_queue) /\ Serve(m)
    BY <1>23, <1>a DEF Send
  <2>2. /\ m \in Message /\ Len(out_queue) \in Nat \ {0} /\ Len(out_queue') = Len(out_queue) - 1
        /\ m = out_queue[1] /\ \A i \in 1 .. Len(out_queue') : out_queue'[i] = out_queue[i + 1]
    BY <1>0, <2>1
  <2> HIDE DEF m
  <2>3. /\ server.registered => server'.registered
        /\ server'.registered => server.registered \/ m.kind = "register"
    BY <2>1, <2>2, ServeTold
  <2>4. Known' => Known
    <3>1. \A i \in 1 .. Len(out_queue') : i + 1 \in 1 .. Len(out_queue)
      BY <2>2
    <3>2. 1 \in 1 .. Len(out_queue)
      BY <2>2
    <3> QED BY <2>2, <2>3, <3>1, <3>2 DEF Known
  <2>5. KnownInv'
    <3>1. \A i \in 1 .. Len(inbox') : inbox'[i].kind = "registered" => server'.registered
      BY <2>1, <2>2, <2>3, ServeAnswers DEF StepInv, KnownInv
    <3> QED BY <2>1, <2>3, <2>4, <3>1 DEF StepInv, KnownInv
  <2>6. ReadInv' /\ RaceInv' /\ \A t \in Threads : Under(t)' <=> Under(t)
    BY <1>c, <2>1
  <2>7. ToldInv'
    <3> SUFFICES ASSUME NEW c \in Channel, Known', ~hist'.missed[c]
                 PROVE  \/ Settled(out_queue', server'.values, c, value'[c])
                        \/ \E t \in Threads : report'[t].channel = c /\ Under(t)'
      BY DEF ToldInv
    <3>1. CASE Settled(out_queue, server.values, c, value[c])
      <4>1. /\ ~About(m, c) => server'.values[c] = server.values[c]
            /\ m.kind = "register" => server'.values[c] = m.values[c]
            /\ m.kind = "value" /\ m.channel = c /\ server.registered => server'.values[c] = m.value
        BY <2>1, <2>2, ServeTold
      <4>2. ASSUME About(m, c), \A j \in 1 .. Len(out_queue) : j > 1 => ~About(out_queue[j], c)
            PROVE  server'.values[c] = Told(m, c)
        <5>1. CASE m.kind = "register"
          BY <4>1, <5>1 DEF Told
        <5>2. CASE m.kind # "register"
          <6>1. \A j \in 1 .. Len(out_queue) : out_queue[j].kind # "register"
            BY <2>2, <4>2, <5>2 DEF About
          <6>2. server.registered
            BY <2>4, <6>1 DEF Known
          <6> QED BY <4>1, <4>2, <5>2, <6>2 DEF About, Told
        <5> QED BY <5>1, <5>2
      <4>3. Settled(Tail(out_queue), server'.values, c, value[c])
        BY <1>0, <2>1, <3>1, <4>1, <4>2, SettledTail DEF m
      <4> QED BY <2>1, <4>3
    <3>2. CASE \E t \in Threads : report[t].channel = c /\ Under(t)
      BY <2>1, <2>6, <3>2
    <3> QED BY <2>1, <2>4, <3>1, <3>2 DEF StepInv, ToldInv
  <2> QED BY <2>5, <2>6, <2>7 DEF StepInv
<1>24. CASE Stop
  BY <1>24 DEF Stop, StepInv, KnownInv, ReadInv, RaceInv, ToldInv, Known, Reading, Under
<1>25. ASSUME NEW c \in Channel, NEW v \in Value, ServerSets(c, v) PROVE StepInv'
  <2>1. hist'.raced = hist.raced /\ hist'.missed = hist.missed
    BY <1>0, <1>25 DEF ServerSets, History
  <2>2. /\ server.registered /\ UNCHANGED <<pc, registered, out_queue, value, report, server, step>>
    BY <1>25 DEF ServerSets
  <2> QED BY <2>1, <2>2 DEF StepInv, KnownInv, ReadInv, RaceInv, ToldInv, Known, Reading, Under
\* The place of reporter t changes, not what its report is about.
<1>j. ASSUME NEW t \in Reporters, NEW s, step' = [step EXCEPT ![t] = s],
             UNCHANGED <<pc, value, report, registered, inbox, out_queue, server>>,
             hist'.raced = hist.raced, hist'.missed = hist.missed,
             s \in {"idle", "heard"} <=> step[t] \in {"idle", "heard"}
      PROVE  StepInv'
  <2>1. \A u \in Threads : (Under(u)' <=> Under(u)) /\ (Reading(u)' <=> Reading(u))
    BY <1>0, <1>j DEF Under, Reading
  <2> QED BY <1>j, <2>1 DEF StepInv, KnownInv, ReadInv, RaceInv, ToldInv, Known
<1>26. CASE Hear
  <2>1. hist'.raced = hist.raced /\ hist'.missed = hist.missed
    BY <1>0, <1>26, NewReportTells DEF Hear
  <2> QED BY <1>0, <1>26, <1>j, <2>1 DEF Hear
\* A reporter sets the value.
<1>k. ASSUME NEW t \in Reporters, NEW c \in Channel, NEW v \in Value, SetValue(t, c, v),
             step[t] \in {"idle", "heard"},
             hist'.raced = Begin(hist, t, c).raced, hist'.missed = hist.missed
      PROVE  StepInv'
  <2>1. /\ value' = [value EXCEPT ![c] = v] /\ step' = [step EXCEPT ![t] = "get"]
        /\ report' = [report EXCEPT ![t] = [channel |-> c, value |-> v]]
        /\ UNCHANGED <<pc, registered, inbox, out_queue, server>>
    BY <1>k DEF SetValue
  <2>2. /\ report'[t].channel = c /\ report'[t].value = v
        /\ \A u \in Threads : u # t => report'[u] = report[u]
    BY <1>0, <2>1
  <2>3. /\ Under(t)' /\ ~Under(t)
        /\ \A u \in Threads : u # t =>
             (Under(u)' <=> Under(u)) /\ (Reading(u)' <=> Reading(u))
    BY <1>0, <1>k, <2>1 DEF Under, Reading
  <2>4. /\ \A u \in Threads : u # t =>
             (hist'.raced[u] <=> hist.raced[u] \/ (report[u].channel = c /\ Under(u)))
        /\ hist'.raced[t] <=> \E u \in Threads \ {t} : report[u].channel = c /\ Under(u)
    BY <1>0, <1>k, BeginTells
  <2>5. \A i \in 1 .. Len(inbox') : inbox'[i].kind = "registered" => server.registered
    BY <2>1 DEF StepInv, KnownInv
  <2> QED BY <1>0, <1>f, <1>k, <2>1, <2>2, <2>3, <2>4, <2>5
<1>27. ASSUME NEW c \in Channel, NEW v \in Value, MqttChange(c, v) PROVE StepInv'
  <2>1. hist'.missed = hist.missed
    BY <1>0, <1>27, BeginTells DEF MqttChange
  <2> QED BY <1>0, <1>27, <1>k, <2>1 DEF MqttChange
<1>28. ASSUME NEW c \in Channel, NEW v \in Value, W1Change(c, v) PROVE StepInv'
  <2>1. hist'.raced = Begin(hist, W1, c).raced /\ hist'.missed = hist.missed
    <3>1. Begin(hist, W1, c) \in History /\ Begin(hist, W1, c).missed = hist.missed
      BY <1>0, BeginType, BeginTells
    <3> QED BY <1>28, <3>1, NewReportTells DEF W1Change
  <2> QED BY <1>0, <1>28, <1>k, <2>1 DEF W1Change
<1>29. ASSUME NEW t \in Reporters, Get(t) PROVE StepInv'
  <2>1. /\ step' = [step EXCEPT ![t] = "check"] /\ step[t] = "get"
        /\ UNCHANGED <<pc, value, registered, inbox, out_queue, server, hist>>
        /\ \/ \E v \in Readable(t, report[t].channel) :
                report' = [report EXCEPT ![t].value = v]
           \/ report' = report
    BY <1>29 DEF Get
  <2>0. Under(t)
    BY <1>0, <2>1 DEF Under
  <2>7. ~hist.raced[t] =>
          \A v \in Readable(t, report[t].channel) : v = value[report[t].channel]
    BY <1>0, <2>0, ReadableType DEF StepInv, RaceInv
  <2>2. /\ \/ report'[t].value \in Readable(t, report[t].channel)
           \/ report'[t] = report[t]
        /\ \A u \in Threads : u # t => report'[u] = report[u]
        /\ \A u \in Threads : report'[u].channel = report[u].channel
    BY <1>0, <2>1
  <2>3. \A u \in Threads : (Under(u)' <=> Under(u)) /\ (Reading(u)' <=> Reading(u))
    BY <1>0, <2>1 DEF Under, Reading
  <2>4. ReadInv' /\ RaceInv'
    <3>1. ReadInv'
      BY <2>1, <2>2, <2>3, <2>7 DEF StepInv, ReadInv
    <3>2. RaceInv'
      BY <2>1, <2>2, <2>3 DEF StepInv, RaceInv
    <3> QED BY <3>1, <3>2
  <2>5. KnownInv' /\ (Known' <=> Known)
    BY <2>1 DEF StepInv, KnownInv, Known
  <2>6. ToldInv'
    BY <2>1, <2>2, <2>3, <2>5 DEF StepInv, ToldInv
  <2> QED BY <2>4, <2>5, <2>6 DEF StepInv
<1>30. ASSUME NEW t \in Reporters, Check(t) PROVE StepInv'
  <2>0. step[t] = "check" /\ UNCHANGED <<pc, value, registered, inbox, out_queue, server>>
    BY <1>30 DEF Check
  <2>1. CASE IF t = Mqtt THEN heard.on_changed ELSE on_changed
    <3>1. step' = [step EXCEPT ![t] = "load"] /\ UNCHANGED <<report, hist>>
      BY <1>30, <2>1 DEF Check
    <3> QED BY <1>j, <2>0, <3>1
  <2>2. CASE ~(IF t = Mqtt THEN heard.on_changed ELSE on_changed)
    <3>1. /\ step' = [step EXCEPT ![t] = "idle"] /\ hist' = Outcome(hist, t, FALSE)
          /\ report' = [report EXCEPT ![t] = NoReport]
      BY <1>30, <2>2 DEF Check
    <3> DEFINE m == [kind |-> "value", channel |-> report[t].channel, value |-> report[t].value]
    <3>2. m \in Message
      BY <1>0, MessageTypes
    <3>3. /\ Reading(t) /\ ~Reading(t)' /\ ~Under(t)'
          /\ \A u \in Threads : u # t =>
               (Under(u)' <=> Under(u)) /\ (Reading(u)' <=> Reading(u))
      BY <1>0, <2>0, <3>1 DEF Under, Reading
    <3>4. \A u \in Threads : u # t => report'[u] = report[u]
      BY <1>0, <3>1
    <3>5. out_queue' = IF FALSE THEN Append(out_queue, m) ELSE out_queue
      BY <2>0
    <3> HIDE DEF m
    <3> QED BY <1>0, <1>g, <2>0, <3>1, <3>2, <3>3, <3>4, <3>5 DEF m
  <2> QED BY <2>1, <2>2
<1>31. ASSUME NEW t \in Reporters, Fault(t, t) PROVE StepInv'
  BY <1>31 DEF Fault, StepInv, KnownInv, ReadInv, RaceInv, ToldInv, Known, Reading, Under
<1>32. ASSUME NEW t \in Reporters, Load(t) PROVE StepInv'
  <2>1. CASE IF t = Mqtt THEN heard.user_data ELSE on_changed /\ user_data
    BY <1>32, <1>j, <2>1 DEF Load
  <2>2. CASE ~(IF t = Mqtt THEN heard.user_data ELSE on_changed /\ user_data)
    BY <1>31, <1>32, <2>2 DEF Load
  <2> QED BY <2>1, <2>2
<1>33. ASSUME NEW t \in Reporters, Deref(t) PROVE StepInv'
  <2>1. CASE pc # "finished"
    BY <1>33, <1>j, <2>1 DEF Deref
  <2>2. CASE pc = "finished"
    BY <1>31, <1>33, <2>2 DEF Deref
  <2> QED BY <2>1, <2>2
<1>34. ASSUME NEW t \in Reporters, Push(t) PROVE StepInv'
  <2>1. CASE live /\ target[t] = connection
    <3> DEFINE m == [kind |-> "value", channel |-> report[t].channel, value |-> report[t].value]
    <3>1. m \in Message
      BY <1>0, MessageTypes
    <3>2. PICK room \in BOOLEAN : room = Room
      <4>1. Room \in BOOLEAN
        BY DEF Room
      <4> QED BY <4>1, Zenon
    <3>3. /\ step' = [step EXCEPT ![t] = "idle"] /\ step[t] = "push"
          /\ report' = [report EXCEPT ![t] = NoReport]
          /\ UNCHANGED <<pc, value, registered, inbox, server>> /\ Queue(m)
      BY <1>34, <2>1 DEF Push
    <3>4. /\ hist'.raced = Outcome(hist, t, room).raced
          /\ hist'.missed = Outcome(hist, t, room).missed
      <4>1. Outcome(hist, t, room) \in History
        BY <1>0, OutcomeType
      <4>2. hist' = [Outcome(hist, t, room) EXCEPT !.strayed =
                       IF hist.began[t] # connection THEN @ \cup {t} ELSE @]
        BY <1>34, <2>1, <3>2, Zenon DEF Push
      <4> QED BY <4>1, <4>2 DEF History
    <3>5. out_queue' = IF room THEN Append(out_queue, m) ELSE out_queue
      BY <3>2, <3>3, Zenon DEF Queue
    <3>6. /\ Reading(t) /\ ~Reading(t)' /\ ~Under(t)'
          /\ \A u \in Threads : u # t =>
               (Under(u)' <=> Under(u)) /\ (Reading(u)' <=> Reading(u))
      BY <1>0, <3>3 DEF Under, Reading
    <3>7. \A u \in Threads : u # t => report'[u] = report[u]
      BY <1>0, <3>3
    <3> HIDE DEF m
    <3> QED BY <1>0, <1>g, <3>1, <3>3, <3>4, <3>5, <3>6, <3>7 DEF m
  <2>2. CASE ~(live /\ target[t] = connection)
    BY <1>31, <1>34, <2>2 DEF Push
  <2> QED BY <2>1, <2>2
<1>35. CASE UNCHANGED vars
  BY <1>35 DEF vars, StepInv, KnownInv, ReadInv, RaceInv, ToldInv, Known, Reading, Under
<1> QED
  BY <1>1, <1>2, <1>3, <1>4, <1>5, <1>6, <1>7, <1>8, <1>9, <1>10, <1>11, <1>12,
     <1>13, <1>14, <1>15, <1>16, <1>17, <1>18, <1>19, <1>20, <1>21, <1>22, <1>23,
     <1>24, <1>25, <1>26, <1>27, <1>28, <1>29, <1>30, <1>32, <1>33, <1>34, <1>35,
     <1>36, <1>37, <1>38
  DEF Next, ConnStep, ReportStep
-----------------------------------------------------------------------------
IInv == TypeInv /\ FaultInv /\ HeardInv /\ FirstInv /\ StepInv

LEMMA Invariant == Spec => []IInv
<1>1. Init => IInv
  BY TypeInitial, FaultInitial, FirstInitial, StepInitial DEF IInv
<1>2. IInv /\ [Next]_vars => IInv'
  <2> SUFFICES ASSUME IInv, [Next]_vars PROVE IInv'
    OBVIOUS
  <2>1. TypeInv' /\ FaultInv'
    BY TypeKept, FaultKept DEF IInv
  <2>2. HeardInv' /\ FirstInv'
    BY FirstKept DEF IInv, FaultInv
  <2>3. StepInv'
    BY StepKept DEF IInv
  <2> QED BY <2>1, <2>2, <2>3 DEF IInv
<1> QED BY <1>1, <1>2, PTL DEF Spec

\* The variables keep their types: the queue stays within its size, and what a
\* report holds is always a channel and a value.
THEOREM TypeCorrect == Spec => []TypeOK
<1>1. IInv => TypeOK
  BY DEF IInv, TypeInv
<1> QED BY <1>1, Invariant, PTL

\* A report stumbles only if the connection's thread replaced the callbacks or the
\* srpc object while it was under way.
THEOREM FaultsAreOverlaps == Spec => []FaultOnlyWhenOverlapped
<1>1. IInv => FaultOnlyWhenOverlapped
  BY DEF IInv, FaultInv
<1> QED BY <1>1, Invariant, PTL

\* A message of the broker is reported on the connection it came in, and the
\* registration is what the server hears first unless w1 carried a report over.
THEOREM RegistrationIsFirst == Spec => []RegisterFirst
<1>1. IInv => RegisterFirst
  BY DEF IInv, FirstInv, RegisterFirst, MqttNeverStrays
<1> QED BY <1>1, Invariant, PTL

\* Once all is quiet, the server shows the value of every channel of which no report
\* was dropped, refused or overtaken, and the last one was not lost in data_write.
THEOREM ServerIsInStep == Spec => []ServerInStep
<1>1. IInv => ServerInStep
  <2> SUFFICES ASSUME IInv, Quiet, NEW c \in Channel, ~hist.missed[c]
               PROVE  server.values[c] = value[c]
    BY DEF ServerInStep
  <2>1. Known
    BY DEF Quiet, IInv, StepInv, KnownInv, Known
  <2>2. \A t \in Threads : ~(report[t].channel = c /\ Under(t))
    BY DEF Quiet, Busy, Reporting, Under
  <2>3. Settled(out_queue, server.values, c, value[c])
    BY <2>1, <2>2 DEF IInv, StepInv, ToldInv
  <2>4. Len(out_queue) = 0
    BY DEF Quiet
  <2> QED BY <2>3, <2>4 DEF Settled
<1> QED BY <1>1, Invariant, PTL
==============================================================================
