---------------------------- MODULE DevConnection ----------------------------
(***************************************************************************)
(* The connection's thread (supla-dev/devconnection.cpp,                   *)
(* devconnection_execute) with the threads that report channel values      *)
(* through it: w1, which always runs, and the MQTT thread, which the       *)
(* connection's thread starts on registration and joins when it clears     *)
(* the callbacks.  A reporter calls channelio_raise_valuechanged           *)
(* (supla-dev/channel-io.cpp), which reads channels->on_valuechanged and   *)
(* channels->on_valuechanged_user_data with no lock, and then the srpc     *)
(* object dcd->srpc; the MQTT thread reads the two when a message comes    *)
(* (mqtt_subscribe_callback), before it sets the value.  setValue takes    *)
(* the channel's lock, getValue (supla-dev/client_device.cpp) does not: a  *)
(* read may be torn by a set under way.                                    *)
(*                                                                         *)
(* The srpc object is its out queue (module Srpc shows that it is one); an *)
(* iteration takes at most one message of the server and hands at most one *)
(* of the queue to data_write, whose result it ignores: the message may be *)
(* sent or lost.  The values of a channel that is an electricity meter     *)
(* take the same way a second time (on_extendedValueChanged), which is     *)
(* left out.  A step that dereferences NULL or a freed object is a fault,  *)
(* after which nothing is said of the program.                             *)
(***************************************************************************)
EXTENDS Integers, Sequences

CONSTANTS Channel, Value,
          W1, Mqtt,       \* the two reporting threads
          Conn,           \* the connection's thread
          QueueSize,      \* SRPC_QUEUE_SIZE
          MaxConnections, \* bound: connections made
          MaxChanges,     \* bound: values the reporters set
          MaxOther        \* bound: commands the server sends and calls of the
                          \* connection's thread itself, together

ASSUME DevConnectionAssumption ==
  /\ Channel # {} /\ Value # {}
  /\ Conn # W1 /\ W1 # Mqtt /\ Mqtt # Conn /\ "none" \notin {W1, Mqtt, Conn}
  /\ QueueSize \in Nat \ {0}
  /\ {MaxConnections, MaxChanges, MaxOther} \subseteq Nat

Reporters == {W1, Mqtt}
Threads == Reporters \cup {Conn}

VARIABLES
  pc,            \* of the connection's thread
  terminated,    \* sthread->terminated of that thread
  connection,    \* number of the srpc object dcd->srpc points to
  live,          \* is that object allocated?
  registered,    \* dcd->registered: 0, 1 or -1
  on_changed,    \* is channels->on_valuechanged set?
  user_data,     \* is channels->on_valuechanged_user_data set?
  mqtt_running,  \* does the MQTT thread run?
  mqtt_stuck,    \* does it wait for its own mutex, for ever?
  out_queue,     \* of the srpc object
  value,         \* value[c], set under the lock of channel c, read without
  step,          \* step[t]: where reporter t is in a report
  report,        \* report[t]: the channel and the value read by getValue
  target,        \* target[t]: the srpc object t has read from dcd
  heard,         \* the callback and its data as Mqtt has read them
  inbox,         \* messages of the server not yet read
  server,        \* the server: its view of the values and of the connection
  fault,         \* "none", or what a thread stumbled on
  hist           \* history variables, see below

connVars   == <<terminated, connection, live, registered>>
cbVars     == <<on_changed, user_data, mqtt_running, mqtt_stuck>>
reportVars == <<step, report, target, heard>>
serverVars == <<inbox, server>>
vars == <<pc, connVars, cbVars, out_queue, value, reportVars, serverVars,
          fault, hist>>

NothingHeard == [on_changed |-> FALSE, user_data |-> FALSE]
NoReport == [channel |-> CHOOSE c \in Channel : TRUE,
             value |-> CHOOSE v \in Value : TRUE]

ConnStates == {"connect", "loop", "iterate", "install", "install_data",
               "start_mqtt", "set_get", "set_push", "set_result", "out",
               "free", "clear", "clear_data", "free_mqtt", "join_mqtt",
               "finished"}
Steps == {"idle", "heard", "get", "check", "load", "deref", "push"}

Message == [kind : {"register"}, values : [Channel -> Value]]
           \cup [kind : {"value"}, channel : Channel, value : Value]
           \cup [kind : {"result", "own"}]

\* history: overlapped[t]: the report of t met a change of the connection;
\* raced[t]: it met another report of its channel; began[t]: the connection
\* during which it began; strayed: threads whose report was queued on another
\* one; missed[c]: a value of c was dropped, refused or raced since the last
\* one queued undisturbed, or that one was lost when it was written; changes,
\* other: counters of the bounds.
History == [overlapped : [Reporters -> BOOLEAN],
            raced : [Threads -> BOOLEAN],
            began : [Reporters -> 0 .. MaxConnections],
            strayed : SUBSET Reporters,
            missed : [Channel -> BOOLEAN],
            changes : 0 .. MaxChanges, other : 0 .. MaxOther]

Init ==
  /\ pc = "connect" /\ terminated = FALSE
  /\ connection = 0 /\ live = FALSE /\ registered = 0
  /\ on_changed = FALSE /\ user_data = FALSE
  /\ mqtt_running = FALSE /\ mqtt_stuck = FALSE
  /\ out_queue = <<>>
  /\ value \in [Channel -> Value]
  /\ step = [t \in Reporters |-> "idle"]
  /\ report = [t \in Threads |-> NoReport]
  /\ target = [t \in Reporters |-> 0]
  /\ heard = NothingHeard
  /\ inbox = <<>>
  /\ server = [values |-> value, registered |-> FALSE, seen |-> "nothing"]
  /\ fault = "none"
  /\ hist = [overlapped |-> [t \in Reporters |-> FALSE],
             raced |-> [t \in Threads |-> FALSE],
             began |-> [t \in Reporters |-> 0],
             strayed |-> {},
             missed |-> [c \in Channel |-> FALSE],
             changes |-> 0, other |-> 0]
-----------------------------------------------------------------------------
Room == Len(out_queue) < QueueSize

Queue(m) == out_queue' = IF Room THEN Append(out_queue, m) ELSE out_queue

\* A report of channel c is under way in thread t.
Reporting(t, c) ==
  /\ report[t].channel = c
  /\ IF t = Conn THEN pc \in {"set_get", "set_push"} ELSE step[t] \notin {"idle", "heard"}

Busy(t) == \E c \in Channel : Reporting(t, c)

\* The connection's thread is replacing the srpc object or the callbacks.
InWindow(state) == state \in {"install", "install_data", "start_mqtt", "clear",
                              "clear_data", "free_mqtt", "join_mqtt", "finished"}

\* Entering a window is noted by every report under way.
Overlapping(h, state) ==
  IF InWindow(state)
  THEN [h EXCEPT !.overlapped = [t \in Reporters |-> @[t] \/ step[t] # "idle"]]
  ELSE h

\* Message m tells the server the value of channel c.
About(m, c) == m.kind = "register" \/ (m.kind = "value" /\ m.channel = c)

\* Thread u may be inside setValue of channel c.
Setting(u, c) ==
  /\ report[u].channel = c
  /\ IF u = Conn THEN pc = "set_get" ELSE step[u] = "get"

\* getValue by t: torn by a set under way, it yields any value.
Readable(t, c) ==
  {v \in Value : v = value[c] \/ \E u \in Threads \ {t} : Setting(u, c)}

Goto(state) == pc' = state /\ hist' = Overlapping(hist, state)

\* A report of c by t begins: it races with those that are under way.
Begin(h, t, c) ==
  LET others == {u \in Threads \ {t} : Reporting(u, c)}
  IN [h EXCEPT !.raced = [u \in Threads |->
                            IF u = t THEN others # {} ELSE @[u] \/ u \in others]]

\* The report of t ends with its value queued, or not.
Outcome(h, t, queued) ==
  [h EXCEPT !.missed[report[t].channel] = ~queued \/ h.raced[t],
            !.raced[t] = FALSE,
            !.overlapped = [u \in Reporters |-> @[u] /\ u # t],
            !.began = [u \in Reporters |-> IF u = t THEN 0 ELSE @[u]]]
-----------------------------------------------------------------------------
(* The loop of the connection's thread.                                    *)

\* Mutant: the outer loop does not look at the flag.
ConnectFailsAgain ==
  /\ pc = "connect"
  /\ Goto("clear")
  /\ UNCHANGED <<connVars, cbVars, out_queue, value, reportVars, serverVars, fault>>

ConnectFails ==
  /\ pc = "connect" /\ ~terminated
  /\ Goto("clear")
  /\ UNCHANGED <<connVars, cbVars, out_queue, value, reportVars, serverVars, fault>>

Connect ==
  /\ pc = "connect" /\ ~terminated
  /\ connection < MaxConnections
  /\ connection' = connection + 1
  /\ live' = TRUE
  /\ registered' = 0
  /\ out_queue' = <<>>
  /\ inbox' = <<>>
  /\ server' = [server EXCEPT !.registered = FALSE, !.seen = "nothing"]
  /\ Goto("loop")
  /\ UNCHANGED <<terminated, cbVars, value, reportVars, fault>>

LeaveThread ==
  /\ pc = "connect" /\ terminated
  /\ Goto("finished")
  /\ UNCHANGED <<connVars, cbVars, out_queue, value, reportVars, serverVars, fault>>

LeaveLoop ==
  /\ pc = "loop" /\ terminated
  /\ Goto("free")
  /\ UNCHANGED <<connVars, cbVars, out_queue, value, reportVars, serverVars, fault>>

\* devconnection_register: the call carries the values of all the channels.
Register ==
  /\ pc = "loop" /\ ~terminated
  /\ registered = 0
  /\ registered' = -1
  /\ \E read \in [Channel -> Value] :
       /\ \A c \in Channel : read[c] \in Readable(Conn, c)
       /\ Queue([kind |-> "register", values |-> read])
  /\ pc' = "iterate"
  /\ hist' = [hist EXCEPT !.missed =
                [c \in Channel |-> \E t \in Reporters : Reporting(t, c)]]
  /\ UNCHANGED <<terminated, connection, live, cbVars, value, reportVars,
                 serverVars, fault>>

\* Mutant: the registration is not waited for.
OwnCallEarly ==
  /\ pc = "loop" /\ ~terminated
  /\ hist.other < MaxOther
  /\ Queue([kind |-> "own"])
  /\ hist' = [hist EXCEPT !.other = @ + 1]
  /\ UNCHANGED <<pc, connVars, cbVars, value, reportVars, serverVars, fault>>

\* devconnection_send_initial_configs_if_needed and devconnection_ping: calls the
\* thread makes of its own accord once it is registered.
OwnCall ==
  /\ pc = "loop" /\ ~terminated
  /\ registered = 1
  /\ hist.other < MaxOther
  /\ Queue([kind |-> "own"])
  /\ hist' = [hist EXCEPT !.other = @ + 1]
  /\ UNCHANGED <<pc, connVars, cbVars, value, reportVars, serverVars, fault>>

Iterate ==
  /\ pc = "loop" /\ ~terminated
  /\ registered # 0
  /\ Goto("iterate")
  /\ UNCHANGED <<connVars, cbVars, out_queue, value, reportVars, serverVars, fault>>

\* srpc_iterate returns FALSE.
IterateFails ==
  /\ pc = "iterate"
  /\ Goto("free")
  /\ UNCHANGED <<connVars, cbVars, out_queue, value, reportVars, serverVars, fault>>

IterateNoData ==
  /\ pc = "iterate"
  /\ inbox = <<>>
  /\ Goto("out")
  /\ UNCHANGED <<connVars, cbVars, out_queue, value, reportVars, serverVars, fault>>

Receive(kind) ==
  /\ pc = "iterate"
  /\ inbox # <<>>
  /\ Head(inbox).kind = kind
  /\ inbox' = Tail(inbox)

\* devconnection_on_register_result.
OnRegistered ==
  /\ Receive("registered")
  /\ registered' = 1
  /\ Goto("install")
  /\ UNCHANGED <<terminated, connection, live, cbVars, out_queue, value,
                 reportVars, server, fault>>

OnRefused ==
  /\ Receive("refused")
  /\ Goto("out")
  /\ UNCHANGED <<connVars, cbVars, out_queue, value, reportVars, server, fault>>

\* devconnection_on_version_error.
OnVersionError ==
  /\ Receive("version_error")
  /\ terminated' = TRUE
  /\ Goto("out")
  /\ UNCHANGED <<connection, live, registered, cbVars, out_queue, value,
                 reportVars, server, fault>>

\* Mutant: the value is set and not raised.
OnSetValueSilent ==
  /\ Receive("set")
  /\ value' = [value EXCEPT ![Head(inbox).channel] = Head(inbox).value]
  /\ Goto("set_result")
  /\ UNCHANGED <<connVars, cbVars, out_queue, reportVars, server, fault>>

\* devconnection_channel_set_value: channelio_set_value sets the value and
\* raises it, then the result is sent.
OnSetValue ==
  /\ Receive("set")
  /\ LET m == Head(inbox)
     IN /\ value' = [value EXCEPT ![m.channel] = m.value]
        /\ report' = [report EXCEPT ![Conn].channel = m.channel]
        /\ hist' = Begin(hist, Conn, m.channel)
  /\ pc' = "set_get"
  /\ UNCHANGED <<connVars, cbVars, out_queue, step, target, heard, server, fault>>

SetGet ==
  /\ pc = "set_get"
  /\ \E v \in Readable(Conn, report[Conn].channel) :
       report' = [report EXCEPT ![Conn].value = v]
  /\ Goto("set_push")
  /\ UNCHANGED <<connVars, cbVars, out_queue, value, step, target, heard, serverVars,
                 fault>>

SetPush ==
  /\ pc = "set_push"
  /\ Queue([kind |-> "value", channel |-> report[Conn].channel,
            value |-> report[Conn].value])
  /\ hist' = Outcome(hist, Conn, Room)
  /\ report' = [report EXCEPT ![Conn] = NoReport]
  /\ pc' = "set_result"
  /\ UNCHANGED <<connVars, cbVars, value, step, target, heard, serverVars, fault>>

SetResult ==
  /\ pc = "set_result"
  /\ Queue([kind |-> "result"])
  /\ Goto("out")
  /\ UNCHANGED <<connVars, cbVars, value, reportVars, serverVars, fault>>
-----------------------------------------------------------------------------
(* channelio_setcalback_on_channel_value_changed: three assignments with   *)
(* no lock, then the MQTT thread.                                          *)

SetOnChanged ==
  /\ pc \in {"install", "clear"}
  /\ on_changed' = (pc = "install")
  /\ Goto(IF pc = "install" THEN "install_data" ELSE "clear_data")
  /\ UNCHANGED <<connVars, user_data, mqtt_running, mqtt_stuck, out_queue, value,
                 reportVars, serverVars, fault>>

SetUserData ==
  /\ pc \in {"install_data", "clear_data"}
  /\ user_data' = (pc = "install_data")
  /\ Goto(IF pc = "install_data" THEN "start_mqtt" ELSE "free_mqtt")
  /\ UNCHANGED <<connVars, on_changed, mqtt_running, mqtt_stuck, out_queue, value,
                 reportVars, serverVars, fault>>

StartMqtt ==
  /\ pc = "start_mqtt"
  /\ mqtt_running' = TRUE
  /\ Goto("out")
  /\ UNCHANGED <<connVars, on_changed, user_data, mqtt_stuck, out_queue, value,
                 reportVars, serverVars, fault>>

\* mqtt_client_free first calls mqtt_disconnect, which takes the client's mutex:
\* a message holds it until it is reported, and a thread that is stuck for ever.
DisconnectMqtt ==
  /\ pc = "free_mqtt"
  /\ step[Mqtt] = "idle" /\ ~mqtt_stuck
  /\ Goto("join_mqtt")
  /\ UNCHANGED <<connVars, cbVars, out_queue, value, reportVars, serverVars, fault>>

\* Then sthread_twf returns when the thread's loop is left.  The thread may have
\* taken another message, or may have got stuck, meanwhile.
JoinMqtt ==
  /\ pc = "join_mqtt"
  /\ step[Mqtt] = "idle" /\ ~mqtt_stuck
  /\ mqtt_running' = FALSE
  /\ Goto("connect")
  /\ UNCHANGED <<connVars, on_changed, user_data, mqtt_stuck, out_queue, value,
                 reportVars, serverVars, fault>>

\* An attempt to connect that failed has left the mutex locked, and the thread
\* locks it again (module MqttClient shows that nothing else gets it stuck).
MqttSticks ==
  /\ mqtt_running /\ step[Mqtt] = "idle" /\ ~mqtt_stuck
  /\ mqtt_stuck' = TRUE
  /\ UNCHANGED <<pc, connVars, on_changed, user_data, mqtt_running, out_queue, value,
                 reportVars, serverVars, fault, hist>>

\* Mutant: the callbacks stay set after the object is freed.
FreeSrpcOnly ==
  /\ pc = "free"
  /\ live' = FALSE
  /\ Goto("connect")
  /\ UNCHANGED <<terminated, connection, registered, cbVars, out_queue, value,
                 reportVars, serverVars, fault>>

FreeSrpc ==
  /\ pc = "free"
  /\ live' = FALSE
  /\ Goto("clear")
  /\ UNCHANGED <<terminated, connection, registered, cbVars, out_queue, value,
                 reportVars, serverVars, fault>>
-----------------------------------------------------------------------------
(* The OUT part of srpc_iterate and what the server makes of the message.  *)

NothingToSend ==
  /\ pc = "out"
  /\ out_queue = <<>>
  /\ Goto("loop")
  /\ UNCHANGED <<connVars, cbVars, out_queue, value, reportVars, serverVars, fault>>

\* The server's side, as supla-server's serverconnection and device handle a
\* device's calls: register_device answers each registration, and only a
\* registered device's value is taken (registered == REG_DEVICE).
Answer(m) ==
  IF m.kind # "register" THEN UNCHANGED inbox
  ELSE \E kind \in {"registered", "refused", "version_error"} :
         inbox' = Append(inbox, [kind |-> kind])

Serve(m) ==
  /\ Answer(m)
  /\ server' =
       [values |-> CASE m.kind = "register" -> m.values
                     [] m.kind = "value" /\ server.registered ->
                          [server.values EXCEPT ![m.channel] = m.value]
                     [] OTHER -> server.values,
        registered |-> server.registered
                         \/ (m.kind = "register"
                               /\ inbox'[Len(inbox')].kind = "registered"),
        seen |-> IF server.seen # "nothing" THEN server.seen
                 ELSE IF m.kind = "register" THEN "register" ELSE "other"]

Send ==
  /\ pc = "out"
  /\ out_queue # <<>>
  /\ out_queue' = Tail(out_queue)
  /\ Serve(Head(out_queue))
  /\ Goto("loop")
  /\ UNCHANGED <<connVars, cbVars, value, reportVars, fault>>

\* The result of data_write is ignored: a socket that takes nothing loses the
\* message, and one that takes a part of it loses all that follow as well.
Lose ==
  /\ pc = "out"
  /\ out_queue # <<>>
  /\ out_queue' = Tail(out_queue)
  /\ pc' = "loop"
  /\ hist' = [hist EXCEPT !.missed =
                [c \in Channel |->
                   \/ @[c]
                   \/ /\ About(Head(out_queue), c)
                      /\ \A i \in 2 .. Len(out_queue) : ~About(out_queue[i], c)]]
  /\ UNCHANGED <<connVars, cbVars, value, reportVars, serverVars, fault>>

ServerSets(c, v) ==
  /\ server.registered /\ live
  /\ hist.other < MaxOther
  /\ inbox' = Append(inbox, [kind |-> "set", channel |-> c, value |-> v])
  /\ hist' = [hist EXCEPT !.other = @ + 1]
  /\ UNCHANGED <<pc, connVars, cbVars, out_queue, value, reportVars, server, fault>>

\* devconnection_stop, by the main thread.
Stop ==
  /\ ~terminated
  /\ terminated' = TRUE
  /\ UNCHANGED <<pc, connection, live, registered, cbVars, out_queue, value,
                 reportVars, serverVars, fault, hist>>
-----------------------------------------------------------------------------
(* A report of reporter t.                                                 *)

reporterUnchanged == <<pc, connVars, cbVars, serverVars>>

NewReport(h, t) ==
  [h EXCEPT !.overlapped[t] = InWindow(pc), !.began[t] = connection,
            !.changes = @ + 1]

\* mqtt_subscribe_callback: a message of the broker for some channel.
Hear ==
  /\ step[Mqtt] = "idle" /\ mqtt_running /\ ~mqtt_stuck
  /\ hist.changes < MaxChanges
  /\ heard' = [on_changed |-> on_changed, user_data |-> user_data]
  /\ step' = [step EXCEPT ![Mqtt] = "heard"]
  /\ hist' = NewReport(hist, Mqtt)
  /\ UNCHANGED <<reporterUnchanged, out_queue, value, report, target, fault>>

\* The value of channel c is set by t.
SetValue(t, c, v) ==
  /\ value' = [value EXCEPT ![c] = v]
  /\ step' = [step EXCEPT ![t] = "get"]
  /\ report' = [report EXCEPT ![t] = [channel |-> c, value |-> v]]
  /\ UNCHANGED <<reporterUnchanged, out_queue, target, fault>>

\* The order in which the two arguments were read is not specified, so that
\* the data may be newer than the callback.
MqttChange(c, v) ==
  /\ step[Mqtt] = "heard"
  /\ SetValue(Mqtt, c, v)
  /\ heard' \in {heard, [heard EXCEPT !.user_data = user_data]}
  /\ hist' = Begin(hist, Mqtt, c)

W1Change(c, v) ==
  /\ step[W1] = "idle"
  /\ hist.changes < MaxChanges
  /\ SetValue(W1, c, v)
  /\ hist' = NewReport(Begin(hist, W1, c), W1)
  /\ UNCHANGED heard

\* The value is read again; for most functions Mqtt reports the one it has set.
Get(t) ==
  /\ step[t] = "get"
  /\ \/ \E v \in Readable(t, report[t].channel) : report' = [report EXCEPT ![t].value = v]
     \/ t = Mqtt /\ UNCHANGED report
  /\ step' = [step EXCEPT ![t] = "check"]
  /\ UNCHANGED <<reporterUnchanged, out_queue, value, target, heard, fault, hist>>

\* Without a callback the report ends here.
Check(t) ==
  /\ step[t] = "check"
  /\ IF IF t = Mqtt THEN heard.on_changed ELSE on_changed
     THEN /\ step' = [step EXCEPT ![t] = "load"]
          /\ UNCHANGED <<report, heard, hist>>
     ELSE /\ step' = [step EXCEPT ![t] = "idle"]
          /\ report' = [report EXCEPT ![t] = NoReport]
          /\ heard' = IF t = Mqtt THEN NothingHeard ELSE heard
          /\ hist' = Outcome(hist, t, FALSE)
  /\ UNCHANGED <<reporterUnchanged, out_queue, value, target, fault>>

Fault(t, what) ==
  /\ fault' = what
  /\ UNCHANGED <<reporterUnchanged, out_queue, value, reportVars, hist>>

\* on_valuechanged is read again for the call, user_data with it.
Load(t) ==
  /\ step[t] = "load"
  /\ IF IF t = Mqtt THEN heard.user_data ELSE on_changed /\ user_data
     THEN /\ step' = [step EXCEPT ![t] = "deref"]
          /\ UNCHANGED <<reporterUnchanged, out_queue, value, report, target,
                         heard, fault, hist>>
     ELSE Fault(t, t)

\* dcd->srpc; dcd is a local of devconnection_execute.
Deref(t) ==
  /\ step[t] = "deref"
  /\ IF pc # "finished"
     THEN /\ target' = [target EXCEPT ![t] = connection]
          /\ step' = [step EXCEPT ![t] = "push"]
          /\ UNCHANGED <<reporterUnchanged, out_queue, value, report, heard,
                         fault, hist>>
     ELSE Fault(t, t)

\* srpc_async__call on that object.
Push(t) ==
  /\ step[t] = "push"
  /\ IF live /\ target[t] = connection
     THEN /\ Queue([kind |-> "value", channel |-> report[t].channel,
                    value |-> report[t].value])
          /\ step' = [step EXCEPT ![t] = "idle"]
          /\ report' = [report EXCEPT ![t] = NoReport]
          /\ target' = [target EXCEPT ![t] = 0]
          /\ heard' = IF t = Mqtt THEN NothingHeard ELSE heard
          /\ hist' = [Outcome(hist, t, Room) EXCEPT !.strayed =
                        IF hist.began[t] # connection THEN @ \cup {t} ELSE @]
          /\ UNCHANGED <<reporterUnchanged, value, fault>>
     ELSE Fault(t, t)
-----------------------------------------------------------------------------
ConnStep ==
  \/ ConnectFails \/ Connect \/ LeaveThread \/ LeaveLoop
  \/ Register \/ OwnCall \/ Iterate
  \/ IterateFails \/ IterateNoData
  \/ OnRegistered \/ OnRefused \/ OnVersionError \/ OnSetValue
  \/ SetGet \/ SetPush \/ SetResult
  \/ SetOnChanged \/ SetUserData \/ StartMqtt
  \/ DisconnectMqtt \/ JoinMqtt \/ FreeSrpc
  \/ NothingToSend \/ Send \/ Lose

ReportStep(t) == Get(t) \/ Check(t) \/ Load(t) \/ Deref(t) \/ Push(t)

Next ==
  /\ fault = "none"
  /\ \/ ConnStep
     \/ Stop
     \/ \E c \in Channel, v \in Value : ServerSets(c, v)
     \/ Hear \/ MqttSticks
     \/ \E c \in Channel, v \in Value : MqttChange(c, v) \/ W1Change(c, v)
     \/ \E t \in Reporters : ReportStep(t)

Spec == Init /\ [][Next]_vars

\* Every thread runs on; the server and the main thread need not.
LiveSpec ==
  /\ Spec
  /\ WF_vars(fault = "none" /\ ConnStep)
  /\ WF_vars(fault = "none" /\ \E c \in Channel, v \in Value : MqttChange(c, v))
  /\ \A t \in Reporters : WF_vars(fault = "none" /\ ReportStep(t))
-----------------------------------------------------------------------------
TypeOK ==
  /\ pc \in ConnStates
  /\ {terminated, live, on_changed, user_data, mqtt_running, mqtt_stuck} \subseteq BOOLEAN
  /\ connection \in 0 .. MaxConnections
  /\ registered \in {-1, 0, 1}
  /\ out_queue \in Seq(Message) /\ Len(out_queue) <= QueueSize
  /\ value \in [Channel -> Value]
  /\ step \in [Reporters -> Steps]
  /\ report \in [Threads -> [channel : Channel, value : Value]]
  /\ target \in [Reporters -> 0 .. MaxConnections]
  /\ heard \in [on_changed : BOOLEAN, user_data : BOOLEAN]
  /\ server.values \in [Channel -> Value] /\ server.registered \in BOOLEAN
  /\ fault \in {"none"} \cup Reporters
  /\ hist \in History

\* A report stumbles on a cleared callback, on cleared user data or on a freed
\* srpc object only if the connection's thread was replacing them while the
\* report was under way: the unlocked reads of channelio_raise_valuechanged are
\* safe at any other time, over any number of connections.
FaultOnlyWhenOverlapped == \A t \in Reporters : fault = t => hist.overlapped[t]

\* A message read by the MQTT thread is never reported on a later connection
\* than the one it was received in: the thread is joined before the next
\* connection is made (mqtt_client_free).  w1 gives no such guarantee: the
\* registration is the first thing the server hears on a connection, unless
\* w1 carried a report over from an earlier one.
MqttNeverStrays == Mqtt \notin hist.strayed
RegisterFirst == MqttNeverStrays /\ (server.seen = "other" => hist.strayed # {})

\* Once all is quiet the server of a registered device shows the value of every
\* channel.  It may be behind only when a report was dropped while there was no
\* callback, was refused by a full queue, or raced with another report of the
\* channel, and no report was queued undisturbed since, or when the last word on
\* the channel was lost in data_write.
Quiet ==
  /\ registered = 1 /\ pc \in {"loop", "iterate"}
  /\ out_queue = <<>>
  /\ \A t \in Threads : ~Busy(t)

ServerInStep ==
  Quiet => \A c \in Channel : server.values[c] = value[c] \/ hist.missed[c]

\* A terminated connection thread ends, although it waits for the MQTT thread,
\* which may be in the middle of a report, first for its mutex and then for its
\* end (devconnection_stop, mqtt_client_free), unless that thread got stuck.
TerminatedEnds == terminated ~> (pc = "finished" \/ fault # "none" \/ mqtt_stuck)
==============================================================================
