------------------------------ MODULE MqttClient ------------------------------
(***************************************************************************)
(* The MQTT client of the device (supla-dev/mqtt/mqtt_client.cpp): an      *)
(* object of the library MQTT-C in the global mq_client, a thread, Mqtt,   *)
(* that synchronizes it with the broker and reconnects, threads that       *)
(* publish through it, and its owner, which creates and frees it.  The     *)
(* library, vendored, is modelled from the calls made to it: each locks    *)
(* the client's mutex, except mqtt_connect, which unlocks what mqtt_sync   *)
(* locked.                                                                 *)
(*                                                                         *)
(* A step that uses a freed or missing object is a fault, after which      *)
(* nothing is said of the program.  What is published and received is left *)
(* out, the order of the kinds of packets is not.  One topic.              *)
(***************************************************************************)
EXTENDS Naturals, Sequences, FiniteSets

CONSTANTS
  Mqtt,          \* the client's thread
  Publishers,    \* threads that publish
  Owner,         \* the thread that creates and frees clients
  NoThread,      \* owner of a free mutex
  MinDelay,      \* MQTT_RECONNECT_DELAY_MIN_SEC
  MaxDelay,      \* MQTT_RECONNECT_DELAY_MAX_SEC
  QueueSize,     \* packets that fit into the buffer of 8192 bytes
  MaxClients,    \* bound: clients created
  MaxPublishes,  \* bound: calls of mqtt_client_publish
  MaxOutages     \* bound: sessions that the broker ends

ASSUME MqttClientAssumption ==
  /\ Mqtt \notin Publishers \cup {Owner} /\ NoThread \notin Publishers \cup {Mqtt}
  /\ MinDelay \in Nat \ {0} /\ MaxDelay \in Nat /\ MinDelay <= MaxDelay
  /\ QueueSize \in Nat \ {0, 1}
  /\ MaxClients \in Nat /\ MaxPublishes \in Nat /\ MaxOutages \in Nat

VARIABLES
  mq_client,  \* number of the client the global points to, 0: NULL
  alive,      \* is that client allocated?
  error,      \* client->error: "ok", "initial", "broken" or "full"
  socketfd,   \* client->socketfd: "none", or a descriptor "open" or "closed"
  sockets,    \* descriptors of the client that are open
  queue,      \* client->mq: packets not sent
  mutex,      \* the thread that holds client->mutex, or NoThread
  retry,      \* reconnect_state: time to the next attempt, the next delay
  broker,     \* does it run, is the session alive, what did it hear first?
  sync,       \* where Mqtt is
  terminated, \* sthread->terminated of Mqtt
  life,       \* where the owner is
  pub,        \* pub[t]: where publisher t is in mqtt_client_publish
  loaded,     \* loaded[t]: the client it has read
  fault,      \* "none", or what a thread stumbled on: "publish": a freed client,
              \* "close": a closed socket; the rest is module Lifecycle's
  hist        \* history: met[t]: a client was freed while t was publishing;
              \* refused: an attempt to connect failed; counters of the bounds

client == <<mq_client, alive, error, socketfd, sockets, queue, mutex, retry>>
thread == <<sync, terminated>>
pubs   == <<pub, loaded>>
mqttVars == <<client, broker, thread, life, pubs, fault, hist>>

Packet == {"connect", "subscribe", "publish", "disconnect"}
\* Where the owner is: without a client, with one, in mqtt_client_free.
Freeing == {"disconnect", "terminate", "join", "close", "delete", "forget"}

MqttInit ==
  /\ mq_client = 0 /\ alive = FALSE /\ error = "initial"
  /\ socketfd = "none" /\ sockets = 0
  /\ queue = <<>> /\ mutex = NoThread
  /\ retry = [in |-> 0, delay |-> MinDelay]
  /\ broker \in [up : BOOLEAN, session : {FALSE}, first : {"nothing"}]
  /\ sync = "none" /\ terminated = FALSE
  /\ life = "offline"
  /\ pub = [t \in Publishers |-> "idle"]
  /\ loaded = [t \in Publishers |-> 0]
  /\ fault = "none"
  /\ hist = [met |-> [t \in Publishers |-> FALSE], refused |-> FALSE,
             clients |-> 0, publishes |-> 0, outages |-> 0]

Running == fault = "none"
Free == mutex = NoThread
MinNat(a, b) == IF a < b THEN a ELSE b

\* MQTT_CLIENT_TRY_PACK: nothing is queued in an error, and a full buffer is one.
TryPack(packet) ==
  IF error # "ok" THEN UNCHANGED <<error, queue>>
  ELSE IF Len(queue) < QueueSize
       THEN queue' = Append(queue, packet) /\ UNCHANGED error
       ELSE error' = "full" /\ UNCHANGED queue
-----------------------------------------------------------------------------
(* The owner: mqtt_client_init and mqtt_client_free.                       *)

\* A new client, in the error that makes it connect, and its thread.
InitClient ==
  /\ Running /\ life = "offline"
  /\ hist.clients < MaxClients
  /\ hist' = [hist EXCEPT !.clients = @ + 1]
  /\ mq_client' = hist.clients + 1
  /\ alive' = TRUE /\ error' = "initial"
  /\ socketfd' = "none" /\ queue' = <<>> /\ mutex' = NoThread
  /\ retry' = [in |-> 0, delay |-> MinDelay]
  /\ sync' = "loop" /\ terminated' = FALSE
  /\ life' = "online"
  /\ UNCHANGED <<sockets, broker, pubs, fault>>

\* mqtt_client_free is called: its owner is not publishing.
BeginFree ==
  /\ Running /\ life = "online"
  /\ Owner \in Publishers => pub[Owner] = "idle"
  /\ life' = "disconnect"
  /\ UNCHANGED <<client, broker, thread, pubs, fault, hist>>

\* mqtt_disconnect
Disconnect ==
  /\ Running /\ life = "disconnect" /\ Free
  /\ TryPack("disconnect")
  /\ life' = "terminate"
  /\ UNCHANGED <<mq_client, alive, socketfd, sockets, mutex, retry, broker,
                 thread, pubs, fault, hist>>

\* sthread_twf: the thread is told to end ...
Terminate ==
  /\ Running /\ life = "terminate"
  /\ terminated' = TRUE
  /\ life' = "join"
  /\ UNCHANGED <<client, broker, sync, pubs, fault, hist>>

\* ... and joined.
Join ==
  /\ Running /\ life = "join" /\ sync = "done"
  /\ sync' = "none"
  /\ life' = "close"
  /\ UNCHANGED <<client, broker, terminated, pubs, fault, hist>>

\* close of a socket that was opened; to close it twice is a fault.
CloseSocket ==
  /\ sockets' = IF socketfd = "open" THEN sockets - 1 ELSE sockets
  /\ socketfd' = IF socketfd = "none" THEN "none" ELSE "closed"
  /\ broker' = [broker EXCEPT !.session = FALSE]
  /\ fault' = IF socketfd = "closed" THEN "close" ELSE fault

CloseFreed ==
  /\ Running /\ life = "close"
  /\ CloseSocket
  /\ life' = "delete"
  /\ UNCHANGED <<mq_client, alive, error, queue, mutex, retry, thread, pubs,
                 hist>>

\* delete mq_client meets those who publish.
Delete ==
  /\ Running /\ life = "delete"
  /\ alive' = FALSE
  /\ hist' = [hist EXCEPT !.met = [t \in Publishers |-> @[t] \/ pub[t] # "idle"]]
  /\ life' = "forget"
  /\ UNCHANGED <<mq_client, error, socketfd, sockets, queue, mutex, retry,
                 broker, thread, pubs, fault>>

\* mq_client = NULL
Forget ==
  /\ Running /\ life = "forget"
  /\ mq_client' = 0
  /\ life' = "offline"
  /\ UNCHANGED <<alive, error, socketfd, sockets, queue, mutex, retry, broker,
                 thread, pubs, fault, hist>>

OwnerStep ==
  Disconnect \/ Terminate \/ Join \/ CloseFreed \/ Delete \/ Forget
-----------------------------------------------------------------------------
(* The thread: mqtt_client_loop, which calls mqtt_sync again and again.    *)

Stop ==
  /\ Running /\ sync = "loop" /\ terminated
  /\ sync' = "done"
  /\ UNCHANGED <<client, broker, terminated, life, pubs, fault, hist>>

\* Mutant: only the first connection is made by the callback.
BeginSyncInitial ==
  /\ Running /\ sync = "loop" /\ ~terminated /\ Free
  /\ IF error # "initial" THEN sync' = "recv" /\ UNCHANGED mutex
                          ELSE sync' = "reconnect" /\ mutex' = Mqtt
  /\ UNCHANGED <<mq_client, alive, error, socketfd, sockets, queue, retry,
                 broker, terminated, life, pubs, fault, hist>>

\* mqtt_sync locks the mutex; in an error it is not unlocked before the
\* callback, reconnect_client.
BeginSync ==
  /\ Running /\ sync = "loop" /\ ~terminated /\ Free
  /\ IF error = "ok" THEN sync' = "recv" /\ UNCHANGED mutex
                     ELSE sync' = "reconnect" /\ mutex' = Mqtt
  /\ UNCHANGED <<mq_client, alive, error, socketfd, sockets, queue, retry,
                 broker, terminated, life, pubs, fault, hist>>

\* reconnect_client up to its look at the time of the next attempt.
Reconnect ==
  /\ Running /\ sync = "reconnect"
  /\ IF error # "initial" THEN CloseSocket
                          ELSE UNCHANGED <<sockets, socketfd, broker, fault>>
  /\ sync' = IF retry.in > 0 THEN "recv" ELSE "open"
  /\ UNCHANGED <<mq_client, alive, error, queue, mutex, retry, terminated,
                 life, pubs, hist>>

\* Mutant: what is queued is kept.
ConnectKeepingQueue ==
  /\ Running /\ sync = "open" /\ broker.up
  /\ sockets' = sockets + 1 /\ socketfd' = "open"
  /\ error' = "ok" /\ mutex' = NoThread
  /\ queue' = IF Len(queue) < QueueSize THEN Append(queue, "connect") ELSE queue
  /\ broker' = [broker EXCEPT !.session = TRUE, !.first = "nothing"]
  /\ sync' = "subscribe"
  /\ UNCHANGED <<mq_client, alive, retry, terminated, life, pubs, fault, hist>>

\* Mutant: the mutex is not unlocked.
ConnectLocked ==
  /\ Running /\ sync = "open" /\ broker.up
  /\ sockets' = sockets + 1 /\ socketfd' = "open"
  /\ queue' = <<"connect">> /\ error' = "ok"
  /\ broker' = [broker EXCEPT !.session = TRUE, !.first = "nothing"]
  /\ sync' = "subscribe"
  /\ UNCHANGED <<mq_client, alive, mutex, retry, terminated, life, pubs, fault,
                 hist>>

\* A socket is opened: the client starts anew, and mqtt_connect unlocks it.
Connect ==
  /\ Running /\ sync = "open" /\ broker.up
  /\ sockets' = sockets + 1 /\ socketfd' = "open"
  /\ queue' = <<"connect">> /\ error' = "ok"
  /\ mutex' = NoThread
  /\ broker' = [broker EXCEPT !.session = TRUE, !.first = "nothing"]
  /\ sync' = "subscribe"
  /\ UNCHANGED <<mq_client, alive, retry, terminated, life, pubs, fault, hist>>

\* Mutant: the callback unlocks the client before it returns.
ConnectFailsUnlocking ==
  /\ Running /\ sync = "open" /\ ~broker.up
  /\ retry' = [in |-> retry.delay, delay |-> MinNat(2 * retry.delay, MaxDelay)]
  /\ error' = "initial" /\ mutex' = NoThread
  /\ sync' = "recv"
  /\ hist' = [hist EXCEPT !.refused = TRUE]
  /\ UNCHANGED <<mq_client, alive, socketfd, sockets, queue, broker,
                 terminated, life, pubs, fault>>

\* None is: the next attempt is put off and the callback returns.
ConnectFails ==
  /\ Running /\ sync = "open" /\ ~broker.up
  /\ retry' = [in |-> retry.delay, delay |-> MinNat(2 * retry.delay, MaxDelay)]
  /\ error' = "initial"
  /\ sync' = "recv"
  /\ hist' = [hist EXCEPT !.refused = TRUE]
  /\ UNCHANGED <<mq_client, alive, socketfd, sockets, queue, mutex, broker,
                 terminated, life, pubs, fault>>

Subscribe ==
  /\ Running /\ sync = "subscribe" /\ Free
  /\ TryPack("subscribe")
  /\ retry' = [in |-> 0, delay |-> MinDelay]
  /\ sync' = "recv"
  /\ UNCHANGED <<mq_client, alive, socketfd, sockets, mutex, broker,
                 terminated, life, pubs, fault, hist>>

\* mqtt_sync goes on: __mqtt_recv locks the mutex.
Receive ==
  /\ Running /\ sync = "recv" /\ Free
  /\ sync' = "send"
  /\ UNCHANGED <<client, broker, terminated, life, pubs, fault, hist>>

\* __mqtt_send: what is queued is written, unless there is an error other than
\* a full buffer; a session that has ended takes it as well.
Send ==
  /\ Running /\ sync = "send" /\ Free
  /\ IF error \in {"ok", "full"} /\ queue # <<>>
     THEN /\ broker' = [broker EXCEPT
                 !.first = IF broker.session /\ @ = "nothing"
                           THEN Head(queue) ELSE @,
                 !.session = @ /\ \A i \in DOMAIN queue : queue[i] # "disconnect"]
          /\ queue' = <<>>
     ELSE UNCHANGED <<broker, queue>>
  /\ sync' = "loop"
  /\ UNCHANGED <<mq_client, alive, error, socketfd, sockets, mutex, retry,
                 terminated, life, pubs, fault, hist>>

\* The end of the session shows as an error, in a read or in a write.
Notice ==
  /\ Running /\ sync \in {"recv", "send"} /\ Free
  /\ ~broker.session
  /\ error' = "broken"
  /\ sync' = "loop"
  /\ UNCHANGED <<mq_client, alive, socketfd, sockets, queue, mutex, retry,
                 broker, terminated, life, pubs, fault, hist>>

Connecting == BeginSync \/ Reconnect \/ Connect \/ ConnectFails \/ Subscribe
SyncStep == Stop \/ Connecting \/ Receive \/ Send
-----------------------------------------------------------------------------
(* mqtt_client_publish                                                     *)

Return(t) ==
  /\ pub' = [pub EXCEPT ![t] = "idle"]
  /\ loaded' = [loaded EXCEPT ![t] = 0]
  /\ hist' = [hist EXCEPT !.met[t] = FALSE]

\* The look at the client, which returns without one and in an error.
BeginPublish(t) ==
  /\ Running /\ pub[t] = "idle"
  /\ t = Owner => life \in {"offline", "online"}
  /\ hist.publishes < MaxPublishes
  /\ hist' = [hist EXCEPT !.publishes = @ + 1]
  /\ fault' = IF mq_client # 0 /\ ~alive THEN "publish" ELSE fault
  /\ pub' = IF mq_client # 0 /\ alive /\ error = "ok"
            THEN [pub EXCEPT ![t] = "load"] ELSE pub
  /\ UNCHANGED <<client, broker, thread, life, loaded>>

\* The global is read again for the call of mqtt_publish.
LoadClient(t) ==
  /\ Running /\ pub[t] = "load"
  /\ loaded' = [loaded EXCEPT ![t] = mq_client]
  /\ pub' = [pub EXCEPT ![t] = "lock"]
  /\ UNCHANGED <<client, broker, thread, life, fault, hist>>

Gone(t) == loaded[t] # mq_client \/ ~alive

\* mqtt_publish waits for the mutex and queues the packet.
Publish(t) ==
  /\ Running /\ pub[t] = "lock" /\ ~Gone(t) /\ Free
  /\ TryPack("publish")
  /\ Return(t)
  /\ UNCHANGED <<mq_client, alive, socketfd, sockets, mutex, retry, broker,
                 thread, life, fault>>

\* It locks, or waits for, the mutex of a client that has been freed.
PublishFreed(t) ==
  /\ Running /\ pub[t] = "lock" /\ Gone(t)
  /\ fault' = "publish"
  /\ UNCHANGED <<client, broker, thread, life, pubs, hist>>

PublishStep(t) == LoadClient(t) \/ Publish(t) \/ PublishFreed(t)
-----------------------------------------------------------------------------
(* The broker and the clock.                                               *)

\* The broker ends the session, and may stay away.
Outage(up) ==
  /\ Running /\ broker.up
  /\ hist.outages < MaxOutages
  /\ hist' = [hist EXCEPT !.outages = @ + 1]
  /\ broker' = [broker EXCEPT !.up = up, !.session = FALSE]
  /\ UNCHANGED <<client, thread, life, pubs, fault>>

BrokerReturns ==
  /\ Running /\ ~broker.up
  /\ broker' = [broker EXCEPT !.up = TRUE]
  /\ UNCHANGED <<client, thread, life, pubs, fault, hist>>

Tick ==
  /\ Running /\ retry.in > 0
  /\ retry' = [retry EXCEPT !.in = @ - 1]
  /\ UNCHANGED <<mq_client, alive, error, socketfd, sockets, queue, mutex,
                 broker, thread, life, pubs, fault, hist>>

MqttNext ==
  \/ InitClient \/ BeginFree \/ OwnerStep
  \/ SyncStep \/ Notice
  \/ \E t \in Publishers : BeginPublish(t) \/ PublishStep(t)
  \/ \E up \in BOOLEAN : Outage(up)
  \/ BrokerReturns \/ Tick

MqttSpec == MqttInit /\ [][MqttNext]_mqttVars

\* The threads run on, an ended session shows in the end, time passes.
MqttLiveSpec ==
  /\ MqttSpec
  /\ WF_mqttVars(OwnerStep) /\ WF_mqttVars(SyncStep) /\ SF_mqttVars(Notice)
  /\ \A t \in Publishers : WF_mqttVars(PublishStep(t))
  /\ WF_mqttVars(BrokerReturns) /\ WF_mqttVars(Tick)
-----------------------------------------------------------------------------
Retry == [in : 0 .. MaxDelay, delay : MinDelay .. MaxDelay]
Broker == [up : BOOLEAN, session : BOOLEAN, first : Packet \cup {"nothing"}]
History == [met : [Publishers -> BOOLEAN], refused : BOOLEAN,
            clients : 0 .. MaxClients, publishes : 0 .. MaxPublishes,
            outages : 0 .. MaxOutages]

MqttTypeOK ==
  /\ mq_client \in 0 .. MaxClients /\ alive \in BOOLEAN
  /\ error \in {"ok", "initial", "broken", "full"}
  /\ socketfd \in {"none", "open", "closed"}
  /\ sockets \in Nat
  /\ queue \in Seq(Packet) /\ Len(queue) <= QueueSize
  /\ mutex \in {NoThread, Mqtt}
  /\ retry \in Retry
  /\ broker \in Broker
  /\ sync \in {"none", "loop", "reconnect", "open", "subscribe", "recv",
               "send", "done"}
  /\ terminated \in BOOLEAN
  /\ life \in {"offline", "online"} \cup Freeing
  /\ pub \in [Publishers -> {"idle", "load", "lock"}]
  /\ loaded \in [Publishers -> 0 .. MaxClients]
  /\ fault \in {"none", "publish", "close", "channels", "thread_w1", "st_eh"}
  /\ hist \in History

\* The thread waits for the mutex that it holds itself.
Stuck == mutex = Mqtt /\ sync \notin {"reconnect", "open"}

\* On every connection the broker hears CONNECT first, whoever publishes while
\* the client reconnects (mqtt_client.cpp:212-222).
ConnectFirst == broker.first \in {"nothing", "connect"}

\* Each socket is closed once: one at most is open, it is the client's, and none
\* is left when the client is freed (mqtt_client.cpp:157-159, 248-249).
SocketsKept ==
  /\ sockets = IF socketfd = "open" THEN 1 ELSE 0
  /\ ~alive => sockets = 0
  /\ fault # "close"

\* Only a publisher uses a freed client, and only when the client was freed
\* during its call or is just being freed (mqtt_client.cpp:129-149, 240-261).
FaultOnlyWhenFreed ==
  fault = "publish" => life = "forget" \/ \E t \in Publishers : hist.met[t]

\* The thread locks itself out of its client in one way only: by an attempt to
\* connect that failed (mqtt_client.cpp:172-174, 188-199).
StuckOnlyWhenRefused == Stuck => hist.refused

\* After an error the client is connected again, or it is freed or stuck
\* (mqtt_client.cpp:151-238).  As every attempt that fails leaves it stuck, this is
\* about the first attempt: once it is due it gets as far as CONNECT, in spite of
\* the publishers and the lock that it holds on its way.
Recovers ==
  (alive /\ error # "ok") ~> (error = "ok" \/ ~alive \/ Stuck \/ fault # "none")

\* "automatically reconnect to the broker after an error occurs" (mqtt.h:1412-1413):
\* a client that is not being freed is connected in the end.
Reconnects ==
  (life = "online" /\ error # "ok")
     ~> (error = "ok" \/ life # "online" \/ fault # "none")
==============================================================================
