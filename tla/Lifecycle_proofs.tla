--------------------------- MODULE Lifecycle_proofs ---------------------------
(***************************************************************************)
(* Proofs about MqttClient and Lifecycle: the MQTT client alone and the    *)
(* program from its start to its end, for every buffer, delay and number   *)
(* of clients, publications and outages.                                   *)
(***************************************************************************)
EXTENDS Lifecycle, SequenceTheorems, TLAPS

-----------------------------------------------------------------------------
(* The MQTT client, also when a thread stumbles on something that is not   *)
(* the client's, so that its invariant is that of the whole program.       *)

Stumble ==
  /\ fault' \in {"channels", "thread_w1", "st_eh"}
  /\ UNCHANGED <<client, broker, thread, life, pubs, hist>>

Step == MqttNext \/ Stumble

\* Where the owner and the thread are decides what exists and who has the mutex.
FlowInv ==
  /\ alive = (life \notin {"offline", "forget"})
  /\ life = "offline" => mq_client = 0
  /\ (sync = "none") = (life \in {"offline", "close", "delete", "forget"})
  /\ sync \in {"reconnect", "open"} => mutex = Mqtt
  /\ mutex = Mqtt => sync \in {"reconnect", "open", "recv"}
  /\ life = "join" => terminated

\* A closed descriptor is kept for a moment, or by a thread that is stuck.
SocketInv ==
  /\ SocketsKept
  /\ socketfd = "open" => life \notin {"delete", "forget", "offline"}
  /\ sync = "open" \/ error = "initial" => socketfd # "open"
  /\ socketfd = "closed" =>
       \/ life \in {"delete", "forget", "offline"}
       \/ sync = "open"
       \/ sync = "recv" /\ mutex = Mqtt

\* A session that has heard nothing has CONNECT before it.
SessionInv ==
  /\ ConnectFirst
  /\ broker.session => socketfd = "open"
  /\ broker.session /\ broker.first = "nothing" =>
       queue # <<>> /\ Head(queue) = "connect"

\* A publisher that has not met the end of a client has the one there is.
PublishInv ==
  /\ FaultOnlyWhenFreed
  /\ \A t \in Publishers :
       pub[t] # "idle" =>
         hist.met[t] \/ (alive /\ (pub[t] = "lock" => loaded[t] = mq_client))

\* An attempt is put off only when one was refused.
RetryInv == (retry.in > 0 => hist.refused) /\ StuckOnlyWhenRefused

MqttInv ==
  MqttTypeOK /\ FlowInv /\ SocketInv /\ SessionInv /\ PublishInv /\ RetryInv
-----------------------------------------------------------------------------
LEMMA MqttInitial == MqttInit => MqttInv
<1> SUFFICES ASSUME MqttInit PROVE MqttInv
  OBVIOUS
<1>1. <<>> \in Seq(Packet) /\ Len(<<>>) = 0
  BY EmptySeq
<1>2. broker \in Broker
  BY DEF MqttInit, Broker
<1>7. retry \in Retry
  BY MqttClientAssumption DEF MqttInit, Retry
<1>8. hist \in History
  <2>1. 0 \in 0 .. MaxClients /\ 0 \in 0 .. MaxPublishes /\ 0 \in 0 .. MaxOutages
    BY MqttClientAssumption
  <2>2. [t \in Publishers |-> FALSE] \in [Publishers -> BOOLEAN]
    OBVIOUS
  <2> QED BY <2>1, <2>2 DEF MqttInit, History
<1>9. mq_client \in 0 .. MaxClients /\ Len(queue) <= QueueSize
  BY <1>1, MqttClientAssumption DEF MqttInit
<1>10. loaded \in [Publishers -> 0 .. MaxClients]
  BY MqttClientAssumption DEF MqttInit
<1>m. MqttTypeOK
  BY <1>1, <1>2, <1>7, <1>8, <1>9, <1>10 DEF MqttInit, MqttTypeOK
<1>3. FlowInv /\ SocketInv
  BY MqttClientAssumption DEF MqttInit, FlowInv, SocketInv, SocketsKept
<1>4. SessionInv
  BY DEF MqttInit, SessionInv, ConnectFirst
<1>5. PublishInv
  BY DEF MqttInit, PublishInv, FaultOnlyWhenFreed
<1>6. RetryInv
  BY MqttClientAssumption DEF MqttInit, RetryInv, StuckOnlyWhenRefused, Stuck
<1> QED BY <1>m, <1>3, <1>4, <1>5, <1>6 DEF MqttInv

\* What an update leaves of the records.
LEMMA BrokerUpdates ==
  ASSUME NEW b \in Broker, NEW u \in BOOLEAN, NEW f \in Packet \cup {"nothing"},
         NEW v \in BOOLEAN
  PROVE  /\ b.session \in BOOLEAN /\ b.first \in Packet \cup {"nothing"}
         /\ [b EXCEPT !.session = v] \in Broker
         /\ [b EXCEPT !.up = u] \in Broker
         /\ [b EXCEPT !.up = u, !.session = v] \in Broker
         /\ [b EXCEPT !.session = v, !.first = f] \in Broker
         /\ [b EXCEPT !.first = f, !.session = v] \in Broker
BY DEF Broker

LEMMA HistoryUpdates ==
  ASSUME NEW h \in History
  PROVE  /\ h.met \in [Publishers -> BOOLEAN] /\ h.refused \in BOOLEAN
         /\ h.clients \in Nat /\ h.clients <= MaxClients
         /\ h.clients < MaxClients => [h EXCEPT !.clients = @ + 1] \in History
         /\ h.publishes < MaxPublishes => [h EXCEPT !.publishes = @ + 1] \in History
         /\ h.outages < MaxOutages => [h EXCEPT !.outages = @ + 1] \in History
         /\ [h EXCEPT !.refused = TRUE] \in History
         /\ \A m \in [Publishers -> BOOLEAN] : [h EXCEPT !.met = m] \in History
         /\ \A t \in Publishers : [h EXCEPT !.met[t] = FALSE] \in History
<1>1. /\ h.met \in [Publishers -> BOOLEAN] /\ h.refused \in BOOLEAN
      /\ h.clients \in Nat /\ h.clients <= MaxClients
  BY MqttClientAssumption DEF History
<1>2. h.clients < MaxClients => [h EXCEPT !.clients = @ + 1] \in History
  BY MqttClientAssumption DEF History
<1>3. h.publishes < MaxPublishes => [h EXCEPT !.publishes = @ + 1] \in History
  BY MqttClientAssumption DEF History
<1>4. h.outages < MaxOutages => [h EXCEPT !.outages = @ + 1] \in History
  BY MqttClientAssumption DEF History
<1>5. [h EXCEPT !.refused = TRUE] \in History
  BY DEF History
<1>6. ASSUME NEW m \in [Publishers -> BOOLEAN]
      PROVE  [h EXCEPT !.met = m] \in History
  BY DEF History
<1>7. ASSUME NEW t \in Publishers
      PROVE  [h EXCEPT !.met[t] = FALSE] \in History
  BY DEF History
<1> QED BY <1>1, <1>2, <1>3, <1>4, <1>5, <1>6, <1>7

\* What packing leaves: the head of the queue and its bound.
LEMMA TryPackType ==
  ASSUME MqttTypeOK, NEW packet \in Packet, TryPack(packet)
  PROVE  /\ error' \in {"ok", "initial", "broken", "full"}
         /\ error' = "initial" => error = "initial"
         /\ queue' \in Seq(Packet) /\ Len(queue') <= QueueSize
         /\ queue # <<>> => queue' # <<>> /\ Head(queue') = Head(queue)
<1>1. queue \in Seq(Packet) /\ Len(queue) \in Nat /\ Len(queue) <= QueueSize
  BY LenProperties DEF MqttTypeOK
<1>2. CASE queue' = Append(queue, packet) /\ Len(queue) < QueueSize /\ error' = error
  <2>1. queue' \in Seq(Packet) /\ Len(queue') = Len(queue) + 1
    BY <1>1, <1>2, AppendProperties
  <2>2. Len(queue') <= QueueSize
    BY <1>1, <1>2, <2>1, MqttClientAssumption
  <2>3. queue # <<>> => queue' # <<>> /\ Head(queue') = Head(queue)
    BY <1>1, <1>2, <2>1, AppendProperties
  <2> QED BY <1>2, <2>1, <2>2, <2>3 DEF MqttTypeOK
<1>3. CASE queue' = queue
  BY <1>1, <1>3 DEF TryPack, MqttTypeOK
<1> QED BY <1>2, <1>3 DEF TryPack

\* The types.
LEMMA TypeStep ==
  ASSUME MqttTypeOK, SocketsKept, [Step]_mqttVars
  PROVE  MqttTypeOK'
<1> USE DEF MqttTypeOK, mqttVars, client, thread, pubs
<1>1. CASE InitClient
  <2>1. <<>> \in Seq(Packet) /\ Len(<<>>) = 0
    BY EmptySeq
  <2>2. hist' \in History
    BY <1>1, HistoryUpdates DEF InitClient
  <2>4. hist.clients \in Nat /\ hist.clients < MaxClients /\ mq_client' = hist.clients + 1
    BY <1>1, HistoryUpdates DEF InitClient
  <2>5. mq_client' \in 0 .. MaxClients
    BY <2>4, MqttClientAssumption
  <2>6. Len(queue') <= QueueSize /\ queue' \in Seq(Packet)
    BY <1>1, <2>1, MqttClientAssumption DEF InitClient
  <2>3. retry' \in Retry
    BY <1>1, MqttClientAssumption DEF InitClient, Retry
  <2> QED BY <1>1, <2>2, <2>3, <2>5, <2>6 DEF InitClient
<1>2. CASE BeginFree
  BY <1>2 DEF BeginFree, Freeing
<1>3. CASE Disconnect
  <2>1. /\ error' \in {"ok", "initial", "broken", "full"}
        /\ queue' \in Seq(Packet) /\ Len(queue') <= QueueSize
    BY <1>3, TryPackType DEF Disconnect, Packet
  <2> QED BY <1>3, <2>1 DEF Disconnect, Freeing
<1>4. CASE Terminate
  BY <1>4 DEF Terminate, Freeing
<1>5. CASE Join
  BY <1>5 DEF Join, Freeing
<1>6. CASE CloseFreed
  <2>1. broker' \in Broker
    BY <1>6, BrokerUpdates DEF CloseFreed, CloseSocket
  <2>2. sockets' \in Nat /\ socketfd' \in {"none", "open", "closed"}
    BY <1>6 DEF CloseFreed, CloseSocket, SocketsKept
  <2>3. fault' \in {"none", "publish", "close", "channels", "thread_w1", "st_eh"}
    BY <1>6 DEF CloseFreed, CloseSocket
  <2> QED BY <1>6, <2>1, <2>2, <2>3 DEF CloseFreed, Freeing
<1>7. CASE Delete
  <2>1. [t \in Publishers |-> hist.met[t] \/ pub[t] # "idle"] \in [Publishers -> BOOLEAN]
    OBVIOUS
  <2>2. hist' \in History
    BY <1>7, <2>1, HistoryUpdates DEF Delete
  <2> QED BY ZenonT(40), <1>7, <2>2 DEF Delete, Freeing
<1>8. CASE Forget
  BY <1>8, MqttClientAssumption DEF Forget
<1>9. CASE Stop
  BY <1>9 DEF Stop
<1>10. CASE BeginSync
  BY <1>10 DEF BeginSync
<1>11. CASE Reconnect
  <2>1. broker' \in Broker
    BY <1>11, BrokerUpdates DEF Reconnect, CloseSocket
  <2>2. sockets' \in Nat /\ socketfd' \in {"none", "open", "closed"}
    BY <1>11 DEF Reconnect, CloseSocket, SocketsKept
  <2>3. fault' \in {"none", "publish", "close", "channels", "thread_w1", "st_eh"}
    BY <1>11 DEF Reconnect, CloseSocket
  <2> QED BY <1>11, <2>1, <2>2, <2>3 DEF Reconnect
<1>12. CASE Connect
  <2>1. queue' \in Seq(Packet) /\ Len(queue') = 1
    BY <1>12 DEF Connect, Packet
  <2>2. Len(queue') <= QueueSize
    BY <2>1, MqttClientAssumption
  <2>3. broker' \in Broker
    BY <1>12, BrokerUpdates DEF Connect
  <2> QED BY <1>12, <2>1, <2>2, <2>3 DEF Connect
<1>13. CASE ConnectFails
  <2>1. retry' \in Retry
    BY <1>13, MqttClientAssumption DEF ConnectFails, MinNat, Retry
  <2>2. hist' \in History
    BY <1>13, HistoryUpdates DEF ConnectFails
  <2> QED BY <1>13, <2>1, <2>2 DEF ConnectFails
<1>14. CASE Subscribe
  <2>1. /\ error' \in {"ok", "initial", "broken", "full"}
        /\ queue' \in Seq(Packet) /\ Len(queue') <= QueueSize
    BY <1>14, TryPackType DEF Subscribe, Packet
  <2>2. retry' \in Retry
    BY <1>14, MqttClientAssumption DEF Subscribe, Retry
  <2> QED BY <1>14, <2>1, <2>2 DEF Subscribe
<1>15. CASE Receive
  BY <1>15 DEF Receive
<1>16. CASE Send
  <2>1. <<>> \in Seq(Packet) /\ Len(<<>>) <= QueueSize
    BY EmptySeq, MqttClientAssumption
  <2>2. queue # <<>> => Head(queue) \in Packet
    BY HeadTailProperties
  <2>3. broker' \in Broker
    <3>1. CASE error \in {"ok", "full"} /\ queue # <<>>
      <4>1. (IF broker.session /\ broker.first = "nothing" THEN Head(queue) ELSE broker.first)
               \in Packet \cup {"nothing"}
        BY <2>2, <3>1, BrokerUpdates
      <4>2. (broker.session /\ \A i \in DOMAIN queue : queue[i] # "disconnect") \in BOOLEAN
        OBVIOUS
      <4> DEFINE f == IF broker.session /\ broker.first = "nothing" THEN Head(queue) ELSE broker.first
      <4> DEFINE v == broker.session /\ \A i \in DOMAIN queue : queue[i] # "disconnect"
      <4>3. broker' = [broker EXCEPT !.first = f, !.session = v]
        BY <1>16, <3>1 DEF Send
      <4>4. f \in Packet \cup {"nothing"} /\ v \in BOOLEAN
        BY <4>1, <4>2
      <4> HIDE DEF f, v
      <4> QED BY <4>3, <4>4, BrokerUpdates
    <3>2. CASE ~(error \in {"ok", "full"} /\ queue # <<>>)
      BY <1>16, <3>2 DEF Send
    <3> QED BY <3>1, <3>2
  <2> QED BY ZenonT(40), <1>16, <2>1, <2>3 DEF Send
<1>17. CASE Notice
  BY <1>17 DEF Notice
<1>18. CASE BrokerReturns
  <2>1. broker' \in Broker
    BY <1>18, BrokerUpdates DEF BrokerReturns
  <2> QED BY <1>18, <2>1 DEF BrokerReturns
<1>19. CASE Tick
  <2>1. retry' \in Retry
    <3>1. retry.in \in 0 .. MaxDelay /\ retry.delay \in MinDelay .. MaxDelay
      BY DEF Retry
    <3>2. retry.in - 1 \in 0 .. MaxDelay
      BY <1>19, <3>1, MqttClientAssumption DEF Tick
    <3> QED BY <1>19, <3>2 DEF Tick, Retry
  <2> QED BY <1>19, <2>1 DEF Tick
<1>20. CASE Stumble
  BY <1>20 DEF Stumble
<1>21. ASSUME NEW t \in Publishers, BeginPublish(t)
       PROVE  MqttTypeOK'
  <2>1. hist' \in History
    BY <1>21, HistoryUpdates DEF BeginPublish
  <2> QED BY <1>21, <2>1 DEF BeginPublish
<1>22. ASSUME NEW t \in Publishers, LoadClient(t)
       PROVE  MqttTypeOK'
  BY <1>22 DEF LoadClient
<1>23. ASSUME NEW t \in Publishers, Publish(t)
       PROVE  MqttTypeOK'
  <2>1. /\ error' \in {"ok", "initial", "broken", "full"}
        /\ queue' \in Seq(Packet) /\ Len(queue') <= QueueSize
    BY <1>23, TryPackType DEF Publish, Packet
  <2>2. loaded' \in [Publishers -> 0 .. MaxClients]
    BY <1>23, MqttClientAssumption DEF Publish, Return
  <2>3. hist' \in History
    BY <1>23, HistoryUpdates DEF Publish, Return
  <2> QED BY <1>23, <2>1, <2>2, <2>3 DEF Publish, Return
<1>24. ASSUME NEW t \in Publishers, PublishFreed(t)
       PROVE  MqttTypeOK'
  BY <1>24 DEF PublishFreed
<1>25. ASSUME NEW up \in BOOLEAN, Outage(up)
       PROVE  MqttTypeOK'
  <2>1. broker' \in Broker
    BY <1>25, BrokerUpdates DEF Outage
  <2>2. hist' \in History
    BY <1>25, HistoryUpdates DEF Outage
  <2> QED BY <1>25, <2>1, <2>2 DEF Outage
<1>26. CASE UNCHANGED mqttVars
  BY <1>26
<1> QED BY <1>1, <1>2, <1>3, <1>4, <1>5, <1>6, <1>7, <1>8, <1>9,
           <1>10, <1>11, <1>12, <1>13, <1>14, <1>15, <1>16, <1>17, <1>18,
           <1>19, <1>20, <1>21, <1>22, <1>23, <1>24, <1>25, <1>26
        DEF Step, MqttNext, OwnerStep, SyncStep, Connecting, PublishStep
\* Where everyone is.
LEMMA FlowStep ==
  ASSUME MqttTypeOK, FlowInv, [Step]_mqttVars
  PROVE  FlowInv'
<1> USE DEF FlowInv, mqttVars, client, thread, pubs
<1>1. CASE InitClient
  <2>1. /\ alive' = TRUE /\ life' = "online" /\ sync' = "loop"
        /\ mutex' = NoThread
    BY <1>1 DEF InitClient
  <2>2. alive' = (life' \notin {"offline", "forget"})
    BY <2>1, Zenon
  <2>3. Mqtt # NoThread
    BY MqttClientAssumption
  <2>4. (sync' = "none") = (life' \in {"offline", "close", "delete", "forget"})
    BY <2>1
  <2> QED BY <2>1, <2>2, <2>3, <2>4
<1>2. CASE BeginFree
  BY <1>2 DEF BeginFree
<1>3. CASE Disconnect
  BY <1>3 DEF Disconnect
<1>4. CASE Terminate
  BY <1>4 DEF Terminate
<1>5. CASE Join
  BY <1>5 DEF Join
<1>6. CASE CloseFreed
  BY <1>6 DEF CloseFreed, CloseSocket
<1>7. CASE Delete
  BY <1>7 DEF Delete
<1>8. CASE Forget
  BY <1>8 DEF Forget
<1>9. CASE Stop
  BY <1>9 DEF Stop
<1>10. CASE BeginSync
  BY <1>10, MqttClientAssumption DEF BeginSync, Free
<1>11. CASE Reconnect
  BY <1>11 DEF Reconnect, CloseSocket
<1>12. CASE Connect
  BY <1>12, MqttClientAssumption DEF Connect
<1>13. CASE ConnectFails
  BY <1>13 DEF ConnectFails
<1>14. CASE Subscribe
  BY <1>14, MqttClientAssumption DEF Subscribe, Free
<1>15. CASE Receive
  BY <1>15, MqttClientAssumption DEF Receive, Free
<1>16. CASE Send
  BY <1>16, MqttClientAssumption DEF Send, Free
<1>17. CASE Notice
  BY <1>17, MqttClientAssumption DEF Notice, Free
<1>18. CASE BrokerReturns
  BY <1>18 DEF BrokerReturns
<1>19. CASE Tick
  BY <1>19 DEF Tick
<1>20. CASE Stumble
  BY <1>20 DEF Stumble
<1>21. ASSUME NEW t \in Publishers, BeginPublish(t)
       PROVE  FlowInv'
  BY <1>21 DEF BeginPublish
<1>22. ASSUME NEW t \in Publishers, LoadClient(t)
       PROVE  FlowInv'
  BY <1>22 DEF LoadClient
<1>23. ASSUME NEW t \in Publishers, Publish(t)
       PROVE  FlowInv'
  BY <1>23 DEF Publish, Return
<1>24. ASSUME NEW t \in Publishers, PublishFreed(t)
       PROVE  FlowInv'
  BY <1>24 DEF PublishFreed
<1>25. ASSUME NEW up \in BOOLEAN, Outage(up)
       PROVE  FlowInv'
  BY <1>25 DEF Outage
<1>26. CASE UNCHANGED mqttVars
  BY <1>26
<1> QED BY <1>1, <1>2, <1>3, <1>4, <1>5, <1>6, <1>7, <1>8, <1>9,
           <1>10, <1>11, <1>12, <1>13, <1>14, <1>15, <1>16, <1>17, <1>18,
           <1>19, <1>20, <1>21, <1>22, <1>23, <1>24, <1>25, <1>26
        DEF Step, MqttNext, OwnerStep, SyncStep, Connecting, PublishStep
\* The sockets.
LEMMA SocketStep ==
  ASSUME MqttTypeOK, FlowInv, SocketInv, [Step]_mqttVars
  PROVE  SocketInv'
<1> USE DEF SocketInv, SocketsKept, FlowInv, mqttVars, client, thread, pubs
<1>1. CASE InitClient
  BY <1>1 DEF InitClient
<1>2. CASE BeginFree
  BY <1>2 DEF BeginFree
<1>3. CASE Disconnect
  <2>1. error' = "initial" => error = "initial"
    BY <1>3, TryPackType DEF Disconnect, Packet
  <2> QED BY <1>3, <2>1 DEF Disconnect
<1>4. CASE Terminate
  BY <1>4 DEF Terminate
<1>5. CASE Join
  BY <1>5 DEF Join
<1>6. CASE CloseFreed
  BY <1>6 DEF CloseFreed, CloseSocket, MqttTypeOK
<1>7. CASE Delete
  BY <1>7 DEF Delete
<1>8. CASE Forget
  BY <1>8 DEF Forget
<1>9. CASE Stop
  BY <1>9 DEF Stop
<1>10. CASE BeginSync
  BY <1>10 DEF BeginSync
<1>11. CASE Reconnect
  BY <1>11 DEF Reconnect, CloseSocket, MqttTypeOK
<1>12. CASE Connect
  <2>1. /\ socketfd # "open" /\ sockets = 0 /\ alive
        /\ life \notin {"delete", "forget", "offline"}
    BY <1>12 DEF Connect
  <2>2. /\ sockets' = sockets + 1 /\ socketfd' = "open" /\ error' = "ok"
        /\ sync' = "subscribe" /\ alive' = alive /\ life' = life /\ fault' = fault
    BY <1>12 DEF Connect
  <2> QED BY <2>1, <2>2
<1>13. CASE ConnectFails
  BY <1>13 DEF ConnectFails
<1>14. CASE Subscribe
  <2>1. error' = "initial" => error = "initial"
    BY <1>14, TryPackType DEF Subscribe, Packet
  <2> QED BY <1>14, <2>1 DEF Subscribe
<1>15. CASE Receive
  BY <1>15, MqttClientAssumption DEF Receive, Free
<1>16. CASE Send
  BY <1>16, MqttClientAssumption DEF Send, Free
<1>17. CASE Notice
  BY <1>17, MqttClientAssumption DEF Notice, Free
<1>18. CASE BrokerReturns
  BY <1>18 DEF BrokerReturns
<1>19. CASE Tick
  BY <1>19 DEF Tick
<1>20. CASE Stumble
  BY <1>20 DEF Stumble
<1>21. ASSUME NEW t \in Publishers, BeginPublish(t)
       PROVE  SocketInv'
  BY <1>21 DEF BeginPublish
<1>22. ASSUME NEW t \in Publishers, LoadClient(t)
       PROVE  SocketInv'
  BY <1>22 DEF LoadClient
<1>23. ASSUME NEW t \in Publishers, Publish(t)
       PROVE  SocketInv'
  <2>1. error' = "initial" => error = "initial"
    BY <1>23, TryPackType DEF Publish, Packet
  <2> QED BY <1>23, <2>1 DEF Publish, Return
<1>24. ASSUME NEW t \in Publishers, PublishFreed(t)
       PROVE  SocketInv'
  BY <1>24 DEF PublishFreed
<1>25. ASSUME NEW up \in BOOLEAN, Outage(up)
       PROVE  SocketInv'
  BY <1>25 DEF Outage
<1>26. CASE UNCHANGED mqttVars
  BY <1>26
<1> QED BY <1>1, <1>2, <1>3, <1>4, <1>5, <1>6, <1>7, <1>8, <1>9,
           <1>10, <1>11, <1>12, <1>13, <1>14, <1>15, <1>16, <1>17, <1>18,
           <1>19, <1>20, <1>21, <1>22, <1>23, <1>24, <1>25, <1>26
        DEF Step, MqttNext, OwnerStep, SyncStep, Connecting, PublishStep
\* The session with the broker.
LEMMA SessionStep ==
  ASSUME MqttTypeOK, FlowInv, SocketInv, SessionInv, [Step]_mqttVars
  PROVE  SessionInv'
<1> USE DEF SessionInv, ConnectFirst, mqttVars, client, thread, pubs
<1>1. CASE InitClient
  BY <1>1 DEF InitClient, SocketInv
<1>2. CASE BeginFree
  BY <1>2 DEF BeginFree
<1>3. CASE Disconnect
  <2>1. queue # <<>> => queue' # <<>> /\ Head(queue') = Head(queue)
    BY <1>3, TryPackType DEF Disconnect, Packet
  <2> QED BY <1>3, <2>1 DEF Disconnect
<1>4. CASE Terminate
  BY <1>4 DEF Terminate
<1>5. CASE Join
  BY <1>5 DEF Join
<1>6. CASE CloseFreed
  BY <1>6 DEF CloseFreed, CloseSocket, MqttTypeOK, Broker
<1>7. CASE Delete
  BY <1>7 DEF Delete
<1>8. CASE Forget
  BY <1>8 DEF Forget
<1>9. CASE Stop
  BY <1>9 DEF Stop
<1>10. CASE BeginSync
  BY <1>10 DEF BeginSync
<1>11. CASE Reconnect
  <2>1. CASE error # "initial"
    BY <1>11, <2>1 DEF Reconnect, CloseSocket, MqttTypeOK, Broker
  <2>2. CASE error = "initial"
    BY <1>11, <2>2 DEF Reconnect
  <2> QED BY <2>1, <2>2
<1>12. CASE Connect
  <2>1. queue' # <<>> /\ Head(queue') = "connect"
    BY <1>12 DEF Connect
  <2> QED BY <1>12, <2>1 DEF Connect, MqttTypeOK, Broker
<1>13. CASE ConnectFails
  BY <1>13 DEF ConnectFails
<1>14. CASE Subscribe
  <2>1. queue # <<>> => queue' # <<>> /\ Head(queue') = Head(queue)
    BY <1>14, TryPackType DEF Subscribe, Packet
  <2> QED BY <1>14, <2>1 DEF Subscribe
<1>15. CASE Receive
  BY <1>15 DEF Receive
<1>16. CASE Send
  <2>1. CASE error \in {"ok", "full"} /\ queue # <<>>
    <3>1. /\ broker'.first = IF broker.session /\ broker.first = "nothing"
                             THEN Head(queue) ELSE broker.first
          /\ broker'.session => broker.session
      BY <1>16, <2>1 DEF Send, MqttTypeOK, Broker
    <3>2. broker'.first \in {"nothing", "connect"}
      BY <3>1
    <3>3. broker'.session => broker'.first # "nothing"
      BY <3>1
    <3>4. socketfd' = socketfd
      BY <1>16 DEF Send
    <3> QED BY <3>1, <3>2, <3>3, <3>4
  <2>2. CASE ~(error \in {"ok", "full"} /\ queue # <<>>)
    BY <1>16, <2>2 DEF Send
  <2> QED BY <2>1, <2>2
<1>17. CASE Notice
  BY <1>17 DEF Notice
<1>18. CASE BrokerReturns
  BY <1>18 DEF BrokerReturns, MqttTypeOK, Broker
<1>19. CASE Tick
  BY <1>19 DEF Tick
<1>20. CASE Stumble
  BY <1>20 DEF Stumble
<1>21. ASSUME NEW t \in Publishers, BeginPublish(t)
       PROVE  SessionInv'
  BY <1>21 DEF BeginPublish
<1>22. ASSUME NEW t \in Publishers, LoadClient(t)
       PROVE  SessionInv'
  BY <1>22 DEF LoadClient
<1>23. ASSUME NEW t \in Publishers, Publish(t)
       PROVE  SessionInv'
  <2>1. queue # <<>> => queue' # <<>> /\ Head(queue') = Head(queue)
    BY <1>23, TryPackType DEF Publish, Packet
  <2> QED BY <1>23, <2>1 DEF Publish, Return
<1>24. ASSUME NEW t \in Publishers, PublishFreed(t)
       PROVE  SessionInv'
  BY <1>24 DEF PublishFreed
<1>25. ASSUME NEW up \in BOOLEAN, Outage(up)
       PROVE  SessionInv'
  BY <1>25 DEF Outage, MqttTypeOK, Broker
<1>26. CASE UNCHANGED mqttVars
  BY <1>26
<1> QED BY <1>1, <1>2, <1>3, <1>4, <1>5, <1>6, <1>7, <1>8, <1>9,
           <1>10, <1>11, <1>12, <1>13, <1>14, <1>15, <1>16, <1>17, <1>18,
           <1>19, <1>20, <1>21, <1>22, <1>23, <1>24, <1>25, <1>26
        DEF Step, MqttNext, OwnerStep, SyncStep, Connecting, PublishStep
\* The publishers.
LEMMA PublishStepKeeps ==
  ASSUME MqttTypeOK, FlowInv, SocketInv, PublishInv, [Step]_mqttVars
  PROVE  PublishInv'
<1> USE DEF PublishInv, FaultOnlyWhenFreed, mqttVars, client, thread, pubs
<1>1. CASE InitClient
  <2>1. ~alive /\ pub' = pub /\ hist'.met = hist.met /\ fault' = "none"
    BY <1>1 DEF InitClient, FlowInv, MqttTypeOK, History, Running
  <2> QED BY <2>1
<1>2. CASE BeginFree
  BY <1>2 DEF BeginFree
<1>3. CASE Disconnect
  BY <1>3 DEF Disconnect
<1>4. CASE Terminate
  BY <1>4 DEF Terminate
<1>5. CASE Join
  BY <1>5 DEF Join
<1>6. CASE CloseFreed
  BY <1>6 DEF CloseFreed, CloseSocket, Running
<1>7. CASE Delete
  <2>1. /\ hist'.met = [t \in Publishers |-> hist.met[t] \/ pub[t] # "idle"]
        /\ pub' = pub /\ fault' = "none"
    BY <1>7 DEF Delete, MqttTypeOK, History, Running
  <2> QED BY <2>1
<1>8. CASE Forget
  BY <1>8 DEF Forget, FlowInv, Running
<1>9. CASE Stop
  BY <1>9 DEF Stop
<1>10. CASE BeginSync
  BY <1>10 DEF BeginSync
<1>11. CASE Reconnect
  BY <1>11 DEF Reconnect, CloseSocket, Running
<1>12. CASE Connect
  BY <1>12 DEF Connect
<1>13. CASE ConnectFails
  BY <1>13 DEF ConnectFails, MqttTypeOK, History
<1>14. CASE Subscribe
  BY <1>14 DEF Subscribe
<1>15. CASE Receive
  BY <1>15 DEF Receive
<1>16. CASE Send
  BY <1>16 DEF Send
<1>17. CASE Notice
  BY <1>17 DEF Notice
<1>18. CASE BrokerReturns
  BY <1>18 DEF BrokerReturns
<1>19. CASE Tick
  BY <1>19 DEF Tick
<1>20. CASE Stumble
  BY <1>20 DEF Stumble
<1>21. ASSUME NEW t \in Publishers, BeginPublish(t)
       PROVE  PublishInv'
  <2>1. hist'.met = hist.met /\ UNCHANGED <<alive, mq_client, life, loaded>>
    BY <1>21 DEF BeginPublish, MqttTypeOK, History
  <2>2. FaultOnlyWhenFreed'
    BY <1>21, <2>1 DEF BeginPublish, FlowInv, Running
  <2>3. ASSUME NEW s \in Publishers, pub'[s] # "idle"
        PROVE  hist'.met[s] \/ (alive' /\ (pub'[s] = "lock" => loaded'[s] = mq_client'))
    <3>1. (s = t /\ alive /\ pub'[s] = "load") \/ pub'[s] = pub[s]
      BY <1>21 DEF BeginPublish, MqttTypeOK
    <3> QED BY <2>1, <2>3, <3>1
  <2> QED BY <2>2, <2>3
<1>22. ASSUME NEW t \in Publishers, LoadClient(t)
       PROVE  PublishInv'
  BY <1>22 DEF LoadClient, MqttTypeOK
<1>23. ASSUME NEW t \in Publishers, Publish(t)
       PROVE  PublishInv'
  BY <1>23 DEF Publish, Return, MqttTypeOK, History, Running
<1>24. ASSUME NEW t \in Publishers, PublishFreed(t)
       PROVE  PublishInv'
  BY <1>24 DEF PublishFreed, Gone, MqttTypeOK
<1>25. ASSUME NEW up \in BOOLEAN, Outage(up)
       PROVE  PublishInv'
  BY <1>25 DEF Outage, MqttTypeOK, History
<1>26. CASE UNCHANGED mqttVars
  BY <1>26
<1> QED BY <1>1, <1>2, <1>3, <1>4, <1>5, <1>6, <1>7, <1>8, <1>9,
           <1>10, <1>11, <1>12, <1>13, <1>14, <1>15, <1>16, <1>17, <1>18,
           <1>19, <1>20, <1>21, <1>22, <1>23, <1>24, <1>25, <1>26
        DEF Step, MqttNext, OwnerStep, SyncStep, Connecting, PublishStep
\* The attempts to connect.
LEMMA RetryStep ==
  ASSUME MqttTypeOK, FlowInv, RetryInv, [Step]_mqttVars
  PROVE  RetryInv'
<1> USE DEF RetryInv, StuckOnlyWhenRefused, Stuck, mqttVars, client, thread, pubs
<1>1. CASE InitClient
  BY <1>1, MqttClientAssumption DEF InitClient, MqttTypeOK, History, Retry
<1>2. CASE BeginFree
  BY <1>2 DEF BeginFree
<1>3. CASE Disconnect
  BY <1>3 DEF Disconnect
<1>4. CASE Terminate
  BY <1>4 DEF Terminate
<1>5. CASE Join
  BY <1>5 DEF Join
<1>6. CASE CloseFreed
  BY <1>6 DEF CloseFreed, CloseSocket
<1>7. CASE Delete
  BY <1>7 DEF Delete, MqttTypeOK, History
<1>8. CASE Forget
  BY <1>8 DEF Forget
<1>9. CASE Stop
  BY <1>9 DEF Stop
<1>10. CASE BeginSync
  BY <1>10, MqttClientAssumption DEF BeginSync, Free
<1>11. CASE Reconnect
  BY <1>11 DEF Reconnect, CloseSocket, FlowInv
<1>12. CASE Connect
  BY <1>12, MqttClientAssumption DEF Connect
<1>13. CASE ConnectFails
  BY <1>13 DEF ConnectFails, MqttTypeOK, History, Retry
<1>14. CASE Subscribe
  BY <1>14, MqttClientAssumption DEF Subscribe, Free
<1>15. CASE Receive
  BY <1>15, MqttClientAssumption DEF Receive, Free
<1>16. CASE Send
  BY <1>16, MqttClientAssumption DEF Send, Free
<1>17. CASE Notice
  BY <1>17, MqttClientAssumption DEF Notice, Free
<1>18. CASE BrokerReturns
  BY <1>18 DEF BrokerReturns
<1>19. CASE Tick
  BY <1>19 DEF Tick, MqttTypeOK, Retry
<1>20. CASE Stumble
  BY <1>20 DEF Stumble
<1>21. ASSUME NEW t \in Publishers, BeginPublish(t)
       PROVE  RetryInv'
  BY <1>21 DEF BeginPublish, MqttTypeOK, History
<1>22. ASSUME NEW t \in Publishers, LoadClient(t)
       PROVE  RetryInv'
  BY <1>22 DEF LoadClient
<1>23. ASSUME NEW t \in Publishers, Publish(t)
       PROVE  RetryInv'
  BY <1>23 DEF Publish, Return, MqttTypeOK, History
<1>24. ASSUME NEW t \in Publishers, PublishFreed(t)
       PROVE  RetryInv'
  BY <1>24 DEF PublishFreed
<1>25. ASSUME NEW up \in BOOLEAN, Outage(up)
       PROVE  RetryInv'
  BY <1>25 DEF Outage, MqttTypeOK, History
<1>26. CASE UNCHANGED mqttVars
  BY <1>26
<1> QED BY <1>1, <1>2, <1>3, <1>4, <1>5, <1>6, <1>7, <1>8, <1>9,
           <1>10, <1>11, <1>12, <1>13, <1>14, <1>15, <1>16, <1>17, <1>18,
           <1>19, <1>20, <1>21, <1>22, <1>23, <1>24, <1>25, <1>26
        DEF Step, MqttNext, OwnerStep, SyncStep, Connecting, PublishStep

LEMMA MqttStepKeeps ==
  ASSUME MqttInv, [Step]_mqttVars
  PROVE  MqttInv'
BY TypeStep, FlowStep, SocketStep, SessionStep, PublishStepKeeps, RetryStep
   DEF MqttInv, SocketInv
-----------------------------------------------------------------------------
\* The inductive invariant.
THEOREM MqttInvariance == MqttSpec => []MqttInv
<1>1. ASSUME MqttInv, [MqttNext]_mqttVars PROVE MqttInv'
  BY <1>1, MqttStepKeeps DEF Step
<1> QED BY MqttInitial, <1>1, PTL DEF MqttSpec

\* The types hold in every reachable state.
THEOREM MqttTypeCorrect == MqttSpec => []MqttTypeOK
<1>1. MqttInv => MqttTypeOK
  BY DEF MqttInv
<1> QED BY <1>1, MqttInvariance, PTL
-----------------------------------------------------------------------------
(* The program.                                                            *)

Down == {"free_mqtt", "stop_w1", "join_w1", "free_loop", "exited"}

\* The client exists only while the connection's thread is between the result of
\* a registration and the end of its clearing.
ConnInv ==
  /\ conn \in {"none", "connect", "session", "done"} => life = "offline"
  /\ conn = "online" => life = "online"
  /\ conn = "clear" => life \in {"offline", "online"}
  /\ conn = "freeing" => life \in Freeing \cup {"offline"}

\* What the main thread has done so far.
MainInv ==
  /\ main = "start" => conn = "none" /\ w1 = "none" /\ told = {}
  /\ main \in {"free_channels"} \cup Down => conn \in {"none", "done"}
  /\ ~channels => main \in Down
  /\ st_eh = "freed" => main = "exited"
  /\ main \in {"free_loop", "exited"} => w1 = "done"
  /\ main = "run" /\ (Conn \in told \/ conn = "done") => error_seen
  /\ main \in {"run", "join_conn"} => conn # "none"
  /\ main = "join_conn" => Conn \in told
  /\ main = "join_w1" => w1 # "none" /\ W1 \in told

\* Who stumbled.
FaultInv ==
  /\ fault = "channels" => w1 = "iterate" /\ main \in {"free_mqtt", "stop_w1", "join_w1"}
  /\ fault = "thread_w1" => w1 = "none"
  /\ fault # "st_eh"

IInv == MqttInv /\ AppTypeOK /\ ConnInv /\ MainInv /\ FaultInv
-----------------------------------------------------------------------------
LEMMA Initial == LifeInit => IInv
<1> SUFFICES ASSUME LifeInit PROVE IInv
  OBVIOUS
<1>1. MqttInv
  BY MqttInitial DEF LifeInit
<1>2. AppTypeOK /\ MainInv
  BY DEF LifeInit, AppTypeOK, MainInv, Down
<1>3. ConnInv /\ FaultInv
  BY DEF LifeInit, MqttInit, ConnInv, FaultInv
<1> QED BY <1>1, <1>2, <1>3 DEF IInv

\* Every step of the program is one of the MQTT client, or stumbles, or leaves
\* the client alone.
LEMMA MqttPart ==
  ASSUME [Next]_vars
  PROVE  [Step]_mqttVars
<1> USE DEF vars, lifeVars, appVars, signals, Goto, Tell, Untouched, UseChannels, Fault
<1>1. CASE Start
  BY <1>1, Zenon DEF Start
<1>2. CASE FailToStart
  BY <1>2, Zenon DEF FailToStart
<1>3. CASE Signal
  BY <1>3, Zenon DEF Signal
<1>4. CASE LeaveLoop
  BY <1>4, Zenon DEF LeaveLoop
<1>5. CASE JoinConn
  BY <1>5, Zenon DEF JoinConn
<1>6. CASE DeleteChannels
  BY <1>6, Zenon DEF DeleteChannels
<1>7. CASE FreeMqtt
  BY <1>7, Zenon DEF FreeMqtt
<1>8. CASE StopW1
  BY <1>8 DEF StopW1, Step, Stumble
<1>9. CASE JoinW1
  BY <1>9, Zenon DEF JoinW1
<1>10. CASE FreeLoop
  BY <1>10, Zenon DEF FreeLoop
<1>11. CASE ConnDone
  BY <1>11, Zenon DEF ConnDone
<1>12. CASE ConnClear
  BY <1>12 DEF ConnClear, Step, Stumble, MqttNext
<1>13. CASE ConnFreed
  BY <1>13, Zenon DEF ConnFreed
<1>14. CASE ConnFrees
  BY <1>14 DEF ConnFrees, Step, MqttNext
<1>15. CASE ConnRegistered
  BY <1>15 DEF ConnRegistered, Step, Stumble, MqttNext
<1>16. CASE ConnVersionError
  BY <1>16, Zenon DEF ConnVersionError
<1>17. CASE ConnEnds
  BY <1>17, Zenon DEF ConnEnds
<1>18. CASE W1Loop
  BY <1>18, Zenon DEF W1Loop
<1>19. CASE W1Iterate
  BY <1>19 DEF W1Iterate, Step, Stumble
<1>20. CASE MqttReceives
  BY <1>20 DEF MqttReceives, Step, Stumble, MqttNext, SyncStep
<1>21. ASSUME NEW ok \in BOOLEAN, ConnConnect(ok)
       PROVE  [Step]_mqttVars
  BY <1>21, Zenon DEF ConnConnect
<1>22. ASSUME NEW t \in Publishers, PublishStep(t) /\ UNCHANGED lifeVars
       PROVE  [Step]_mqttVars
  BY <1>22 DEF Step, MqttNext
<1>23. ASSUME NEW t \in Publishers, Publishing(t)
       PROVE  [Step]_mqttVars
  BY <1>23 DEF Publishing, Step, MqttNext
<1>24. CASE Stop /\ UNCHANGED lifeVars
  BY <1>24 DEF Step, MqttNext, SyncStep
<1>25. CASE Connecting /\ UNCHANGED lifeVars
  BY <1>25 DEF Step, MqttNext, SyncStep
<1>26. CASE Send /\ UNCHANGED lifeVars
  BY <1>26 DEF Step, MqttNext, SyncStep
<1>27. CASE Notice /\ UNCHANGED lifeVars
  BY <1>27 DEF Step, MqttNext
<1>28. CASE BrokerReturns /\ UNCHANGED lifeVars
  BY <1>28 DEF Step, MqttNext
<1>29. CASE Tick /\ UNCHANGED lifeVars
  BY <1>29 DEF Step, MqttNext
<1>30. ASSUME NEW up \in BOOLEAN, Outage(up) /\ UNCHANGED lifeVars
       PROVE  [Step]_mqttVars
  BY <1>30 DEF Step, MqttNext
<1>31. ASSUME NEW t \in {W1, Conn, Mqtt}, HandleSignal(t)
       PROVE  [Step]_mqttVars
  BY <1>31 DEF HandleSignal, Step, Stumble
<1>32. CASE UNCHANGED vars
  BY <1>32 DEF vars
<1> QED BY <1>1, <1>2, <1>3, <1>4, <1>5, <1>6, <1>7, <1>8, <1>9,
           <1>10, <1>11, <1>12, <1>13, <1>14, <1>15, <1>16, <1>17, <1>18,
           <1>19, <1>20, <1>21, <1>22, <1>23, <1>24, <1>25, <1>26, <1>27,
           <1>28, <1>29, <1>30, <1>31, <1>32, LifecycleAssumption
        DEF Next, MainStep, ConnStep, W1Step, MqttStep, Environment
\* The types.
LEMMA AppTypeStep ==
  ASSUME AppTypeOK, [Next]_vars
  PROVE  AppTypeOK'
<1> USE DEF AppTypeOK, vars, lifeVars, appVars, signals, Goto, Tell, Untouched
<1>1. CASE Start
  BY <1>1 DEF Start
<1>2. CASE FailToStart
  BY <1>2 DEF FailToStart
<1>3. CASE Signal
  BY <1>3 DEF Signal
<1>4. CASE LeaveLoop
  BY <1>4 DEF LeaveLoop
<1>5. CASE JoinConn
  BY <1>5 DEF JoinConn
<1>6. CASE DeleteChannels
  BY <1>6 DEF DeleteChannels
<1>7. CASE FreeMqtt
  BY <1>7 DEF FreeMqtt
<1>8. CASE StopW1
  BY <1>8 DEF StopW1
<1>9. CASE JoinW1
  BY <1>9 DEF JoinW1
<1>10. CASE FreeLoop
  BY <1>10 DEF FreeLoop
<1>11. CASE ConnDone
  BY <1>11 DEF ConnDone
<1>12. CASE ConnClear
  BY <1>12 DEF ConnClear
<1>13. CASE ConnFreed
  BY <1>13 DEF ConnFreed
<1>14. CASE ConnFrees
  BY <1>14 DEF ConnFrees
<1>15. CASE ConnRegistered
  BY <1>15 DEF ConnRegistered
<1>16. CASE ConnVersionError
  BY <1>16 DEF ConnVersionError
<1>17. CASE ConnEnds
  BY <1>17 DEF ConnEnds
<1>18. CASE W1Loop
  BY <1>18 DEF W1Loop
<1>19. CASE W1Iterate
  BY <1>19 DEF W1Iterate
<1>20. CASE MqttReceives
  BY <1>20 DEF MqttReceives
<1>21. ASSUME NEW ok \in BOOLEAN, ConnConnect(ok)
       PROVE  AppTypeOK'
  BY <1>21 DEF ConnConnect
<1>22. ASSUME NEW t \in Publishers, PublishStep(t) /\ UNCHANGED lifeVars
       PROVE  AppTypeOK'
  BY <1>22
<1>23. ASSUME NEW t \in Publishers, Publishing(t)
       PROVE  AppTypeOK'
  BY <1>23 DEF Publishing
<1>24. CASE Stop /\ UNCHANGED lifeVars
  BY <1>24
<1>25. CASE Connecting /\ UNCHANGED lifeVars
  BY <1>25
<1>26. CASE Send /\ UNCHANGED lifeVars
  BY <1>26
<1>27. CASE Notice /\ UNCHANGED lifeVars
  BY <1>27
<1>28. CASE BrokerReturns /\ UNCHANGED lifeVars
  BY <1>28
<1>29. CASE Tick /\ UNCHANGED lifeVars
  BY <1>29
<1>30. ASSUME NEW up \in BOOLEAN, Outage(up) /\ UNCHANGED lifeVars
       PROVE  AppTypeOK'
  BY <1>30
<1>31. ASSUME NEW t \in {W1, Conn, Mqtt}, HandleSignal(t)
       PROVE  AppTypeOK'
  BY <1>31 DEF HandleSignal
<1>32. CASE UNCHANGED vars
  BY <1>32 DEF vars
<1> QED BY <1>1, <1>2, <1>3, <1>4, <1>5, <1>6, <1>7, <1>8, <1>9,
           <1>10, <1>11, <1>12, <1>13, <1>14, <1>15, <1>16, <1>17, <1>18,
           <1>19, <1>20, <1>21, <1>22, <1>23, <1>24, <1>25, <1>26, <1>27,
           <1>28, <1>29, <1>30, <1>31, <1>32, LifecycleAssumption
        DEF Next, MainStep, ConnStep, W1Step, MqttStep, Environment
\* The connection's thread and the client.
LEMMA ConnStepKeeps ==
  ASSUME MqttTypeOK, MainInv, ConnInv, [Next]_vars
  PROVE  ConnInv'
<1> USE DEF ConnInv, Freeing, vars, lifeVars, appVars, signals, Goto, Tell, Untouched, Fault, UseChannels, mqttVars, client, thread, pubs
<1>1. CASE Start
  BY <1>1 DEF Start, MainInv
<1>2. CASE FailToStart
  BY <1>2 DEF FailToStart
<1>3. CASE Signal
  BY <1>3 DEF Signal
<1>4. CASE LeaveLoop
  BY <1>4 DEF LeaveLoop
<1>5. CASE JoinConn
  BY <1>5 DEF JoinConn
<1>6. CASE DeleteChannels
  BY <1>6 DEF DeleteChannels
<1>7. CASE FreeMqtt
  BY <1>7 DEF FreeMqtt
<1>8. CASE StopW1
  BY <1>8 DEF StopW1
<1>9. CASE JoinW1
  BY <1>9 DEF JoinW1
<1>10. CASE FreeLoop
  BY <1>10 DEF FreeLoop
<1>11. CASE ConnDone
  BY <1>11 DEF ConnDone
<1>12. CASE ConnClear
  BY <1>12 DEF ConnClear, BeginFree, MainInv, Down
<1>13. CASE ConnFreed
  BY <1>13 DEF ConnFreed
<1>14. CASE ConnFrees
  BY <1>14 DEF ConnFrees, OwnerStep, Disconnect, Terminate, Join, CloseFreed, Delete, Forget
<1>15. CASE ConnRegistered
  BY <1>15 DEF ConnRegistered, InitClient, MainInv, Down
<1>16. CASE ConnVersionError
  BY <1>16 DEF ConnVersionError
<1>17. CASE ConnEnds
  BY <1>17 DEF ConnEnds
<1>18. CASE W1Loop
  BY <1>18 DEF W1Loop
<1>19. CASE W1Iterate
  BY <1>19 DEF W1Iterate
<1>20. CASE MqttReceives
  BY <1>20 DEF MqttReceives, Receive
<1>21. ASSUME NEW ok \in BOOLEAN, ConnConnect(ok)
       PROVE  ConnInv'
  BY <1>21 DEF ConnConnect
<1>22. ASSUME NEW t \in Publishers, PublishStep(t) /\ UNCHANGED lifeVars
       PROVE  ConnInv'
  BY <1>22 DEF PublishStep, LoadClient, Publish, PublishFreed
<1>23. ASSUME NEW t \in Publishers, Publishing(t)
       PROVE  ConnInv'
  BY <1>23 DEF Publishing, BeginPublish
<1>24. CASE Stop /\ UNCHANGED lifeVars
  BY <1>24 DEF Stop
<1>25. CASE Connecting /\ UNCHANGED lifeVars
  BY <1>25 DEF Connecting, BeginSync, Reconnect, Connect, ConnectFails, Subscribe, CloseSocket
<1>26. CASE Send /\ UNCHANGED lifeVars
  BY <1>26 DEF Send
<1>27. CASE Notice /\ UNCHANGED lifeVars
  BY <1>27 DEF Notice
<1>28. CASE BrokerReturns /\ UNCHANGED lifeVars
  BY <1>28 DEF BrokerReturns
<1>29. CASE Tick /\ UNCHANGED lifeVars
  BY <1>29 DEF Tick
<1>30. ASSUME NEW up \in BOOLEAN, Outage(up) /\ UNCHANGED lifeVars
       PROVE  ConnInv'
  BY <1>30 DEF Outage
<1>31. ASSUME NEW t \in {W1, Conn, Mqtt}, HandleSignal(t)
       PROVE  ConnInv'
  BY <1>31 DEF HandleSignal
<1>32. CASE UNCHANGED vars
  BY <1>32 DEF vars
<1> QED BY <1>1, <1>2, <1>3, <1>4, <1>5, <1>6, <1>7, <1>8, <1>9,
           <1>10, <1>11, <1>12, <1>13, <1>14, <1>15, <1>16, <1>17, <1>18,
           <1>19, <1>20, <1>21, <1>22, <1>23, <1>24, <1>25, <1>26, <1>27,
           <1>28, <1>29, <1>30, <1>31, <1>32, LifecycleAssumption
        DEF Next, MainStep, ConnStep, W1Step, MqttStep, Environment
\* The main thread.
LEMMA MainStepKeeps ==
  ASSUME MainInv, AppTypeOK, [Next]_vars
  PROVE  MainInv'
<1> USE DEF MainInv, Down, vars, lifeVars, appVars, signals, Goto, Tell, Untouched
<1>1. CASE Start
  BY <1>1 DEF Start
<1>2. CASE FailToStart
  BY <1>2 DEF FailToStart
<1>3. CASE Signal
  BY <1>3 DEF Signal
<1>4. CASE LeaveLoop
  BY <1>4 DEF LeaveLoop, AppTypeOK
<1>5. CASE JoinConn
  BY <1>5 DEF JoinConn
<1>6. CASE DeleteChannels
  BY <1>6 DEF DeleteChannels
<1>7. CASE FreeMqtt
  BY <1>7 DEF FreeMqtt
<1>8. CASE StopW1
  BY <1>8 DEF StopW1, AppTypeOK
<1>9. CASE JoinW1
  BY <1>9 DEF JoinW1
<1>10. CASE FreeLoop
  BY <1>10 DEF FreeLoop
<1>11. CASE ConnDone
  BY <1>11 DEF ConnDone, Told
<1>12. CASE ConnClear
  BY <1>12 DEF ConnClear
<1>13. CASE ConnFreed
  BY <1>13 DEF ConnFreed
<1>14. CASE ConnFrees
  BY <1>14 DEF ConnFrees
<1>15. CASE ConnRegistered
  BY <1>15 DEF ConnRegistered
<1>16. CASE ConnVersionError
  BY <1>16 DEF ConnVersionError
<1>17. CASE ConnEnds
  BY <1>17 DEF ConnEnds
<1>18. CASE W1Loop
  BY <1>18 DEF W1Loop
<1>19. CASE W1Iterate
  BY <1>19 DEF W1Iterate
<1>20. CASE MqttReceives
  BY <1>20 DEF MqttReceives
<1>21. ASSUME NEW ok \in BOOLEAN, ConnConnect(ok)
       PROVE  MainInv'
  BY <1>21 DEF ConnConnect
<1>22. ASSUME NEW t \in Publishers, PublishStep(t) /\ UNCHANGED lifeVars
       PROVE  MainInv'
  BY <1>22
<1>23. ASSUME NEW t \in Publishers, Publishing(t)
       PROVE  MainInv'
  BY <1>23 DEF Publishing
<1>24. CASE Stop /\ UNCHANGED lifeVars
  BY <1>24
<1>25. CASE Connecting /\ UNCHANGED lifeVars
  BY <1>25
<1>26. CASE Send /\ UNCHANGED lifeVars
  BY <1>26
<1>27. CASE Notice /\ UNCHANGED lifeVars
  BY <1>27
<1>28. CASE BrokerReturns /\ UNCHANGED lifeVars
  BY <1>28
<1>29. CASE Tick /\ UNCHANGED lifeVars
  BY <1>29
<1>30. ASSUME NEW up \in BOOLEAN, Outage(up) /\ UNCHANGED lifeVars
       PROVE  MainInv'
  BY <1>30
<1>31. ASSUME NEW t \in {W1, Conn, Mqtt}, HandleSignal(t)
       PROVE  MainInv'
  BY <1>31 DEF HandleSignal
<1>32. CASE UNCHANGED vars
  BY <1>32 DEF vars
<1> QED BY <1>1, <1>2, <1>3, <1>4, <1>5, <1>6, <1>7, <1>8, <1>9,
           <1>10, <1>11, <1>12, <1>13, <1>14, <1>15, <1>16, <1>17, <1>18,
           <1>19, <1>20, <1>21, <1>22, <1>23, <1>24, <1>25, <1>26, <1>27,
           <1>28, <1>29, <1>30, <1>31, <1>32, LifecycleAssumption
        DEF Next, MainStep, ConnStep, W1Step, MqttStep, Environment
\* Nobody else stumbles.
LEMMA FaultStep ==
  ASSUME MqttInv, AppTypeOK, ConnInv, MainInv, FaultInv, [Next]_vars
  PROVE  FaultInv'
<1> USE DEF FaultInv, Down, Running, vars, lifeVars, appVars, signals, Goto, Tell, Untouched, Fault, UseChannels, mqttVars, client, thread, pubs
<1>1. CASE Start
  BY <1>1 DEF Start
<1>2. CASE FailToStart
  BY <1>2 DEF FailToStart
<1>3. CASE Signal
  BY <1>3 DEF Signal
<1>4. CASE LeaveLoop
  BY <1>4 DEF LeaveLoop
<1>5. CASE JoinConn
  BY <1>5 DEF JoinConn
<1>6. CASE DeleteChannels
  BY <1>6 DEF DeleteChannels
<1>7. CASE FreeMqtt
  BY <1>7 DEF FreeMqtt
<1>8. CASE StopW1
  BY <1>8 DEF StopW1
<1>9. CASE JoinW1
  BY <1>9 DEF JoinW1
<1>10. CASE FreeLoop
  BY <1>10 DEF FreeLoop
<1>11. CASE ConnDone
  BY <1>11 DEF ConnDone
<1>12. CASE ConnClear
  BY <1>12 DEF ConnClear, BeginFree, MainInv
<1>13. CASE ConnFreed
  BY <1>13 DEF ConnFreed
<1>14. CASE ConnFrees
  BY <1>14 DEF ConnFrees, OwnerStep, Disconnect, Terminate, Join, CloseFreed, CloseSocket, Delete, Forget
<1>15. CASE ConnRegistered
  BY <1>15 DEF ConnRegistered, InitClient, MainInv
<1>16. CASE ConnVersionError
  BY <1>16 DEF ConnVersionError
<1>17. CASE ConnEnds
  BY <1>17 DEF ConnEnds
<1>18. CASE W1Loop
  BY <1>18 DEF W1Loop
<1>19. CASE W1Iterate
  BY <1>19 DEF W1Iterate, MainInv
<1>20. CASE MqttReceives
  <2>1. CASE channels
    BY <1>20, <2>1 DEF MqttReceives, Receive
  <2>2. CASE ~channels
    <3>1. life = "offline"
      BY <2>2 DEF MainInv, ConnInv
    <3>2. sync = "none"
      BY <3>1 DEF MqttInv, FlowInv
    <3> QED BY <1>20, <3>2 DEF MqttReceives
  <2> QED BY <2>1, <2>2
<1>21. ASSUME NEW ok \in BOOLEAN, ConnConnect(ok)
       PROVE  FaultInv'
  BY <1>21 DEF ConnConnect
<1>22. ASSUME NEW t \in Publishers, PublishStep(t) /\ UNCHANGED lifeVars
       PROVE  FaultInv'
  BY <1>22 DEF PublishStep, LoadClient, Publish, PublishFreed
<1>23. ASSUME NEW t \in Publishers, Publishing(t)
       PROVE  FaultInv'
  BY <1>23 DEF Publishing, BeginPublish
<1>24. CASE Stop /\ UNCHANGED lifeVars
  BY <1>24 DEF Stop
<1>25. CASE Connecting /\ UNCHANGED lifeVars
  BY <1>25 DEF Connecting, BeginSync, Reconnect, Connect, ConnectFails, Subscribe, CloseSocket
<1>26. CASE Send /\ UNCHANGED lifeVars
  BY <1>26 DEF Send
<1>27. CASE Notice /\ UNCHANGED lifeVars
  BY <1>27 DEF Notice
<1>28. CASE BrokerReturns /\ UNCHANGED lifeVars
  BY <1>28 DEF BrokerReturns
<1>29. CASE Tick /\ UNCHANGED lifeVars
  BY <1>29 DEF Tick
<1>30. ASSUME NEW up \in BOOLEAN, Outage(up) /\ UNCHANGED lifeVars
       PROVE  FaultInv'
  BY <1>30 DEF Outage
<1>31. ASSUME NEW t \in {W1, Conn, Mqtt}, HandleSignal(t)
       PROVE  FaultInv'
  <2>1. CASE ~Living(t) \/ st_eh # "freed"
    BY <1>31, <2>1 DEF HandleSignal
  <2>2. CASE st_eh = "freed"
    <3>1. conn \in {"none", "done"} /\ w1 = "done" /\ life = "offline"
      BY <2>2 DEF MainInv, ConnInv
    <3>2. sync = "none"
      BY <3>1 DEF MqttInv, FlowInv
    <3>3. ~Living(t)
      BY <1>31, <3>1, <3>2, LifecycleAssumption, MqttClientAssumption DEF Living
    <3> QED BY <1>31, <3>3 DEF HandleSignal
  <2> QED BY <2>1, <2>2
<1>32. CASE UNCHANGED vars
  BY <1>32 DEF vars
<1> QED BY <1>1, <1>2, <1>3, <1>4, <1>5, <1>6, <1>7, <1>8, <1>9,
           <1>10, <1>11, <1>12, <1>13, <1>14, <1>15, <1>16, <1>17, <1>18,
           <1>19, <1>20, <1>21, <1>22, <1>23, <1>24, <1>25, <1>26, <1>27,
           <1>28, <1>29, <1>30, <1>31, <1>32, LifecycleAssumption
        DEF Next, MainStep, ConnStep, W1Step, MqttStep, Environment
LEMMA StepKeeps == IInv /\ [Next]_vars => IInv'
<1> SUFFICES ASSUME IInv, [Next]_vars PROVE IInv'
  OBVIOUS
<1>1. MqttInv'
  BY MqttPart, MqttStepKeeps DEF IInv
<1>2. AppTypeOK' /\ MainInv'
  BY AppTypeStep, MainStepKeeps DEF IInv
<1>3. ConnInv' /\ FaultInv'
  BY ConnStepKeeps, FaultStep DEF IInv, MqttInv
<1> QED BY <1>1, <1>2, <1>3 DEF IInv
-----------------------------------------------------------------------------
\* The inductive invariant.
THEOREM Invariance == Spec => []IInv
<1> QED BY Initial, StepKeeps, PTL DEF Spec

\* The types hold in every reachable state.
THEOREM TypeCorrect == Spec => []TypeOK
<1>1. IInv => TypeOK
  BY DEF IInv, MqttInv, TypeOK
<1> QED BY <1>1, Invariance, PTL

\* In every session the broker hears CONNECT before anything else, whatever the
\* publishers queue meanwhile: of the client alone, and in the whole program.
THEOREM ConnectComesFirst ==
  (MqttSpec => []ConnectFirst) /\ (Spec => []ConnectFirst)
<1>1. (MqttInv => ConnectFirst) /\ (IInv => MqttInv)
  BY DEF IInv, MqttInv, SessionInv
<1> QED BY <1>1, MqttInvariance, Invariance, PTL

\* Every socket is closed once, and none is left open when the client is gone.
THEOREM SocketsAreKept ==
  (MqttSpec => []SocketsKept) /\ (Spec => []SocketsKept)
<1>1. (MqttInv => SocketsKept) /\ (IInv => MqttInv)
  BY DEF IInv, MqttInv, SocketInv
<1> QED BY <1>1, MqttInvariance, Invariance, PTL

\* A publisher stumbles only on a client that was freed during its call.
THEOREM StumblesOnlyWhenFreed ==
  (MqttSpec => []FaultOnlyWhenFreed) /\ (Spec => []FaultOnlyWhenFreed)
<1>1. (MqttInv => FaultOnlyWhenFreed) /\ (IInv => MqttInv)
  BY DEF IInv, MqttInv, PublishInv
<1> QED BY <1>1, MqttInvariance, Invariance, PTL

\* The client's thread waits for itself only after an attempt to connect failed.
THEOREM RefusedBeforeStuck ==
  (MqttSpec => []StuckOnlyWhenRefused) /\ (Spec => []StuckOnlyWhenRefused)
<1>1. (MqttInv => StuckOnlyWhenRefused) /\ (IInv => MqttInv)
  BY DEF IInv, MqttInv, RetryInv
<1> QED BY <1>1, MqttInvariance, Invariance, PTL

\* Freed objects are used in the windows that are named: every user of the channels
\* but w1 is gone when they are deleted, and no signal meets the freed event handler.
THEOREM StumblesAreKnown == Spec => []FaultsAreKnown
<1>1. IInv => OnlyW1OutlivesChannels
  <2> SUFFICES ASSUME IInv PROVE OnlyW1OutlivesChannels
    OBVIOUS
  <2>1. ~channels => conn \in {"none", "done"}
    BY DEF IInv, MainInv, Down
  <2>2. conn \in {"none", "done"} => life = "offline"
    BY DEF IInv, ConnInv
  <2>3. life = "offline" => sync = "none" /\ mq_client = 0
    BY DEF IInv, MqttInv, FlowInv
  <2> QED BY <2>1, <2>2, <2>3 DEF IInv, FaultInv, OnlyW1OutlivesChannels
<1>2. IInv => FaultOnlyWhenFreed
  BY DEF IInv, MqttInv, PublishInv
<1>3. IInv => FaultsAreKnown
  BY <1>1, <1>2 DEF IInv, FaultInv, FaultsAreKnown
<1> QED BY <1>3, Invariance, PTL

\* Only a version error ends the connection's thread of a program that runs.
THEOREM StaysOnline == Spec => []OnlineUnlessRefused
<1>1. IInv => OnlineUnlessRefused
  BY DEF IInv, MainInv, OnlineUnlessRefused
<1> QED BY <1>1, Invariance, PTL

\* The end leaves nothing behind.
THEOREM ExitsClean == Spec => []CleanExit
<1>1. IInv => CleanExit
  <2> SUFFICES ASSUME IInv, main = "exited" PROVE CleanExit
    BY DEF CleanExit
  <2>1. conn \in {"none", "done"} /\ w1 = "done"
    BY DEF IInv, MainInv, Down
  <2>2. life = "offline"
    BY <2>1 DEF IInv, ConnInv
  <2>3. sync = "none" /\ ~alive /\ sockets = 0
    BY <2>2 DEF IInv, MqttInv, FlowInv, SocketInv, SocketsKept
  <2> QED BY <2>1, <2>3 DEF CleanExit
<1> QED BY <1>1, Invariance, PTL

\* The safety behind ExitCompletes: a thread that is waited for exists and has been
\* told to end, the MQTT thread by the owner of its client, the others by main; and
\* main, which frees the client once more in channelio_free, finds none that it
\* would have to wait for (supla-dev.cpp:114-119, mqtt_client.cpp:240-247).
WaitsAreMet ==
  /\ main = "join_conn" => conn # "none" /\ Conn \in told
  /\ main = "free_mqtt" => life = "offline" /\ mq_client = 0
  /\ main = "join_w1" => w1 # "none" /\ W1 \in told
  /\ life = "join" => sync # "none" /\ terminated
THEOREM JoinedAreTold == Spec => []WaitsAreMet
<1>1. IInv => WaitsAreMet
  <2> SUFFICES ASSUME IInv PROVE WaitsAreMet
    OBVIOUS
  <2>1. main = "free_mqtt" => life = "offline" /\ mq_client = 0
    BY DEF IInv, MqttInv, FlowInv, ConnInv, MainInv, Down
  <2>2. life = "join" => sync # "none" /\ terminated
    BY DEF IInv, MqttInv, FlowInv
  <2> QED BY <2>1, <2>2 DEF IInv, MainInv, WaitsAreMet
<1> QED BY <1>1, Invariance, PTL
==============================================================================
