--------------------------- MODULE Session_proofs ---------------------------
(***************************************************************************)
(* Proofs about Session, for every set of channels, queue size, timeout,   *)
(* margin, slack and latency that SessionAssumption allows.                *)
(***************************************************************************)
EXTENDS Session, SequenceTheorems, TLAPS

Call == {"register", "call"}

\* What was offered, and nothing else, is marked as sent; what the server has set is
\* marked as received where the mark is looked at, and nothing else is.
MarkInv ==
  \A i \in Item :
    /\ config_sent[i] <=> offered[i] > 0
    /\ config_received[i] => i \in taken
    /\ i \in taken /\ HasConfig(i) => config_received[i]

\* Which states of the connection go together: calls other than the
\* registration are made on a registered connection only.
FlowInv ==
  /\ pc = "down" => registered = 0
  /\ pc \in {"default", "weekly", "device", "ping", "reply"} => registered = 1
  /\ pc \in {"iterate", "send", "wait"} => registered # 0
  /\ registered = 0 => out_queue = <<>> /\ answer = "none"
  /\ registered = -1 => Len(out_queue) <= 1
  /\ registered = -1 /\ out_queue # <<>> => answer = "none"
  /\ registered = 1 => \A k \in 1 .. Len(out_queue) : out_queue[k] # "register"
  /\ answer \in {"due", "sent"} => registered = -1

\* The server has heard the device within the time that the ping or the answer to
\* the registration allows at the end of an iteration, and t seconds.
Within(t) ==
  \/ silence < ActivityTimeout - PingMargin + t
  \/ silence <= Latency + Slack + t

\* What holds as long as no call was lost and no iteration took too long.  With an
\* empty queue the server has heard all that was called.  An iteration that ends
\* with an empty queue has either found that no ping is due or just been told of
\* the registration; what is then left to the timeout outlasts its wait and the
\* next iteration, which ends with a call.
SilenceInv ==
  /\ answer = "due" => silence <= Latency
  /\ ~excused =>
       /\ registered # 0 /\ out_queue = <<>> => silence <= since_call
       /\ late <= Slack \/ silence = 0
       /\ answer = "sent" =>
            silence <= Latency + late + (IF pc \in {"top", "iterate"} THEN Slack ELSE 0)
       /\ registered = 1 => Within(Slack + late)
       /\ /\ registered = 1
          /\ \/ pc = "wait"
             \/ pc \in {"iterate", "reply", "send"} /\ out_queue = <<>>
          => Within(late)

\* What channelio_send_initial_configs_if_needed has passed by in this iteration.
Passed(i) ==
  \/ pc = "default" /\ i.type # "device" /\ i.channel < cursor
  \/ /\ pc = "weekly" /\ i.type # "device"
     /\ \/ i.channel < cursor
        \/ i.channel = cursor /\ i.type = "default"
  \/ pc = "device" /\ i.type # "device"

\* It was offered, now or before, or set by the server, unless the queue is full.
Settled(i) == offered[i] > 0 \/ i \in taken
PassInv == \A i \in Item : HasConfig(i) /\ Passed(i) => Full \/ Settled(i)

IInv == TypeOK /\ MarkInv /\ PassInv /\ FlowInv /\ SilenceInv
-----------------------------------------------------------------------------
\* A call leaves the queue longer, or as it was if it was full.
LEMMA QueueGrows ==
  ASSUME TypeOK, NEW call \in Call, Queue(call)
  PROVE  /\ out_queue' \in Seq(Call) /\ Len(out_queue') <= QueueSize
         /\ out_queue' # <<>> /\ since_call' = 0
         /\ \/ out_queue' = out_queue
            \/ ~Full /\ out_queue' = Append(out_queue, call)
<1>1. out_queue \in Seq(Call) /\ Len(out_queue) \in Nat /\ Len(out_queue) <= QueueSize
  BY LenProperties DEF TypeOK, Call
<1>2. CASE Full
  <2>1. out_queue' = out_queue /\ Len(out_queue) > 0
    BY <1>1, <1>2, SessionAssumption DEF Queue, Full
  <2> QED BY <1>1, <2>1 DEF Queue
<1>3. CASE ~Full
  <2>1. out_queue' = Append(out_queue, call)
    BY <1>3 DEF Queue
  <2>2. /\ out_queue' \in Seq(Call) /\ Len(out_queue') = Len(out_queue) + 1
    BY <1>1, <2>1, AppendProperties
  <2>3. Len(out_queue') <= QueueSize /\ out_queue' # <<>>
    BY <1>1, <1>3, <2>2, SessionAssumption DEF Full
  <2> QED BY <1>3, <2>1, <2>2, <2>3 DEF Queue
<1> QED BY <1>2, <1>3

\* Times stay in their range.
LEMMA LaterType ==
  ASSUME NEW limit \in Nat, NEW t \in 0 .. limit
  PROVE  Later(t, limit) \in 0 .. limit /\ Later(t, limit) <= t + 1
BY DEF Later

LEMMA ItemsOf ==
  /\ \A c \in Channel : [channel |-> c, type |-> "default"] \in Item
  /\ \A c \in Channel : [channel |-> c, type |-> "weekly"] \in Item
  /\ DeviceItem \in Item
BY DEF Item, DeviceItem, Channel

LEMMA TypeInit == Init => TypeOK
<1>1. 0 \in Channel /\ <<>> \in Seq(Call) /\ Len(<<>>) = 0
  BY SessionAssumption, EmptySeq DEF Channel
<1>2. /\ 0 \in 0 .. Never /\ Never \in 0 .. Never /\ ConfigDelay \in 0 .. ConfigDelay
      /\ 0 \in 0 .. Slack + 1 /\ 0 <= QueueSize
  BY SessionAssumption DEF Never
<1> SUFFICES ASSUME Init PROVE TypeOK
  OBVIOUS
<1>3. /\ since_call \in 0 .. Never /\ silence \in 0 .. Never
      /\ since_registered \in 0 .. ConfigDelay /\ late \in 0 .. Slack + 1
  BY <1>2 DEF Init
<1>4. /\ config_received \in [Item -> BOOLEAN] /\ config_sent \in [Item -> BOOLEAN]
      /\ offered \in [Item -> 0 .. 2] /\ taken \subseteq Item
  BY DEF Init, None
<1>5. /\ cursor \in Channel /\ out_queue \in Seq({"register", "call"})
      /\ Len(out_queue) <= QueueSize
  BY <1>1, <1>2 DEF Init, Call
<1> QED BY <1>3, <1>4, <1>5 DEF Init, TypeOK

\* What an offer does to the queue and to the marks.
LEMMA OfferType ==
  ASSUME TypeOK, NEW i \in Item, Offer(i)
  PROVE  /\ out_queue' \in Seq(Call) /\ Len(out_queue') <= QueueSize
         /\ since_call' \in 0 .. Never
         /\ config_received' = config_received /\ taken' = taken
         /\ config_sent' \in [Item -> BOOLEAN] /\ offered' \in [Item -> 0 .. 2]
<1>1. CASE Needed(i)
  <2>1. Queue("call") /\ UNCHANGED <<config_received, taken>>
    BY <1>1 DEF Offer
  <2>2. /\ out_queue' \in Seq(Call) /\ Len(out_queue') <= QueueSize
        /\ since_call' = 0
    BY <2>1, QueueGrows DEF Call
  <2>3. config_sent' \in [Item -> BOOLEAN] /\ offered' \in [Item -> 0 .. 2]
    <3>1. CASE Full
      BY <1>1, <3>1 DEF Offer, TypeOK
    <3>2. CASE ~Full
      <4>1. offered[i] \in 0 .. 2
        BY DEF TypeOK
      <4>2. (IF offered[i] = 2 THEN 2 ELSE offered[i] + 1) \in 0 .. 2
        BY <4>1
      <4> QED BY <1>1, <3>2, <4>2 DEF Offer, TypeOK
    <3> QED BY <3>1, <3>2
  <2> QED BY <2>1, <2>2, <2>3, SessionAssumption DEF Never
<1>2. CASE ~Needed(i)
  BY <1>2 DEF Offer, NoCall, markVars, TypeOK, Call
<1> QED BY <1>1, <1>2

LEMMA TypeStep == TypeOK /\ [Next]_vars => TypeOK'
<1> SUFFICES ASSUME TypeOK, [Next]_vars PROVE TypeOK'
  OBVIOUS
<1>q. \A call \in Call : Queue(call) =>
        /\ out_queue' \in Seq(Call) /\ Len(out_queue') <= QueueSize
        /\ since_call' \in 0 .. Never
  BY QueueGrows, SessionAssumption DEF Never
<1>n. 0 \in 0 .. Never /\ 0 \in 0 .. Slack + 1 /\ 0 \in 0 .. ConfigDelay /\ 0 \in Channel /\ None \in [Item -> BOOLEAN]
  BY SessionAssumption DEF Never, None, Channel
<1> USE DEF TypeOK, Call, NoCall, timeVars, markVars
<1>1. CASE Connect
  BY <1>1, <1>n DEF Connect
<1>2. CASE Disconnect
  BY <1>2, EmptySeq, SessionAssumption DEF Disconnect
<1>3. CASE Register
  BY <1>3, <1>q DEF Register
<1>4. CASE AwaitAnswer
  BY <1>4 DEF AwaitAnswer
<1>5. CASE BeginConfigs
  BY <1>5, <1>n DEF BeginConfigs
<1>6. CASE OfferDefault
  <2>1. [channel |-> cursor, type |-> "default"] \in Item
    BY ItemsOf
  <2> QED BY <1>6, <2>1, OfferType DEF OfferDefault
<1>7. CASE OfferWeekly
  <2>1. [channel |-> cursor, type |-> "weekly"] \in Item
    BY ItemsOf
  <2>2. cursor' \in Channel
    BY SMTT(30), <1>7, SessionAssumption DEF OfferWeekly, Channel
  <2> QED BY <1>7, <2>1, <2>2, OfferType DEF OfferWeekly
<1>8. CASE OfferDevice
  BY <1>8, ItemsOf, OfferType DEF OfferDevice
<1>9. CASE Ping
  BY <1>9, <1>q DEF Ping
<1>10. CASE NoMessage
  BY <1>10 DEF NoMessage
<1>11. CASE OnRegistered
  BY <1>11, <1>n DEF OnRegistered
<1>12. CASE OnRefused
  BY <1>12 DEF OnRefused
<1>13. ASSUME NEW i \in Item, NEW valid \in BOOLEAN, OnConfig(i, valid)
       PROVE  TypeOK'
  <2>1. config_received' \in [Item -> BOOLEAN] /\ taken' \subseteq Item
    BY <1>13 DEF OnConfig, Mark
  <2>2. /\ out_queue' \in Seq(Call) /\ Len(out_queue') <= QueueSize
        /\ since_call' \in 0 .. Never
    BY <1>13, <1>q DEF OnConfig
  <2> QED BY <1>13, <2>1, <2>2 DEF OnConfig
<1>14. CASE Reply
  BY <1>14, <1>q DEF Reply
<1>15. CASE Send
  <2>1. CASE out_queue = <<>>
    BY <1>15, <2>1 DEF Send
  <2>2. CASE out_queue # <<>>
    <3>1. Tail(out_queue) \in Seq(Call) /\ Len(Tail(out_queue)) = Len(out_queue) - 1
      BY <2>2, HeadTailProperties
    <3>2. Len(out_queue) \in Nat
      BY LenProperties
    <3>q. out_queue' = Tail(out_queue)
      BY <1>15, <2>2 DEF Send
    <3>l. QueueSize \in Nat /\ Len(out_queue) <= QueueSize
      BY SessionAssumption
    <3>3. out_queue' \in Seq(Call) /\ Len(out_queue') <= QueueSize
      BY <3>1, <3>2, <3>q, <3>l
    <3> QED BY <1>15, <2>2, <3>3, <1>n DEF Send
  <2> QED BY <2>1, <2>2
<1>16. CASE Wake
  BY <1>16, <1>n DEF Wake
<1>17. CASE Tick
  <2>0. Never \in Nat /\ ConfigDelay \in Nat /\ Slack + 1 \in Nat
    BY SessionAssumption DEF Never
  <2>1. late' \in 0 .. Slack + 1 /\ since_registered' \in 0 .. ConfigDelay
    BY <1>17, <2>0, LaterType DEF Tick
  <2>2. since_call' \in 0 .. Never /\ silence' \in 0 .. Never
    BY <1>17, <2>0, LaterType DEF Tick
  <2>3. excused' \in BOOLEAN
    BY <1>17 DEF Tick
  <2> QED BY <1>17, <2>1, <2>2, <2>3 DEF Tick
<1>18. CASE Report
  BY <1>18, <1>q DEF Report
<1>19. CASE UNCHANGED vars
  BY <1>19 DEF vars
<1>20. CASE ServerAnswers
  BY <1>20 DEF ServerAnswers
<1> QED BY <1>1, <1>2, <1>3, <1>4, <1>5, <1>6, <1>7, <1>8, <1>9, <1>10, <1>11,
           <1>12, <1>13, <1>14, <1>15, <1>16, <1>17, <1>18, <1>19, <1>20
        DEF Next, ConnStep, OnMessage

\* The types and the bound of the queue hold in every reachable state.
THEOREM TypeCorrect == Spec => []TypeOK
<1> QED BY TypeInit, TypeStep, PTL DEF Spec
-----------------------------------------------------------------------------
\* Steps that leave the marks alone.
LEMMA SameMarks == MarkInv /\ UNCHANGED markVars => MarkInv'
BY DEF MarkInv, markVars, HasConfig, Tracked

\* An offer counts once, is marked, and is never made of what the server has set.
LEMMA OfferMark ==
  ASSUME TypeOK, MarkInv, NEW i \in Item, Offer(i)
  PROVE  /\ MarkInv'
         /\ \A j \in Item : offered'[j] > offered[j] => offered[j] = 0 /\ j \notin taken
<1>t. /\ offered \in [Item -> 0 .. 2] /\ config_sent \in [Item -> BOOLEAN]
      /\ \A j \in Item : offered[j] \in 0 .. 2
  BY DEF TypeOK
<1>1. CASE Needed(i) /\ ~Full
  <2>1. /\ config_sent' = [config_sent EXCEPT ![i] = TRUE]
        /\ offered' = [offered EXCEPT ![i] = IF @ = 2 THEN 2 ELSE @ + 1]
        /\ UNCHANGED <<config_received, taken>>
    BY <1>1 DEF Offer
  <2>2. offered[i] = 0 /\ i \notin taken
    BY <1>1, <1>t DEF Needed, MarkInv
  <2>3. \A j \in Item : j # i => offered'[j] = offered[j] /\ config_sent'[j] = config_sent[j]
    BY <1>t, <2>1
  <2>4. config_sent'[i] /\ offered'[i] > 0
    <3>1. offered'[i] = 1
      BY <1>t, <2>1, <2>2
    <3> QED BY <1>t, <2>1, <3>1
  <2>5. HasConfig(i)' = HasConfig(i) /\ \A j \in Item : HasConfig(j)' = HasConfig(j)
    BY DEF HasConfig, Tracked
  <2>6. MarkInv'
    BY <2>1, <2>3, <2>4, <2>5 DEF MarkInv
  <2>7. \A j \in Item : offered'[j] > offered[j] => offered[j] = 0 /\ j \notin taken
    BY <1>t, <2>2, <2>3
  <2> QED BY <2>6, <2>7
<1>2. CASE ~(Needed(i) /\ ~Full)
  <2>1. UNCHANGED markVars
    BY <1>2 DEF Offer, markVars
  <2>2. \A j \in Item : ~(offered'[j] > offered[j])
    BY <1>t, <2>1 DEF markVars
  <2> QED BY <2>1, <2>2, SameMarks
<1> QED BY <1>1, <1>2

\* The marks are right after every step, and a step offers only what was neither
\* offered before nor set by the server.
LEMMA MarkStep ==
  ASSUME TypeOK, MarkInv, [Next]_vars
  PROVE  /\ MarkInv'
         /\ \A j \in Item : offered'[j] > offered[j] => offered[j] = 0 /\ j \notin taken
<1>t. \A j \in Item : offered[j] \in 0 .. 2
  BY DEF TypeOK
<1>1. CASE UNCHANGED markVars
  <2>1. \A j \in Item : ~(offered'[j] > offered[j])
    BY <1>1, <1>t DEF markVars
  <2> QED BY <1>1, <2>1, SameMarks
<1>2. ASSUME NEW i \in Item, Offer(i)
      PROVE  /\ MarkInv'
             /\ \A j \in Item : offered'[j] > offered[j] => offered[j] = 0 /\ j \notin taken
  BY <1>2, OfferMark
<1>3. CASE OfferDefault
  BY <1>2, <1>3, ItemsOf DEF OfferDefault, TypeOK
<1>4. CASE OfferWeekly
  BY <1>2, <1>4, ItemsOf DEF OfferWeekly, TypeOK
<1>5. CASE OfferDevice
  BY <1>2, <1>5, ItemsOf DEF OfferDevice
<1>6. CASE OnRegistered
  <2>1. /\ taken' = {} /\ \A j \in Item : offered'[j] = 0
        /\ \A j \in Item : ~config_sent'[j] /\ ~config_received'[j]
    BY <1>6 DEF OnRegistered, None
  <2> QED BY <1>t, <2>1 DEF MarkInv
<1>7. ASSUME NEW i \in Item, NEW valid \in BOOLEAN, OnConfig(i, valid)
      PROVE  /\ MarkInv'
             /\ \A j \in Item : offered'[j] > offered[j] => offered[j] = 0 /\ j \notin taken
  <2>0. UNCHANGED <<config_sent, offered>>
    BY <1>7 DEF OnConfig
  <2>1. CASE UNCHANGED <<config_received, taken>>
    BY <1>1, <2>0, <2>1 DEF markVars
  <2>2. CASE Mark(i) /\ taken' = taken \cup {i}
    <3>1. HasConfig(i) => i.type = "device" \/ Tracked(i.channel)
      <4>1. i.type \in {"default", "weekly", "device"}
        BY DEF Item
      <4> QED BY <4>1 DEF HasConfig
    <3>2. \A j \in Item : config_received[j] => config_received'[j]
      BY <2>2 DEF Mark, TypeOK
    <3>3. HasConfig(i) => config_received'[i]
      BY <2>2, <3>1 DEF Mark, TypeOK
    <3>4. \A j \in Item : HasConfig(j)' = HasConfig(j)
      BY DEF HasConfig, Tracked
    <3>5. \A j \in Item : config_received'[j] => config_received[j] \/ j = i
      BY <2>2 DEF Mark, TypeOK
    <3>6. MarkInv'
      BY <2>0, <2>2, <3>2, <3>3, <3>4, <3>5 DEF MarkInv
    <3> QED BY <1>t, <2>0, <3>6
  <2> QED BY <1>7, <2>1, <2>2 DEF OnConfig
<1>8. Next => \/ UNCHANGED markVars
              \/ OfferDefault \/ OfferWeekly \/ OfferDevice \/ OnRegistered
              \/ \E i \in Item, valid \in BOOLEAN : OnConfig(i, valid)
  BY DEF Next, ConnStep, OnMessage, Connect, Disconnect, Register, AwaitAnswer,
         BeginConfigs, Ping, NoMessage, OnRefused, Reply, Send, Wake, ServerAnswers,
         Tick, Report
<1>9. CASE UNCHANGED vars
  BY <1>1, <1>9 DEF vars
<1> QED BY <1>1, <1>3, <1>4, <1>5, <1>6, <1>7, <1>8, <1>9
-----------------------------------------------------------------------------
\* After an offer the configuration is settled or the queue is full, and what was
\* settled before still is.
LEMMA OfferSettles ==
  ASSUME TypeOK, MarkInv, NEW i \in Item, Offer(i)
  PROVE  /\ Full => Full'
         /\ \A j \in Item : Settled(j) => Settled(j)'
         /\ HasConfig(i) => Full' \/ Settled(i)'
<1>t. offered \in [Item -> 0 .. 2] /\ \A j \in Item : offered[j] \in 0 .. 2
  BY DEF TypeOK
<1>1. Full => Full'
  <2>1. Queue("call") \/ NoCall
    BY DEF Offer
  <2> QED BY <2>1, QueueGrows DEF NoCall, Full, Call
<1>2. CASE Needed(i) /\ ~Full
  <2>1. offered' = [offered EXCEPT ![i] = IF @ = 2 THEN 2 ELSE @ + 1] /\ taken' = taken
    BY <1>2 DEF Offer
  <2>2. \A j \in Item : offered'[j] >= offered[j]
    BY <1>t, <2>1
  <2>3. offered'[i] > 0
    BY <1>t, <2>1
  <2>4. \A j \in Item : offered'[j] \in 0 .. 2
    BY <1>t, <2>1
  <2>5. \A j \in Item : Settled(j) => Settled(j)'
    BY <1>t, <2>1, <2>2, <2>4 DEF Settled
  <2> QED BY <1>2, <2>3, <2>5 DEF Settled
<1>3. CASE ~(Needed(i) /\ ~Full)
  <2>1. UNCHANGED markVars
    BY <1>3 DEF Offer, markVars
  <2>2. \A j \in Item : Settled(j)' <=> Settled(j)
    BY <2>1 DEF Settled, markVars
  <2>3. HasConfig(i) => Full \/ Settled(i)
    BY <1>3 DEF Needed, MarkInv, Settled
  <2> QED BY <1>1, <2>2, <2>3
<1> QED BY <1>1, <1>2, <1>3

LEMMA PassStep ==
  ASSUME TypeOK, MarkInv, PassInv, [Next]_vars
  PROVE  PassInv'
<1>h. \A i \in Item : HasConfig(i)' = HasConfig(i)
  BY DEF HasConfig, Tracked
<1>c. /\ cursor \in Channel /\ Channel \subseteq Nat /\ LastChannel \in Nat
  BY SessionAssumption DEF TypeOK, Channel
<1>i. \A i \in Item :
        /\ i.channel \in Channel /\ i.type \in {"default", "weekly", "device"}
        /\ i.type = "device" => i = DeviceItem
        /\ i.type # "device" => i = [channel |-> i.channel, type |-> i.type]
  <2>1. 0 \in Channel
    BY SessionAssumption DEF Channel
  <2> QED BY <2>1 DEF Item, DeviceItem
<1>1. CASE pc' \notin {"default", "weekly", "device"}
  BY <1>1 DEF PassInv, Passed
<1>2. CASE BeginConfigs
  <2>1. cursor' = 0 /\ pc' \in {"ping", "default"}
    BY <1>2 DEF BeginConfigs
  <2>2. \A i \in Item : ~(i.channel < 0)
    BY <1>c, <1>i
  <2>3. \A i \in Item : ~Passed(i)'
    BY <1>c, <2>1, <2>2 DEF Passed
  <2> QED BY <2>3 DEF PassInv
<1>3. ASSUME NEW d \in Item, Offer(d), \A i \in Item : Passed(i)' => Passed(i) \/ i = d
      PROVE  PassInv'
  <2> SUFFICES ASSUME NEW i \in Item, HasConfig(i), Passed(i)'
               PROVE  Full' \/ Settled(i)'
    BY <1>h DEF PassInv
  <2>1. CASE i = d
    BY <1>3, <2>1, OfferSettles
  <2>2. CASE Passed(i)
    <3>1. Full \/ Settled(i)
      BY <2>2 DEF PassInv
    <3> QED BY <1>3, <3>1, OfferSettles
  <2> QED BY <1>3, <2>1, <2>2
<1>4. CASE OfferDefault
  <2> DEFINE d == [channel |-> cursor, type |-> "default"]
  <2>1. pc = "default" /\ pc' = "weekly" /\ cursor' = cursor /\ Offer(d)
    BY <1>4 DEF OfferDefault
  <2>2. d \in Item
    BY <1>c, ItemsOf
  <2>3. \A i \in Item : Passed(i)' => Passed(i) \/ i = d
    BY <1>i, <2>1 DEF Passed
  <2> QED BY <1>3, <2>1, <2>2, <2>3
<1>5. CASE OfferWeekly
  <2> DEFINE d == [channel |-> cursor, type |-> "weekly"]
  <2>1. pc = "weekly" /\ Offer(d)
        /\ IF cursor < LastChannel THEN cursor' = cursor + 1 /\ pc' = "default"
           ELSE pc' = "device"
    BY <1>5 DEF OfferWeekly
  <2>2. d \in Item
    BY <1>c, ItemsOf
  <2>3. ASSUME NEW i \in Item, Passed(i)' PROVE Passed(i) \/ i = d
    <3>1. i.type # "device" /\ i.channel <= cursor
      <4>1. CASE cursor < LastChannel
        BY <1>c, <1>i, <2>1, <2>3, <4>1 DEF Passed
      <4>2. CASE ~(cursor < LastChannel)
        <5>1. i.type # "device"
          BY <2>1, <2>3, <4>2 DEF Passed
        <5>2. i.channel <= LastChannel
          BY <1>i DEF Channel
        <5> QED BY <1>c, <1>i, <4>2, <5>1, <5>2
      <4> QED BY <4>1, <4>2
    <3>2. i.channel < cursor \/ i.channel = cursor
      BY <1>c, <1>i, <3>1
    <3>3. i.type = "default" \/ i.type = "weekly"
      BY <1>i, <3>1
    <3>4. i.channel = cursor /\ i.type = "weekly" => i = d
      BY <1>i, <3>1
    <3> QED BY <2>1, <3>1, <3>2, <3>3, <3>4 DEF Passed
  <2> QED BY <1>3, <2>1, <2>2, <2>3
<1>7. CASE Report
  <2>1. Queue("call") /\ UNCHANGED <<pc, cursor, offered, taken>>
    BY <1>7 DEF Report, markVars
  <2>2. Full => Full'
    BY <2>1, QueueGrows DEF Full, Call
  <2>3. \A i \in Item : (Passed(i)' <=> Passed(i)) /\ (Settled(i)' <=> Settled(i))
    BY <2>1 DEF Passed, Settled
  <2> QED BY <1>h, <2>2, <2>3 DEF PassInv
<1>8. CASE UNCHANGED vars
  BY <1>8 DEF vars, markVars, timeVars, PassInv, Passed, Settled, HasConfig, Tracked, Full
<1>9. CASE Tick \/ ServerAnswers
  <2>1. UNCHANGED <<pc, cursor, offered, taken, out_queue>>
    BY <1>9 DEF Tick, ServerAnswers, NoCall, markVars
  <2> QED BY <1>h, <2>1 DEF PassInv, Passed, Settled, Full
<1>10. Next => \/ pc' \notin {"default", "weekly", "device"}
               \/ BeginConfigs \/ OfferDefault \/ OfferWeekly
               \/ Tick \/ ServerAnswers \/ Report
  BY DEF Next, ConnStep, OnMessage, Connect, Disconnect, Register, AwaitAnswer,
         OfferDevice, Ping, NoMessage, OnRegistered, OnRefused, OnConfig, Reply,
         Send, Wake
<1> QED BY <1>1, <1>2, <1>4, <1>5, <1>7, <1>8, <1>9, <1>10
-----------------------------------------------------------------------------
\* No call but the registration's puts a registration into the queue.
LEMMA QueueClean ==
  ASSUME TypeOK, NEW call \in Call \ {"register"}, Queue(call),
         \A k \in 1 .. Len(out_queue) : out_queue[k] # "register"
  PROVE  \A k \in 1 .. Len(out_queue') : out_queue'[k] # "register"
<1>1. CASE out_queue' = out_queue
  BY <1>1
<1>2. CASE out_queue' = Append(out_queue, call)
  <2>1. out_queue \in Seq(Call)
    BY DEF TypeOK, Call
  <2>2. /\ Len(out_queue') = Len(out_queue) + 1
        /\ \A k \in 1 .. Len(out_queue) : out_queue'[k] = out_queue[k]
        /\ out_queue'[Len(out_queue) + 1] = call
    BY <1>2, <2>1, AppendProperties
  <2>3. Len(out_queue) \in Nat
    BY <2>1, LenProperties
  <2> QED BY <2>2, <2>3
<1> QED BY <1>1, <1>2, QueueGrows

\* What every call on a registered connection leaves of FlowInv.
LEMMA CallFlow ==
  ASSUME TypeOK, FlowInv, registered = 1,
         \/ NoCall
         \/ \E call \in Call \ {"register"} : Queue(call)
  PROVE  \A k \in 1 .. Len(out_queue') : out_queue'[k] # "register"
<1>1. CASE NoCall
  BY <1>1 DEF NoCall, FlowInv
<1>2. ASSUME NEW call \in Call \ {"register"}, Queue(call)
      PROVE  \A k \in 1 .. Len(out_queue') : out_queue'[k] # "register"
  BY <1>2, QueueClean DEF FlowInv
<1> QED BY <1>1, <1>2

LEMMA FlowStep ==
  ASSUME TypeOK, FlowInv, [Next]_vars
  PROVE  FlowInv'
<1>t. /\ out_queue \in Seq(Call) /\ registered \in {-1, 0, 1}
      /\ Len(out_queue) \in Nat
  BY LenProperties DEF TypeOK, Call
<1>o. ASSUME NEW i \in Item, Offer(i)
      PROVE  NoCall \/ \E call \in Call \ {"register"} : Queue(call)
  BY <1>o DEF Offer, Call
\* A step of a registered connection that stays registered.
<1>r. ASSUME registered = 1, UNCHANGED <<registered, answer>>, pc' # "down",
             NoCall \/ \E call \in Call \ {"register"} : Queue(call)
      PROVE  FlowInv'
  <2>1. \A k \in 1 .. Len(out_queue') : out_queue'[k] # "register"
    BY <1>r, CallFlow
  <2> QED BY <1>r, <2>1 DEF FlowInv
<1>1. CASE Connect
  BY <1>1 DEF Connect, FlowInv, NoCall
<1>2. CASE Disconnect
  BY <1>2 DEF Disconnect, FlowInv, timeVars
<1>3. CASE Register
  <2>1. out_queue = <<>> /\ answer = "none" /\ Queue("register")
    BY <1>3 DEF Register, FlowInv
  <2>2. out_queue' = <<"register">> \/ out_queue' = <<>>
    BY <2>1 DEF Queue
  <2>3. Len(out_queue') <= 1
    <3>1. CASE out_queue' = <<"register">>
      <4>1. Len(<<"register">>) = 1
        OBVIOUS
      <4> QED BY <3>1, <4>1
    <3>2. CASE out_queue' = <<>>
      BY <3>2, EmptySeq
    <3> QED BY <2>2, <3>1, <3>2
  <2> QED BY <1>3, <2>1, <2>3 DEF Register, FlowInv, timeVars
<1>4. CASE AwaitAnswer
  BY <1>4 DEF AwaitAnswer, FlowInv, timeVars, NoCall
<1>5. CASE BeginConfigs
  BY <1>5, <1>r DEF BeginConfigs, FlowInv, timeVars
<1>6. CASE OfferDefault
  <2>1. [channel |-> cursor, type |-> "default"] \in Item
    BY ItemsOf DEF TypeOK
  <2> QED BY <1>6, <1>o, <1>r, <2>1 DEF OfferDefault, FlowInv, timeVars
<1>7. CASE OfferWeekly
  <2>1. [channel |-> cursor, type |-> "weekly"] \in Item
    BY ItemsOf DEF TypeOK
  <2>2. pc' # "down"
    BY <1>7 DEF OfferWeekly
  <2> QED BY <1>7, <1>o, <1>r, <2>1, <2>2 DEF OfferWeekly, FlowInv
<1>8. CASE OfferDevice
  BY <1>8, <1>o, <1>r, ItemsOf DEF OfferDevice, FlowInv, timeVars
<1>9. CASE Ping
  BY <1>9, <1>r DEF Ping, FlowInv, timeVars, Call
<1>10. CASE NoMessage
  BY <1>10 DEF NoMessage, FlowInv, timeVars, NoCall
<1>11. CASE OnRegistered
  <2>1. out_queue = <<>> /\ out_queue' = <<>>
    BY <1>11 DEF OnRegistered, FlowInv, NoCall
  <2>2. \A k \in 1 .. Len(out_queue') : out_queue'[k] # "register"
    BY <2>1
  <2> QED BY <1>11, <2>2 DEF OnRegistered, FlowInv
<1>12. CASE OnRefused
  <2>1. registered = -1 /\ out_queue = <<>> /\ out_queue' = <<>> /\ Len(out_queue') <= 1
    BY <1>12 DEF OnRefused, FlowInv, NoCall
  <2> QED BY <1>12, <2>1 DEF OnRefused, FlowInv, timeVars
<1>13. ASSUME NEW i \in Item, NEW valid \in BOOLEAN, OnConfig(i, valid)
       PROVE  FlowInv'
  <2>1. NoCall \/ \E call \in Call \ {"register"} : Queue(call)
    BY <1>13 DEF OnConfig, Call
  <2> QED BY <1>13, <1>r, <2>1 DEF OnConfig, FlowInv, timeVars
<1>14. CASE Reply
  BY <1>14, <1>r DEF Reply, FlowInv, timeVars, Call
<1>15. CASE Send
  <2>0. registered # 0 /\ registered' = registered /\ pc' = "wait"
    BY <1>15 DEF Send, FlowInv
  <2>1. CASE out_queue = <<>>
    BY <1>15, <2>0, <2>1 DEF Send, FlowInv
  <2>2. CASE out_queue # <<>>
    <3>1. /\ out_queue' = Tail(out_queue)
          /\ answer' = answer \/ (answer' = "due" /\ Head(out_queue) = "register")
      BY <1>15, <2>2 DEF Send
    <3>2. /\ Len(out_queue') = Len(out_queue) - 1 /\ Len(out_queue) >= 1
          /\ Head(out_queue) = out_queue[1]
          /\ out_queue' \in Seq(Call)
      BY <1>t, <2>2, <3>1, HeadTailProperties, EmptySeq
    <3>3. \A k \in 1 .. Len(out_queue') : out_queue'[k] = out_queue[k + 1]
      BY <1>t, <2>2, <3>1, HeadTailProperties
    <3>4. CASE registered = -1
      <4>1. Len(out_queue') = 0
        BY <1>t, <3>2, <3>4 DEF FlowInv
      <4>2. out_queue' = <<>>
        BY <3>2, <4>1, EmptySeq
      <4> QED BY <2>0, <3>4, <4>1, <4>2 DEF FlowInv
    <3>5. CASE registered = 1
      <4>1. \A k \in 1 .. Len(out_queue) : out_queue[k] # "register"
        BY <3>5 DEF FlowInv
      <4>2. answer' = answer
        BY <1>t, <3>1, <3>2, <4>1
      <4>3. \A k \in 1 .. Len(out_queue') : out_queue'[k] # "register"
        BY <1>t, <3>2, <3>3, <4>1
      <4> QED BY <2>0, <3>5, <4>2, <4>3 DEF FlowInv
    <3> QED BY <1>t, <2>0, <3>4, <3>5
  <2> QED BY <2>1, <2>2
<1>16. CASE Wake
  BY <1>16 DEF Wake, FlowInv, NoCall
<1>17. CASE Tick
  BY <1>17 DEF Tick, FlowInv, markVars
<1>18. CASE Report
  BY <1>18, <1>r DEF Report, FlowInv, Call
<1>19. CASE UNCHANGED vars
  BY <1>19 DEF vars, markVars, FlowInv
<1>20. CASE ServerAnswers
  BY <1>20 DEF ServerAnswers, FlowInv, NoCall
<1> QED BY <1>1, <1>2, <1>3, <1>4, <1>5, <1>6, <1>7, <1>8, <1>9, <1>10, <1>11,
           <1>12, <1>13, <1>14, <1>15, <1>16, <1>17, <1>18, <1>19, <1>20
        DEF Next, ConnStep, OnMessage
-----------------------------------------------------------------------------
LEMMA SilenceStep ==
  ASSUME TypeOK, FlowInv, SilenceInv, [Next]_vars
  PROVE  SilenceInv'
<1>t. /\ silence \in 0 .. Never /\ since_call \in 0 .. Never /\ late \in 0 .. Slack + 1
      /\ silence \in Int /\ since_call \in Int /\ late \in Int /\ Never \in Nat
      /\ 0 <= silence /\ 0 <= late
      /\ registered \in {-1, 0, 1} /\ excused \in BOOLEAN
  BY SessionAssumption DEF TypeOK, Never
<1>c. /\ ActivityTimeout \in Int /\ PingMargin \in Int /\ Slack \in Int /\ Latency \in Int
      /\ 0 <= Latency /\ 0 <= Slack /\ PingMargin < ActivityTimeout
  BY SessionAssumption
<1>q. ASSUME NEW call \in Call, Queue(call)
      PROVE  out_queue' # <<>>
  BY <1>q, QueueGrows
<1>o. ASSUME NEW i \in Item, Offer(i)
      PROVE  NoCall \/ out_queue' # <<>>
  BY <1>o, <1>q DEF Offer, Call
\* A step that the server does not notice and that ends no iteration.
<1>r. ASSUME UNCHANGED <<silence, late, excused, registered, answer>>,
             NoCall \/ out_queue' # <<>>,
             pc' \in {"top", "iterate"} \/ pc \notin {"top", "iterate"} \/ answer # "sent",
             \/ pc' \notin {"iterate", "reply", "send", "wait"}
             \/ out_queue' # <<>> /\ pc' # "wait"
             \/ pc \in {"iterate", "reply", "send"} /\ (pc' # "wait" \/ out_queue = <<>>)
             \/ pc' = pc
             \/ registered # 1
      PROVE  SilenceInv'
  <2>1. out_queue' = <<>> => out_queue = <<>> /\ since_call' = since_call
    BY <1>r DEF NoCall
  <2>2. \A n \in Int : Within(n)' <=> Within(n)
    BY <1>r DEF Within
  <2>3. late' = late /\ late \in Int /\ Slack + late \in Int
    BY <1>t, <1>c, <1>r
  <2>4. ~excused' /\ answer' = "sent" =>
          silence' <= Latency + late' + (IF pc' \in {"top", "iterate"} THEN Slack ELSE 0)
    BY <1>t, <1>c, <1>r DEF SilenceInv
  <2>5. ~excused' /\ registered' # 0 /\ out_queue' = <<>> => silence' <= since_call'
    BY <1>r, <2>1 DEF SilenceInv
  <2>6. ~excused' /\ registered' = 1 => Within(Slack + late)'
    BY <1>r, <2>2, <2>3 DEF SilenceInv
  <2>7. ASSUME ~excused', registered' = 1,
               \/ pc' = "wait"
               \/ pc' \in {"iterate", "reply", "send"} /\ out_queue' = <<>>
        PROVE  Within(late)'
    BY <1>r, <2>1, <2>2, <2>3, <2>7 DEF SilenceInv
  <2> QED BY <1>r, <2>4, <2>5, <2>6, <2>7 DEF SilenceInv
<1>1. CASE Connect
  BY <1>1, <1>t, <1>c DEF Connect, SilenceInv
<1>2. CASE Disconnect
  BY <1>2 DEF Disconnect, SilenceInv, timeVars
<1>3. CASE Register
  <2>1. out_queue' # <<>> /\ answer = "none"
    BY <1>3, <1>q DEF Register, Call, FlowInv
  <2> QED BY <1>3, <2>1 DEF Register, SilenceInv, timeVars
<1>4. CASE AwaitAnswer
  BY <1>4, <1>r DEF AwaitAnswer, timeVars
<1>5. CASE BeginConfigs
  BY <1>5, <1>r DEF BeginConfigs, timeVars, FlowInv
<1>6. CASE OfferDefault
  <2>1. [channel |-> cursor, type |-> "default"] \in Item
    BY ItemsOf DEF TypeOK
  <2> QED BY <1>6, <1>o, <1>r, <2>1 DEF OfferDefault, timeVars
<1>7. CASE OfferWeekly
  <2>1. [channel |-> cursor, type |-> "weekly"] \in Item
    BY ItemsOf DEF TypeOK
  <2>2. pc = "weekly" /\ pc' \in {"default", "device"}
        /\ UNCHANGED <<silence, late, excused, registered, answer>>
    BY <1>7 DEF OfferWeekly, timeVars
  <2>3. NoCall \/ out_queue' # <<>>
    BY <1>7, <1>o, <2>1 DEF OfferWeekly
  <2> QED BY <1>r, <2>2, <2>3
<1>8. CASE OfferDevice
  BY <1>8, <1>o, <1>r, ItemsOf DEF OfferDevice, timeVars
<1>9. CASE Ping
  <2>1. CASE PingDue
    BY <1>9, <1>q, <1>r, <2>1 DEF Ping, timeVars, Call
  \* The last call is recent, so an empty queue has been heard recently.
  <2>2. CASE ~PingDue
    <3>1. since_call < ActivityTimeout - PingMargin
      BY <1>t, <1>c, <2>2 DEF PingDue
    <3>2. registered = 1 /\ answer # "sent"
      BY <1>9 DEF FlowInv, Ping
    <3>3. ~excused /\ out_queue = <<>> => Within(late)
      BY <1>t, <1>c, <3>1, <3>2 DEF SilenceInv, Within
    <3>4. UNCHANGED <<silence, late, excused, registered, answer, since_call, out_queue>>
          /\ pc' = "iterate"
      BY <1>9, <2>2 DEF Ping, NoCall, timeVars
    <3>5. (Within(late)' <=> Within(late)) /\ (Within(Slack + late)' <=> Within(Slack + late))
      BY <3>4 DEF Within
    <3> QED BY <3>2, <3>3, <3>4, <3>5 DEF SilenceInv
  <2> QED BY <2>1, <2>2
<1>10. CASE NoMessage
  BY <1>10, <1>r DEF NoMessage, timeVars
<1>11. CASE OnRegistered
  <2>1. registered = -1 /\ out_queue = <<>> /\ pc = "iterate" /\ answer = "sent"
    BY <1>11 DEF OnRegistered, FlowInv
  <2>2. ~excused => silence <= Latency + late + Slack
    BY <2>1 DEF SilenceInv
  <2>3. UNCHANGED <<silence, late, excused, since_call, out_queue>> /\ answer' = "given"
        /\ registered' = 1
    BY <1>11 DEF OnRegistered, NoCall
  <2>4. ~excused => Within(late)' /\ Within(Slack + late)'
    BY <1>t, <1>c, <2>2, <2>3 DEF Within
  <2> QED BY <2>1, <2>3, <2>4 DEF SilenceInv
<1>12. CASE OnRefused
  <2>1. registered = -1
    BY <1>12 DEF OnRefused, FlowInv
  <2> QED BY <1>12, <2>1 DEF OnRefused, NoCall, timeVars, SilenceInv
<1>13. ASSUME NEW i \in Item, NEW valid \in BOOLEAN, OnConfig(i, valid)
       PROVE  SilenceInv'
  <2>1. NoCall \/ out_queue' # <<>>
    BY <1>13, <1>q DEF OnConfig, Call
  <2>2. answer # "sent"
    BY <1>13 DEF OnConfig, FlowInv
  <2> QED BY <1>13, <1>r, <2>1, <2>2 DEF OnConfig, timeVars
<1>14. CASE Reply
  BY <1>14, <1>q, <1>r DEF Reply, timeVars, Call
<1>15. CASE Send
  <2>1. CASE out_queue = <<>>
    <3>1. UNCHANGED <<silence, late, excused, registered, answer, since_call, out_queue>>
          /\ pc = "send" /\ pc' = "wait"
      BY <1>15, <2>1 DEF Send
    <3> QED BY <1>r, <2>1, <3>1 DEF NoCall
  <2>2. CASE out_queue # <<>>
    <3>0. registered' = registered /\ since_call' = since_call /\ late' = late
      BY <1>15 DEF Send
    <3>1. CASE silence' = 0
      <4>1. Within(late)' /\ Within(Slack + late)'
        BY <1>t, <1>c, <3>0, <3>1 DEF Within
      <4> QED BY <1>t, <1>c, <3>0, <3>1, <4>1 DEF SilenceInv
    <3>2. CASE excused' /\ UNCHANGED <<silence, answer>>
      BY <3>2 DEF SilenceInv
    <3> QED BY <1>15, <2>2, <3>1, <3>2 DEF Send
  <2> QED BY <2>1, <2>2
<1>16. CASE Wake
  <2>1. /\ UNCHANGED <<silence, excused, registered, answer, since_call, out_queue>>
        /\ pc = "wait" /\ pc' = "top" /\ late' = 0
    BY <1>16 DEF Wake, NoCall
  <2>2. ~excused /\ registered = 1 => Within(Slack + late)'
    BY <1>t, <1>c, <2>1 DEF SilenceInv, Within
  <2>3. ~excused /\ answer = "sent" => silence <= Latency + 0 + Slack
    BY <1>t, <1>c, <2>1 DEF SilenceInv
  <2> QED BY <1>c, <2>1, <2>2, <2>3 DEF SilenceInv
<1>17. CASE Tick
  <2>1. silence' = Later(silence, Never) /\ since_call' = Later(since_call, Never)
        /\ late' = Later(late, Slack + 1) /\ excused' = (excused \/ late' > Slack)
        /\ UNCHANGED <<pc, registered, answer, out_queue>>
        /\ (answer = "due" => silence < Latency)
    BY <1>17 DEF Tick
  <2>2. silence <= since_call => silence' <= since_call'
    BY <1>t, <1>c, <2>1 DEF Later
  <2>3. silence' \in Int /\ silence' <= silence + 1
    BY <1>t, <2>1 DEF Later
  <2>4. answer' = "due" => silence' <= Latency
    BY <1>t, <1>c, <2>1, <2>3
  <2>5. CASE excused'
    BY <2>4, <2>5 DEF SilenceInv
  <2>6. CASE ~excused'
    <3>0. ~excused /\ ~(late' > Slack)
      BY ONLY <2>1, <2>6, Zenon
    <3>1. late' <= Slack /\ late' = late + 1
      BY <1>t, <1>c, <2>1, <3>0 DEF Later
    <3>2. Within(late) => Within(late)'
      BY <1>t, <1>c, <2>3, <3>1 DEF Within
    <3>3. Within(Slack + late) => Within(Slack + late)'
      BY <1>t, <1>c, <2>3, <3>1 DEF Within
    <3>4. \A n \in Int : silence <= Latency + late + n => silence' <= Latency + late' + n
      BY <1>t, <1>c, <2>3, <3>1
    <3> QED BY <1>c, <2>1, <2>2, <2>4, <3>0, <3>1, <3>2, <3>3, <3>4 DEF SilenceInv
  <2> QED BY <2>5, <2>6
<1>18. CASE Report
  BY <1>18, <1>q, <1>r DEF Report, timeVars, Call
<1>19. CASE UNCHANGED vars
  BY <1>19 DEF vars, markVars, timeVars, SilenceInv, Within
<1>20. CASE ServerAnswers
  <2>1. UNCHANGED <<pc, silence, late, excused, registered, since_call, out_queue>>
        /\ answer = "due" /\ answer' = "sent"
    BY <1>20 DEF ServerAnswers, NoCall, timeVars
  <2>2. silence <= Latency /\ registered = -1
    BY <2>1 DEF SilenceInv, FlowInv
  <2> QED BY <1>t, <1>c, <2>1, <2>2 DEF SilenceInv
<1> QED BY <1>1, <1>2, <1>3, <1>4, <1>5, <1>6, <1>7, <1>8, <1>9, <1>10, <1>11,
           <1>12, <1>13, <1>14, <1>15, <1>16, <1>17, <1>18, <1>19, <1>20
        DEF Next, ConnStep, OnMessage
-----------------------------------------------------------------------------
LEMMA InitInv == Init => IInv
<1> SUFFICES ASSUME Init PROVE IInv
  OBVIOUS
<1>1. TypeOK
  BY TypeInit
<1>2. MarkInv
  BY DEF Init, MarkInv, None
<1>3. FlowInv
  BY DEF Init, FlowInv
<1>4. SilenceInv
  BY SessionAssumption DEF Init, SilenceInv, Within
<1>5. PassInv
  BY DEF Init, PassInv, Passed
<1> QED BY <1>1, <1>2, <1>3, <1>4, <1>5 DEF IInv

LEMMA StepInv == IInv /\ [Next]_vars => IInv'
BY TypeStep, MarkStep, PassStep, FlowStep, SilenceStep DEF IInv

LEMMA Invariance == Spec => []IInv
<1> QED BY InitInv, StepInv, PTL DEF Spec

\* The server of a registered device hears it within its timeout, unless since it
\* last did a call was lost or an iteration took more than Slack seconds: a ping
\* falls due while there is time left for a wait and the iteration after it
\* (devconnection_ping, devconnection_before_async_call).  Slack is half of the
\* margin at most, which bounds no delay, but says which ones are excused.
THEOREM HeardInTime == Spec => []KeepAlive
<1>1. ASSUME IInv PROVE KeepAlive
  <2> SUFFICES ASSUME registered = 1, ~excused PROVE silence < ActivityTimeout
    BY DEF KeepAlive
  <2>1. Within(Slack + late) /\ (late <= Slack \/ silence = 0)
    BY <1>1 DEF IInv, SilenceInv
  <2>2. silence \in Int /\ late \in Int
    BY <1>1, SessionAssumption DEF IInv, TypeOK, Never
  <2> QED BY <2>1, <2>2, SessionAssumption DEF Within
<1> QED BY <1>1, Invariance, PTL

\* A configuration is offered at most once in a registration, and never after
\* the server has set its own (channelio_send_initial_configs_if_needed).
THEOREM OfferedAtMostOnce == Spec => OfferedOnce
<1>1. IInv /\ [Next]_vars =>
        [\A i \in Item : offered'[i] > offered[i] => offered[i] = 0 /\ i \notin taken]_vars
  BY MarkStep DEF IInv
<1> QED BY <1>1, Invariance, PTL DEF Spec, OfferedOnce

\* The safety behind ConfigsSettle: an iteration that has gone through the
\* configurations leaves every one offered or set by the server, or the queue full;
\* a refusal is not taken for an offer (channelio_send_initial_configs_if_needed).
PassSettles ==
  [][pc = "device" /\ pc' = "ping" =>
       Full' \/ \A i \in Item : HasConfig(i) => Settled(i)']_vars
THEOREM IterationSettles == Spec => PassSettles
<1>1. ASSUME IInv, [Next]_vars, pc = "device", pc' = "ping"
      PROVE  Full' \/ \A i \in Item : HasConfig(i) => Settled(i)'
  <2>1. OfferDevice
    BY <1>1 DEF vars, Next, ConnStep, OnMessage, Connect, Disconnect, Register,
         AwaitAnswer, BeginConfigs, OfferDefault, OfferWeekly, Ping, NoMessage,
         OnRegistered, OnRefused, OnConfig, Reply, Send, Wake, ServerAnswers, Tick, Report
  <2>2. Offer(DeviceItem) /\ DeviceItem \in Item
    BY <2>1, ItemsOf DEF OfferDevice
  <2> SUFFICES ASSUME NEW i \in Item, HasConfig(i) PROVE Full' \/ Settled(i)'
    OBVIOUS
  <2>3. CASE i = DeviceItem
    BY <1>1, <2>2, <2>3, OfferSettles DEF IInv
  <2>4. CASE i # DeviceItem
    <3>1. i.type # "device"
      BY <2>4 DEF Item, DeviceItem
    <3>2. Full \/ Settled(i)
      BY <1>1, <3>1 DEF IInv, PassInv, Passed
    <3> QED BY <1>1, <2>2, <3>2, OfferSettles DEF IInv
  <2> QED BY <2>3, <2>4
<1>2. IInv /\ [Next]_vars =>
        [pc = "device" /\ pc' = "ping" =>
           Full' \/ \A i \in Item : HasConfig(i) => Settled(i)']_vars
  BY <1>1
<1> QED BY <1>2, Invariance, PTL DEF Spec, PassSettles
==============================================================================
