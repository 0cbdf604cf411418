------------------------------- MODULE Session -------------------------------
(***************************************************************************)
(* What the connection's thread does by itself on a registered connection  *)
(* (supla-dev/devconnection.cpp): the initial configurations of the        *)
(* channels, which it offers to the server one second after the            *)
(* registration unless the server has set its own in the meantime          *)
(* (channel-io.cpp), and the ping that keeps the server from closing an    *)
(* idle connection.  All of it goes through the bounded out queue of srpc, *)
(* which other threads fill with values, so that every call may fail.      *)
(*                                                                         *)
(* A call that leaves the queue may be lost, for the result of data_write  *)
(* is ignored: offered is what was queued, not what the server got.        *)
(*                                                                         *)
(* Times are the seconds since an event, as the differences of tv_sec that *)
(* the code takes.  Time passes anywhere, also inside a handler, which may *)
(* run a command or wait for another thread; Slack bounds nothing, but     *)
(* says from when on an iteration counts as one that took too long.        *)
(*                                                                         *)
(* The server of a device that offers configurations (protocol 21) is not  *)
(* among the sources; it sets them once it has answered the registration.  *)
(***************************************************************************)
EXTENDS Integers, Sequences

CONSTANTS LastChannel,     \* channels are numbered from 0
          Gpm, Hvac, Fan,  \* the channels of these functions
          QueueSize,       \* SRPC_QUEUE_SIZE
          ActivityTimeout, \* of the server, 120 seconds
          PingMargin,      \* 5 seconds
          ConfigDelay,     \* INITIAL_CONFIG_DELAY_SEC
          Slack,           \* seconds an iteration and its wait may take, 2
          Latency          \* seconds until the answer to a registration arrives

ASSUME SessionAssumption ==
  /\ LastChannel \in Nat
  /\ {Gpm, Hvac, Fan} \subseteq SUBSET (0 .. LastChannel)
  /\ Gpm \cap Hvac = {} /\ Gpm \cap Fan = {} /\ Hvac \cap Fan = {}
  /\ QueueSize \in Nat \ {0}
  /\ {ActivityTimeout, PingMargin, ConfigDelay, Slack, Latency} \subseteq Nat
  /\ PingMargin < ActivityTimeout
  /\ 2 * Slack <= PingMargin
  /\ Latency + 3 * Slack < ActivityTimeout

Channel == 0 .. LastChannel
Item == [channel : Channel, type : {"default", "weekly"}]
          \cup {[channel |-> 0, type |-> "device"]}
DeviceItem == [channel |-> 0, type |-> "device"]

VARIABLES
  pc,          \* where the thread is in devconnection_execute
  cursor,      \* idx of channelio_send_initial_configs_if_needed
  registered,  \* dcd.registered
  out_queue,   \* of dcd.srpc
  config_received, \* runtime_default_config_received and its like, by item
  config_sent,     \* initial_default_config_sent and its like, by item
  since_registered, since_call,  \* now - registered_at, now - last_call
  answer,      \* the server's answer to the registration
  silence,     \* server: seconds since it heard the device
  late,        \* seconds since the iteration began
  excused,     \* history: a call was lost or an iteration took longer than Slack,
               \* since the server heard the device
  offered,     \* history: items queued in this registration, how often
  taken        \* history: items set by the server in this registration

markVars == <<config_received, config_sent, offered, taken>>
timeVars == <<since_registered, silence, late, excused>>
vars == <<pc, cursor, registered, out_queue, since_call, answer, markVars, timeVars>>

None == [i \in Item |-> FALSE]
Never == ActivityTimeout   \* times saturate here

Init ==
  /\ pc = "down" /\ cursor = 0 /\ registered = 0
  /\ out_queue = <<>>
  /\ config_received = None /\ config_sent = None
  /\ since_registered = ConfigDelay /\ since_call = Never
  /\ answer = "none" /\ silence = 0 /\ late = 0 /\ excused = FALSE
  /\ offered = [i \in Item |-> 0] /\ taken = {}
-----------------------------------------------------------------------------
(* srpc_async__call: before_async_call, and the call if there is room.  A  *)
(* call is the registration or another one, whose kind does not matter.    *)

Full == Len(out_queue) >= QueueSize

Queue(call) ==
  /\ since_call' = 0
  /\ out_queue' = IF Full THEN out_queue ELSE Append(out_queue, call)

NoCall == UNCHANGED <<since_call, out_queue>>
-----------------------------------------------------------------------------
(* The loop of devconnection_execute.                                      *)

Connect ==
  /\ pc = "down"
  /\ registered' = 0 /\ answer' = "none" /\ late' = 0
  /\ pc' = "top"
  /\ NoCall
  /\ UNCHANGED <<cursor, markVars, since_registered, silence, excused>>

\* srpc_iterate fails; srpc_free.
Disconnect ==
  /\ pc \in {"iterate", "reply"}
  /\ pc' = "down"
  /\ out_queue' = <<>>
  /\ registered' = 0 /\ answer' = "none"
  /\ UNCHANGED <<cursor, since_call, markVars, timeVars>>

Register ==
  /\ pc = "top" /\ registered = 0
  /\ registered' = -1
  /\ Queue("register")
  /\ pc' = "iterate"
  /\ UNCHANGED <<cursor, answer, markVars, timeVars>>

AwaitAnswer ==
  /\ pc = "top" /\ registered = -1
  /\ pc' = "iterate"
  /\ NoCall
  /\ UNCHANGED <<cursor, registered, answer, markVars, timeVars>>

\* devconnection_send_initial_configs_if_needed
BeginConfigs ==
  /\ pc = "top" /\ registered = 1
  /\ pc' = IF since_registered < ConfigDelay THEN "ping" ELSE "default"
  /\ cursor' = 0
  /\ NoCall
  /\ UNCHANGED <<registered, answer, markVars, timeVars>>
-----------------------------------------------------------------------------
(* channelio_send_initial_configs_if_needed, one configuration at a time.  *)

\* Channel 0 has no tracking index (channelio_tracking_index).
Tracked(c) == c > 0

HasConfig(i) ==
  CASE i.type = "default" -> Tracked(i.channel) /\ i.channel \in Gpm \cup Hvac \cup Fan
    [] i.type = "weekly"  -> Tracked(i.channel) /\ i.channel \in Hvac
    [] i.type = "device"  -> \E c \in Hvac \cup Fan : Tracked(c)

\* Mutant: what the server has set is offered again.
NeededAlways(i) == HasConfig(i) /\ ~config_sent[i]

Needed(i) == HasConfig(i) /\ ~config_received[i] /\ ~config_sent[i]

\* Mutant: marked although the queue refused it.
OfferUnchecked(i) ==
  IF Needed(i)
  THEN /\ Queue("call")
       /\ config_sent' = [config_sent EXCEPT ![i] = TRUE]
       /\ offered' = IF Full THEN offered ELSE [offered EXCEPT ![i] = 1]
       /\ UNCHANGED <<config_received, taken>>
  ELSE NoCall /\ UNCHANGED markVars

\* A refused configuration is not marked: the next iteration tries again.
Offer(i) ==
  IF Needed(i)
  THEN /\ Queue("call")
       /\ IF Full THEN UNCHANGED <<config_sent, offered>>
          ELSE /\ config_sent' = [config_sent EXCEPT ![i] = TRUE]
               /\ offered' = [offered EXCEPT ![i] = IF @ = 2 THEN 2 ELSE @ + 1]
       /\ UNCHANGED <<config_received, taken>>
  ELSE NoCall /\ UNCHANGED markVars

OfferDefault ==
  /\ pc = "default"
  /\ Offer([channel |-> cursor, type |-> "default"])
  /\ pc' = "weekly"
  /\ UNCHANGED <<cursor, registered, answer, timeVars>>

OfferWeekly ==
  /\ pc = "weekly"
  /\ Offer([channel |-> cursor, type |-> "weekly"])
  /\ IF cursor < LastChannel THEN cursor' = cursor + 1 /\ pc' = "default"
     ELSE pc' = "device" /\ UNCHANGED cursor
  /\ UNCHANGED <<registered, answer, timeVars>>

OfferDevice ==
  /\ pc = "device"
  /\ Offer(DeviceItem)
  /\ pc' = "ping"
  /\ UNCHANGED <<cursor, registered, answer, timeVars>>
-----------------------------------------------------------------------------
\* Mutant: one second too late.
PingDueLate == since_call > ActivityTimeout - PingMargin

PingDue == since_call >= ActivityTimeout - PingMargin

\* devconnection_ping; server_activity_timeout came with the registration.
Ping ==
  /\ pc = "ping"
  /\ IF PingDue THEN Queue("call") ELSE NoCall
  /\ pc' = "iterate"
  /\ UNCHANGED <<cursor, registered, answer, markVars, timeVars>>
-----------------------------------------------------------------------------
(* srpc_iterate: the IN part with at most one message, then the OUT part.  *)

NoMessage ==
  /\ pc = "iterate" /\ answer # "sent"
  /\ pc' = "send"
  /\ NoCall
  /\ UNCHANGED <<cursor, registered, answer, markVars, timeVars>>

\* devconnection_on_register_result, channelio_reset_runtime_config_tracking
OnRegistered ==
  /\ pc = "iterate" /\ answer = "sent"
  /\ registered' = 1 /\ answer' = "given"
  /\ since_registered' = 0
  /\ config_received' = None /\ config_sent' = None
  /\ offered' = [i \in Item |-> 0] /\ taken' = {}
  /\ pc' = "send"
  /\ NoCall
  /\ UNCHANGED <<cursor, silence, late, excused>>

OnRefused ==
  /\ pc = "iterate" /\ answer = "sent"
  /\ answer' = "given"
  /\ pc' = "send"
  /\ NoCall
  /\ UNCHANGED <<cursor, registered, markVars, timeVars>>

\* Which of the server's requests are carried out.
Applies(i) ==
  CASE i.type = "default" -> i.channel \in Gpm \cup Hvac \cup Fan
    [] i.type = "weekly"  -> i.channel \in Hvac
    [] i.type = "device"  -> TRUE

Mark(i) ==
  config_received' =
    [config_received EXCEPT ![i] = @ \/ i.type = "device" \/ Tracked(i.channel)]

\* channelio_handle_runtime_channel_config and its like for the device: a
\* request that is too short or does not fit the channel is only answered; one
\* that is carried out may report the channel's value.
OnConfig(i, valid) ==
  /\ pc = "iterate" /\ registered = 1
  /\ IF valid /\ Applies(i)
     THEN /\ Mark(i)
          /\ taken' = taken \cup {i}
          /\ NoCall \/ (i.type # "device" /\ Queue("call"))
     ELSE NoCall /\ UNCHANGED <<config_received, taken>>
  /\ pc' = "reply"
  /\ UNCHANGED <<cursor, registered, answer, config_sent, offered, timeVars>>

Reply ==
  /\ pc = "reply"
  /\ Queue("call")
  /\ pc' = "send"
  /\ UNCHANGED <<cursor, registered, answer, markVars, timeVars>>

\* A call leaves the queue, and data_write gives it to the server or loses it.
Send ==
  /\ pc = "send"
  /\ IF out_queue = <<>> THEN UNCHANGED <<out_queue, silence, answer, excused>>
     ELSE /\ out_queue' = Tail(out_queue)
          /\ \/ /\ silence' = 0 /\ excused' = FALSE
                /\ answer' = IF Head(out_queue) = "register" THEN "due" ELSE answer
             \/ /\ excused' = TRUE
                /\ UNCHANGED <<silence, answer>>
  /\ pc' = "wait"
  /\ UNCHANGED <<cursor, registered, since_call, markVars, since_registered, late>>
-----------------------------------------------------------------------------
\* eh_wait ends: the event is raised, there is data, or a second is over.
Wake ==
  /\ pc = "wait"
  /\ pc' = "top"
  /\ late' = 0
  /\ UNCHANGED <<cursor, registered, answer, markVars, since_registered, silence, excused>>
  /\ NoCall

\* The answer to the registration arrives.
ServerAnswers ==
  /\ answer = "due"
  /\ answer' = "sent"
  /\ NoCall
  /\ UNCHANGED <<pc, cursor, registered, markVars, timeVars>>

Later(t, limit) == IF t = limit THEN limit ELSE t + 1

\* Nothing bounds the time the device takes.
Tick ==
  /\ answer = "due" => silence < Latency
  /\ since_registered' = Later(since_registered, ConfigDelay)
  /\ since_call' = Later(since_call, Never)
  /\ silence' = Later(silence, Never)
  /\ late' = Later(late, Slack + 1)
  /\ excused' = (excused \/ late' > Slack)
  /\ UNCHANGED <<pc, cursor, registered, out_queue, answer, markVars>>

\* Another thread reports a value through the callback.
Report ==
  /\ registered = 1
  /\ Queue("call")
  /\ UNCHANGED <<pc, cursor, registered, answer, markVars, timeVars>>
-----------------------------------------------------------------------------
OnMessage ==
  \/ OnRegistered \/ OnRefused
  \/ \E i \in Item, valid \in BOOLEAN : OnConfig(i, valid)

ConnStep ==
  \/ Connect \/ Register \/ AwaitAnswer \/ BeginConfigs
  \/ OfferDefault \/ OfferWeekly \/ OfferDevice \/ Ping
  \/ NoMessage \/ OnMessage \/ Reply \/ Send \/ Wake

Next == ConnStep \/ Disconnect \/ ServerAnswers \/ Tick \/ Report

Spec == Init /\ [][Next]_vars

\* The thread runs on, and time passes.
LiveSpec ==
  /\ Spec
  /\ WF_vars(ConnStep)
  /\ WF_vars(Tick)
-----------------------------------------------------------------------------
TypeOK ==
  /\ pc \in {"down", "top", "default", "weekly", "device", "ping", "iterate",
             "reply", "send", "wait"}
  /\ cursor \in Channel /\ registered \in {-1, 0, 1}
  /\ out_queue \in Seq({"register", "call"})
  /\ Len(out_queue) <= QueueSize
  /\ config_received \in [Item -> BOOLEAN] /\ config_sent \in [Item -> BOOLEAN]
  /\ {since_call, silence} \subseteq 0 .. Never
  /\ since_registered \in 0 .. ConfigDelay
  /\ late \in 0 .. Slack + 1 /\ excused \in BOOLEAN
  /\ answer \in {"none", "due", "sent", "given"}
  /\ offered \in [Item -> 0 .. 2] /\ taken \subseteq Item

\* In one registration a configuration is offered at most once, although a full
\* queue makes the thread try again, and never after the server has set its own,
\* which it would overwrite (channelio_send_initial_configs_if_needed).
OfferedOnce ==
  [][\A i \in Item : offered'[i] > offered[i] => offered[i] = 0 /\ i \notin taken]_vars

\* If the other threads and the server fall silent, every configuration of a
\* channel other than 0 is offered, or was set by the server, in a registration
\* that lasts, however often the queue has refused it before.
Disturbance == Report \/ \E i \in Item, valid \in BOOLEAN : OnConfig(i, valid)
ConfigsSettle ==
  <>[][~Disturbance]_vars =>
    \A i \in Item : HasConfig(i) =>
      (registered = 1 ~> (offered[i] > 0 \/ i \in taken \/ registered # 1))

\* The server of a registered device has no reason to close the connection for
\* inactivity: whatever is called or refused, and wherever the time is spent, it
\* hears the device within its timeout (devconnection_ping,
\* devconnection_before_async_call).  Since it last did, a call was lost on the way
\* or an iteration took more than Slack seconds, or else: last_call is set when a
\* call is made, and a margin of two iterations is left for the ping to follow it.
KeepAlive == registered = 1 => silence < ActivityTimeout \/ excused
==============================================================================
