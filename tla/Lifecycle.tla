------------------------------- MODULE Lifecycle -------------------------------
(***************************************************************************)
(* The device from its start to its end (supla-dev/supla-dev.cpp, main):   *)
(* the main thread, which starts w1 and the connection's thread, waits for *)
(* a signal and takes everything down; the connection's thread, Conn, with *)
(* as much of devconnection_execute as makes and frees MQTT clients        *)
(* (module MqttClient, which this one extends); w1, which uses the         *)
(* channels every half second.  It is about who uses what when others free *)
(* it: the channels, the MQTT client, the event handler st_eh that every   *)
(* signal raises (supla-common/tools.c), the threads themselves            *)
(* (supla-common/sthread.c).                                               *)
(***************************************************************************)
EXTENDS MqttClient

CONSTANTS W1, Conn

ASSUME LifecycleAssumption ==
  W1 # Conn /\ Publishers = {W1, Conn} /\ Owner = Conn

VARIABLES
  main,           \* where main is
  conn,           \* where Conn is: "none" before it is started
  w1,             \* where W1 is
  channels,       \* is the global channels allocated?
  st_eh,          \* "none", "ready" or "freed"
  st_app_terminate,
  told,           \* threads whose sthread->terminated is set
  signalled,      \* threads with a signal they have not handled
  error_seen      \* did the server answer with a version error?

appVars  == <<channels, st_eh, st_app_terminate, error_seen>>
signals  == <<told, signalled>>
lifeVars == <<main, conn, w1, appVars, signals>>
vars == <<mqttVars, lifeVars>>

LifeInit ==
  /\ MqttInit
  /\ main = "start" /\ conn = "none" /\ w1 = "none"
  /\ channels = TRUE /\ st_eh = "none"
  /\ st_app_terminate = FALSE
  /\ told = {} /\ signalled = {}
  /\ error_seen = FALSE

\* sthread_terminate: the flag, and a signal for the thread.
Tell(t) == told' = told \cup {t} /\ signalled' = signalled \cup {t}

\* A fault that is not the MQTT client's own.
Fault(f) == fault' = f /\ UNCHANGED <<client, broker, thread, life, pubs, hist>>

\* A use of the channels, which is a fault once they are deleted: the pointer
\* is not reset.
UseChannels == IF channels THEN UNCHANGED mqttVars ELSE Fault("channels")
-----------------------------------------------------------------------------
(* main                                                                    *)

Goto(s) == main' = s

\* The threads are started once the configuration has been read.
Start ==
  /\ Running /\ main = "start"
  /\ st_eh' = "ready"
  /\ w1' = "loop" /\ conn' = "connect"
  /\ Goto("run")
  /\ UNCHANGED <<mqttVars, channels, st_app_terminate, error_seen, signals>>

\* Or it is not usable: channelio_free before w1 has been started.
FailToStart ==
  /\ Running /\ main = "start"
  /\ Goto("free_channels")
  /\ UNCHANGED <<mqttVars, conn, w1, appVars, signals>>

\* SIGTERM, which the main thread handles.
Signal ==
  /\ Running /\ main = "run" /\ ~st_app_terminate
  /\ st_app_terminate' = TRUE
  /\ UNCHANGED <<mqttVars, main, conn, w1, channels, st_eh, error_seen, signals>>

\* Mutant: the connection's thread is joined and not told to end.
LeaveLoopUntold ==
  /\ Running /\ main = "run" /\ st_app_terminate
  /\ Goto("join_conn")
  /\ UNCHANGED <<mqttVars, conn, w1, appVars, signals>>

\* Mutant: the connection's thread is not joined.
LeaveLoopUnjoined ==
  /\ Running /\ main = "run" /\ st_app_terminate
  /\ Tell(Conn)
  /\ Goto("free_channels")
  /\ UNCHANGED <<mqttVars, conn, w1, appVars>>

LeaveLoop ==
  /\ Running /\ main = "run" /\ st_app_terminate
  /\ Tell(Conn)
  /\ Goto("join_conn")
  /\ UNCHANGED <<mqttVars, conn, w1, appVars>>

JoinConn ==
  /\ Running /\ main = "join_conn" /\ conn = "done"
  /\ Goto("free_channels")
  /\ signalled' = signalled \ {Conn}
  /\ UNCHANGED <<mqttVars, conn, w1, appVars, told>>

\* channelio_free: delete channels ...
DeleteChannels ==
  /\ Running /\ main = "free_channels"
  /\ channels' = FALSE
  /\ Goto("free_mqtt")
  /\ UNCHANGED <<mqttVars, conn, w1, st_eh, st_app_terminate, error_seen, signals>>

\* ... mqtt_client_free, which has nothing to do when there is no client ...
FreeMqtt ==
  /\ Running /\ main = "free_mqtt"
  /\ life = "offline" /\ mq_client = 0
  /\ Goto("stop_w1")
  /\ UNCHANGED <<mqttVars, conn, w1, appVars, signals>>

\* ... and sthread_twf(thread_w1), which may be NULL.
StopW1 ==
  /\ Running /\ main = "stop_w1"
  /\ IF w1 = "none" THEN Fault("thread_w1") /\ UNCHANGED <<main, signals>>
     ELSE Tell(W1) /\ Goto("join_w1") /\ UNCHANGED mqttVars
  /\ UNCHANGED <<conn, w1, appVars>>

\* Mutant: w1 is told to end and not joined.
JoinW1Not ==
  /\ Running /\ main = "join_w1"
  /\ Goto("free_loop")
  /\ UNCHANGED <<mqttVars, conn, w1, appVars, signals>>

JoinW1 ==
  /\ Running /\ main = "join_w1" /\ w1 = "done"
  /\ Goto("free_loop")
  /\ signalled' = signalled \ {W1}
  /\ UNCHANGED <<mqttVars, conn, w1, appVars, told>>

\* st_mainloop_free
FreeLoop ==
  /\ Running /\ main = "free_loop"
  /\ st_eh' = "freed"
  /\ Goto("exited")
  /\ UNCHANGED <<mqttVars, conn, w1, channels, st_app_terminate, error_seen, signals>>

MainStep ==
  LeaveLoop \/ JoinConn \/ DeleteChannels \/ FreeMqtt \/ StopW1 \/ JoinW1
    \/ FreeLoop
-----------------------------------------------------------------------------
(* devconnection_execute                                                   *)

Told(t) == t \in told
Untouched == UNCHANGED <<main, w1, appVars, signals>>

ConnDone ==
  /\ Running /\ conn = "connect" /\ Told(Conn)
  /\ conn' = "done"
  /\ Untouched /\ UNCHANGED mqttVars

\* Mutant: the thread ends when it cannot connect.
ConnConnectOrEnd(ok) ==
  /\ Running /\ conn = "connect" /\ ~Told(Conn)
  /\ conn' = IF ok THEN "session" ELSE "done"
  /\ Untouched /\ UNCHANGED mqttVars

\* ssocket_client_connect; when it fails the callbacks are cleared all the same.
ConnConnect(ok) ==
  /\ Running /\ conn = "connect" /\ ~Told(Conn)
  /\ conn' = IF ok THEN "session" ELSE "clear"
  /\ Untouched /\ UNCHANGED mqttVars

\* The registration's result sets the callbacks and makes a client.
ConnRegistered ==
  /\ conn = "session"
  /\ IF channels THEN InitClient ELSE Running /\ Fault("channels")
  /\ conn' = "online"
  /\ Untouched

\* devconnection_on_version_error: the thread terminates itself.
ConnVersionError ==
  /\ Running /\ conn = "session"
  /\ Tell(Conn)
  /\ error_seen' = TRUE
  /\ UNCHANGED <<mqttVars, main, conn, w1, channels, st_eh, st_app_terminate>>

\* The session ends, told to or not, and the callbacks are cleared.
ConnEnds ==
  /\ Running /\ conn \in {"session", "online"} /\ pub[Conn] = "idle"
  /\ conn' = "clear"
  /\ Untouched /\ UNCHANGED mqttVars

\* channelio_setcalback_on_channel_value_changed(NULL, NULL, NULL), up to its
\* call of mqtt_client_free.
ConnClear ==
  /\ Running /\ conn = "clear"
  /\ IF ~channels THEN Fault("channels") /\ UNCHANGED conn
     ELSE IF life = "online" THEN BeginFree /\ conn' = "freeing"
     ELSE conn' = "connect" /\ UNCHANGED mqttVars
  /\ Untouched

ConnFreed ==
  /\ Running /\ conn = "freeing" /\ life = "offline"
  /\ conn' = "connect"
  /\ Untouched /\ UNCHANGED mqttVars

\* mqtt_client_free tells the client's thread to end, with a signal, and joins it.
ConnFrees ==
  /\ OwnerStep
  /\ signalled' = IF life = "terminate" THEN signalled \cup {Mqtt}
                  ELSE IF life = "join" THEN signalled \ {Mqtt} ELSE signalled
  /\ UNCHANGED <<main, conn, w1, appVars, told>>

ConnStep ==
  \/ ConnDone \/ ConnClear \/ ConnFreed \/ ConnFrees
  \/ PublishStep(Conn) /\ UNCHANGED lifeVars
-----------------------------------------------------------------------------
(* channelio_w1_execute                                                    *)

W1Loop ==
  /\ Running /\ w1 = "loop"
  /\ w1' = IF Told(W1) THEN "done" ELSE "iterate"
  /\ UNCHANGED <<mqttVars, main, conn, appVars, signals>>

W1Iterate ==
  /\ Running /\ w1 = "iterate" /\ pub[W1] = "idle"
  /\ UseChannels
  /\ w1' = IF channels THEN "loop" ELSE w1
  /\ UNCHANGED <<main, conn, appVars, signals>>

W1Step ==
  \/ W1Loop \/ W1Iterate
  \/ PublishStep(W1) /\ UNCHANGED lifeVars
-----------------------------------------------------------------------------
(* The MQTT thread, publishers, signals.                                   *)

\* A publish is part of an iteration of w1 or of a command Conn executes.
Publishing(t) ==
  /\ IF t = W1 THEN w1 = "iterate" ELSE conn = "online"
  /\ BeginPublish(t)
  /\ UNCHANGED lifeVars

\* mqtt_subscribe_callback, called as messages are received, uses the channels.
MqttReceives ==
  /\ Running /\ sync = "recv" /\ Free
  /\ IF channels THEN Receive ELSE Fault("channels")
  /\ UNCHANGED lifeVars

MqttStep ==
  \/ MqttReceives
  \/ (Stop \/ Connecting \/ Send) /\ UNCHANGED lifeVars

Environment ==
  /\ Outage(TRUE) \/ Outage(FALSE) \/ BrokerReturns \/ Tick
  /\ UNCHANGED lifeVars

Living(t) ==
  CASE t = W1 -> w1 \notin {"none", "done"}
    [] t = Conn -> conn \notin {"none", "done"}
    [] t = Mqtt -> sync \notin {"none", "done"}

\* st_signal_handler raises st_eh in the thread that the signal is for; it may
\* also end before it takes the signal, which is dropped when it is joined.
HandleSignal(t) ==
  /\ Running /\ t \in signalled
  /\ signalled' = signalled \ {t}
  /\ IF Living(t) /\ st_eh = "freed" THEN Fault("st_eh") ELSE UNCHANGED mqttVars
  /\ UNCHANGED <<main, conn, w1, appVars, told>>

Next ==
  \/ Start \/ FailToStart \/ Signal \/ MainStep
  \/ (\E ok \in BOOLEAN : ConnConnect(ok)) \/ ConnRegistered \/ ConnVersionError
  \/ ConnEnds \/ ConnStep
  \/ W1Step \/ MqttStep \/ (Notice /\ UNCHANGED lifeVars) \/ Environment
  \/ \E t \in Publishers : Publishing(t)
  \/ \E t \in {W1, Conn, Mqtt} : HandleSignal(t)

Spec == LifeInit /\ [][Next]_vars

\* The threads run on; a thread that was told to end leaves its session.
LiveSpec ==
  /\ Spec
  /\ WF_vars(MainStep) /\ WF_vars(W1Step) /\ WF_vars(MqttStep)
  /\ WF_vars(ConnStep) /\ WF_vars(Told(Conn) /\ ConnEnds)
  /\ SF_vars(Notice /\ UNCHANGED lifeVars)
  /\ WF_vars(BrokerReturns /\ UNCHANGED lifeVars) /\ WF_vars(Tick /\ UNCHANGED lifeVars)
-----------------------------------------------------------------------------
AppTypeOK ==
  /\ main \in {"start", "run", "join_conn", "free_channels", "free_mqtt",
               "stop_w1", "join_w1", "free_loop", "exited"}
  /\ conn \in {"none", "connect", "session", "online", "clear", "freeing", "done"}
  /\ w1 \in {"none", "loop", "iterate", "done"}
  /\ channels \in BOOLEAN /\ st_eh \in {"none", "ready", "freed"}
  /\ st_app_terminate \in BOOLEAN /\ error_seen \in BOOLEAN
  /\ told \subseteq {W1, Conn} /\ signalled \subseteq {W1, Conn, Mqtt}

TypeOK == MqttTypeOK /\ AppTypeOK

\* The channels are deleted before w1 is joined, but after every other thread
\* and the MQTT client are gone: a use of deleted channels is w1's, on its last
\* turn (channel-io.cpp:1934-1941, supla-dev.cpp:114-119).
OnlyW1OutlivesChannels ==
  /\ ~channels => conn \in {"none", "done"} /\ sync = "none" /\ mq_client = 0
  /\ fault = "channels" => w1 = "iterate" /\ main \in {"free_mqtt", "stop_w1", "join_w1"}

\* Threads use what others have freed in the windows that are named and in no
\* others: a publisher the MQTT client (FaultOnlyWhenFreed), w1 the channels, main
\* the thread w1 when it was never started.  "after channelio_free"
\* (supla-dev.cpp:120): no thread that was sent a signal to end takes it after the
\* event handler that the signal raises is freed.
FaultsAreKnown ==
  /\ FaultOnlyWhenFreed /\ OnlyW1OutlivesChannels
  /\ fault = "thread_w1" => w1 = "none"
  /\ fault # "st_eh"

\* While the program is meant to run its connection's thread runs; only a version
\* error ends it, with the main thread waiting on (devconnection.cpp:76-86).
OnlineUnlessRefused == main = "run" /\ conn = "done" => error_seen

\* The program leaves nothing behind: no thread, no client, no socket
\* (supla-dev.cpp:114-122).
CleanExit ==
  main = "exited" =>
    /\ {w1, conn} \subseteq {"none", "done"} /\ sync = "none"
    /\ ~alive /\ sockets = 0

\* A program told to end ends, unless its MQTT thread is stuck or a thread
\* stumbles (supla-dev.cpp:110-122).
ExitCompletes ==
  (main = "run" /\ st_app_terminate) ~> (main = "exited" \/ Stuck \/ fault # "none")
==============================================================================
