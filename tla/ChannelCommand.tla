---------------------------- MODULE ChannelCommand ----------------------------
(***************************************************************************)
(* One channel that is switched or moved (supla-dev/channel-io.cpp,        *)
(* channelio_set_value): the connection's thread, Conn, executes commands  *)
(* of the server, the thread W1 ends impulses, toggles the value and reads *)
(* it from a file, and the MQTT thread takes the state of the real device. *)
(* setValue is locked, getValue and a sequence of both are not; each       *)
(* action is a stretch between two accesses.  Of the value only its first  *)
(* byte is used here, which an unlocked read cannot tear.                  *)
(*                                                                         *)
(* The device is told a value by command_on and command_off; a message to  *)
(* command_topic takes the same way at the same place.  What a shutter is  *)
(* told is not kept, and the dimmers, whose command is computed from the   *)
(* remembered levels, are not modelled here.                               *)
(***************************************************************************)
EXTENDS Naturals

CONSTANTS Kinds,       \* of channels: "relay", "impulse", "shutter"
          Position,    \* of a shutter
          Move,        \* commands to a shutter
          Nothing,     \* not a value
          HasOn,       \* is command_on configured?
          HasOff,      \* is command_off configured?
          MaxTime,     \* the longest impulse
          Conn, W1, Mqtt,
          MaxCommands, \* bound: commands
          MaxStates    \* bound: states from the device, the file, a toggle

ASSUME CommandAssumption ==
  /\ Kinds \subseteq {"relay", "impulse", "shutter"}
  /\ Position \cap Move = {} /\ Position # {}
  /\ {"off", "on", "unknown"} \cap (Position \cup Move) = {}
  /\ {HasOn, HasOff} \subseteq BOOLEAN
  /\ MaxTime \in Nat \ {0}
  /\ Conn # W1 /\ W1 # Mqtt /\ Mqtt # Conn
  /\ {MaxCommands, MaxStates} \subseteq Nat

Threads == {Conn, W1, Mqtt}
Value == {"off", "on"} \cup Position \cup Move
ASSUME NothingAssumption == Nothing \notin Value

VARIABLES
  kind,     \* of the channel, as it is configured
  value,    \* of the channel
  previous, \* the value Conn restores
  impulse,  \* runtime_impulse_end_ms: armed, left
  at,       \* at[t]: where thread t is
  held,     \* held[t]: the value t sets
  told,     \* told[t]: the value t has read to tell the device
  time,     \* DurationMS of the command Conn executes
  device,   \* what the device was told last
  shown,    \* what the server was told last
  hist      \* history variables, see below

vars == <<kind, value, previous, impulse, at, held, told, time, device, shown,
          hist>>

State == IF kind = "shutter" THEN Position ELSE {"off", "on"}
Command == IF kind = "shutter" THEN Move ELSE {"off", "on"}

NoImpulse == [armed |-> FALSE, left |-> 0]
Busy(t) == at[t] # "idle"

\* history: overlapped[t]: another thread was in its section during that of t;
\* disturbed: sections overlapped since the last that met no other one and told
\* the device; telling: the last value set was, or is being, told to the device;
\* timed: the last value set is the "on" of a timed command; state: the last
\* state read; commands, states: counters of the bounds.
Init ==
  /\ kind \in Kinds
  /\ value \in State
  /\ previous = Nothing
  /\ impulse = NoImpulse
  /\ at = [t \in Threads |-> "idle"]
  /\ held = [t \in Threads |-> Nothing]
  /\ told = [t \in Threads |-> Nothing]
  /\ time = 0
  /\ device = "unknown"
  /\ shown = value
  /\ hist = [overlapped |-> [t \in Threads |-> FALSE], disturbed |-> FALSE,
             telling |-> FALSE, timed |-> FALSE, state |-> value,
             commands |-> 0, states |-> 0]

\* Thread t enters a section at state s, about to set v.
Met(h, t) ==
  LET others == {u \in Threads \ {t} : Busy(u)}
  IN [h EXCEPT !.overlapped = [u \in Threads |->
                  IF u = t THEN others # {} ELSE @[u] \/ u \in others],
               !.disturbed = @ \/ others # {}]

Enter(t, s, v) ==
  /\ at[t] = "idle"
  /\ at' = [at EXCEPT ![t] = s]
  /\ held' = [held EXCEPT ![t] = v]

Go(t, s) == at' = [at EXCEPT ![t] = s]
-----------------------------------------------------------------------------
(* channelio_set_value, by Conn.                                           *)

SetChannel(c, d) ==
  /\ Enter(Conn, "clear", c)
  /\ hist.commands < MaxCommands
  /\ time' = d
  /\ hist' = [Met(hist, Conn) EXCEPT !.commands = @ + 1]
  /\ UNCHANGED <<kind, value, previous, impulse, told, device, shown>>

\* "off" ends an impulse; then the value is read that a shutter gets back.
ClearImpulse ==
  /\ at[Conn] = "clear"
  /\ impulse' = IF kind = "impulse" /\ held[Conn] = "off" THEN NoImpulse
                ELSE impulse
  /\ previous' = value
  /\ Go(Conn, "set")
  /\ UNCHANGED <<kind, value, held, told, time, device, shown, hist>>

\* Mutant: the position is not restored.
RestoreNot ==
  /\ at[Conn] = "restore"
  /\ Go(Conn, "leave")
  /\ UNCHANGED <<kind, value, previous, impulse, held, told, time, device, shown, hist>>

Restore ==
  /\ at[Conn] = "restore"
  /\ value' = previous
  /\ Go(Conn, "leave")
  /\ UNCHANGED <<kind, previous, impulse, held, told, time, device, shown, hist>>

\* The end of the impulse is noted when all else is done.
ArmImpulse ==
  /\ at[Conn] = "arm"
  /\ impulse' = IF kind = "impulse" /\ held[Conn] = "on" /\ time > 0
                THEN [armed |-> TRUE, left |-> time] ELSE impulse
  /\ Go(Conn, "leave")
  /\ UNCHANGED <<kind, value, previous, held, told, time, device, shown, hist>>
-----------------------------------------------------------------------------
(* channelio_w1_iterate, by W1.                                            *)

EndImpulse ==
  /\ Enter(W1, "clear", "off")
  /\ impulse.armed /\ impulse.left = 0
  /\ hist' = Met(hist, W1)
  /\ UNCHANGED <<kind, value, previous, impulse, told, time, device, shown>>

\* Mutant: the value is not set when the impulse ends.
ClearEndedOnly ==
  /\ at[W1] = "clear"
  /\ impulse' = NoImpulse
  /\ Go(W1, "leave")
  /\ UNCHANGED <<kind, value, previous, held, told, time, device, shown, hist>>

ClearEnded ==
  /\ at[W1] = "clear"
  /\ impulse' = NoImpulse
  /\ Go(W1, "set")
  /\ UNCHANGED <<kind, value, previous, held, told, time, device, shown, hist>>

\* A state from the file, or a toggle: it is reported and not told.
ReadState(s) ==
  /\ Enter(W1, "set_state", s)
  /\ hist.states < MaxStates
  /\ hist' = [Met(hist, W1) EXCEPT !.states = @ + 1]
  /\ UNCHANGED <<kind, value, previous, impulse, told, time, device, shown>>

\* handle_subscribed_message and mqtt_subscribe_callback, by Mqtt.
Message(s) ==
  /\ Enter(Mqtt, "set", s)
  /\ hist.states < MaxStates
  /\ hist' = [Met(hist, Mqtt) EXCEPT !.states = @ + 1]
  /\ UNCHANGED <<kind, value, previous, impulse, told, time, device, shown>>
-----------------------------------------------------------------------------
(* What the threads share.                                                 *)

\* setValue.
Set(t) ==
  /\ at[t] \in {"set", "set_state"}
  /\ value' = held[t]
  /\ hist' = [hist EXCEPT
       !.telling = at[t] = "set",
       !.timed = t = Conn /\ held[Conn] = "on" /\ time > 0,
       !.state = IF t = Conn THEN @ ELSE held[t]]
  /\ Go(t, CASE at[t] = "set_state" -> "report"
             [] t = Mqtt -> "send"
             [] OTHER -> "read")
  /\ UNCHANGED <<kind, previous, impulse, held, told, time, device, shown>>

\* Mqtt reports the state it has set.
SendState ==
  /\ at[Mqtt] = "send"
  /\ shown' = held[Mqtt]
  /\ Go(Mqtt, "read")
  /\ UNCHANGED <<kind, value, previous, impulse, held, told, time, device, hist>>

\* Mutant: Conn tells the value from before the command.
ReadToTellPrevious(t) ==
  /\ at[t] = "read"
  /\ told' = [told EXCEPT ![t] = IF t = Conn THEN previous ELSE value]
  /\ Go(t, "tell")
  /\ UNCHANGED <<kind, value, previous, impulse, held, time, device, shown, hist>>

\* channelio_raise_execute_command reads the value again, then runs a command;
\* that of "off" is run only where there is one of "on".
ReadToTell(t) ==
  /\ at[t] = "read"
  /\ told' = [told EXCEPT ![t] = value]
  /\ Go(t, "tell")
  /\ UNCHANGED <<kind, value, previous, impulse, held, time, device, shown, hist>>

Runs(v) == CASE v = "off" -> HasOn /\ HasOff
             [] v = "on" -> HasOn
             [] OTHER -> FALSE

Tell(t) ==
  /\ at[t] = "tell"
  /\ device' = IF Runs(told[t]) THEN told[t] ELSE device
  /\ Go(t, CASE t = Mqtt -> "leave"
             [] t = Conn /\ kind = "shutter" -> "restore"
             [] OTHER -> "report")
  /\ UNCHANGED <<kind, value, previous, impulse, held, told, time, shown, hist>>

\* Mutant: the value that was set is reported by Conn only.
ReportConn(t) ==
  /\ at[t] = "report"
  /\ shown' = IF t = Conn THEN value ELSE shown
  /\ Go(t, IF t = Conn THEN "arm" ELSE "leave")
  /\ UNCHANGED <<kind, value, previous, impulse, held, told, time, device, hist>>

\* channelio_raise_valuechanged.
Report(t) ==
  /\ at[t] = "report"
  /\ shown' = value
  /\ Go(t, IF t = Conn THEN "arm" ELSE "leave")
  /\ UNCHANGED <<kind, value, previous, impulse, held, told, time, device, hist>>

\* The section ends and its locals are forgotten; a command to a switch that met
\* nobody puts all in order.
End(t) ==
  /\ at[t] = "leave"
  /\ Go(t, "idle")
  /\ held' = [held EXCEPT ![t] = Nothing]
  /\ told' = [told EXCEPT ![t] = Nothing]
  /\ time' = IF t = Conn THEN 0 ELSE time
  /\ previous' = IF t = Conn THEN Nothing ELSE previous
  /\ hist' = [hist EXCEPT
       !.overlapped[t] = FALSE,
       !.disturbed = @ /\ ~(t = Conn /\ kind # "shutter"
                              /\ ~hist.overlapped[Conn])]
  /\ UNCHANGED <<kind, value, impulse, device, shown>>

Tick ==
  /\ impulse.left > 0
  /\ impulse' = [impulse EXCEPT !.left = @ - 1]
  /\ UNCHANGED <<kind, value, previous, at, held, told, time, device, shown, hist>>
-----------------------------------------------------------------------------
Shared(t) == Set(t) \/ ReadToTell(t) \/ Tell(t) \/ Report(t) \/ End(t)

ConnStep == ClearImpulse \/ Restore \/ ArmImpulse \/ Shared(Conn)
W1Step == EndImpulse \/ ClearEnded \/ Shared(W1)
MqttStep == SendState \/ Shared(Mqtt)

Next ==
  \/ \E c \in Command, d \in 0 .. MaxTime : SetChannel(c, d)
  \/ \E s \in State : ReadState(s) \/ Message(s)
  \/ ConnStep \/ W1Step \/ MqttStep \/ Tick

Spec == Init /\ [][Next]_vars

\* The threads run on and time passes.
LiveSpec ==
  /\ Spec
  /\ WF_vars(ConnStep) /\ WF_vars(W1Step) /\ WF_vars(MqttStep) /\ WF_vars(Tick)
-----------------------------------------------------------------------------
Places == {"idle", "clear", "set", "set_state", "send", "read", "tell",
           "restore", "report", "arm", "leave"}

TypeOK ==
  /\ kind \in Kinds
  /\ value \in Value /\ shown \in Value
  /\ previous \in Value \cup {Nothing}
  /\ impulse \in [armed : BOOLEAN, left : 0 .. MaxTime]
  /\ impulse.left > 0 => impulse.armed
  /\ at \in [Threads -> Places]
  /\ held \in [Threads -> Value \cup {Nothing}]
  /\ told \in [Threads -> Value \cup {Nothing}]
  /\ time \in 0 .. MaxTime
  /\ device \in {"unknown", "off", "on"}

Idle == \A t \in Threads : ~Busy(t)

\* An impulse never gets stuck: whatever the threads' order, a channel at rest
\* that is on because of a timed command has an end (channelio_w1_iterate clears
\* the end before it sets the value, channelio_set_value notes it last).
NoStuckImpulse ==
  kind = "impulse" /\ Idle /\ value = "on" /\ hist.timed => impulse.armed

\* A timed command is followed by the value 0, even when the end of an earlier
\* impulse is being executed.
ImpulseEnds ==
  (kind = "impulse" /\ at[Conn] = "arm" /\ held[Conn] = "on" /\ time > 0)
    ~> value = "off"

\* At rest the command that was run last is that of the value: command_on for 1,
\* command_off for 0, as far as they are configured, after a command, a message
\* or the end of an impulse and unless sections overlapped.
DeviceFollows ==
  Idle /\ hist.telling /\ ~hist.disturbed =>
    /\ value = "on" /\ HasOn => device = "on"
    /\ value = "off" /\ HasOff => device = "off"

\* At rest the server shows the value, unless sections overlapped.
ServerFollows == Idle /\ ~hist.disturbed => shown = value

\* A command to a shutter leaves the position it had, unless sections overlapped.
PositionKept ==
  kind = "shutter" /\ Idle /\ ~hist.disturbed => value = hist.state
==============================================================================
