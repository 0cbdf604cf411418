----------------------------- MODULE HvacRuntime -----------------------------
(***************************************************************************)
(* One HVAC_THERMOSTAT channel (supla-dev/channel-io.cpp): the commands    *)
(* and configurations the connection's thread, Conn, takes from the        *)
(* server, the weekly schedule and the countdown that the thread W1 runs   *)
(* every half second, and the state the MQTT thread takes from the real    *)
(* thermostat.  Only setValue is locked, and getValue does not ask for the *)
(* lock; all else that the threads share is not.  Every action is a        *)
(* stretch between two of these accesses.                                  *)
(*                                                                         *)
(* A channel in heating mode is modelled; IsOn follows the mode, and a     *)
(* mode that was never set counts as off.  The clock is relative: age is   *)
(* the time since the last publication, up to the five seconds that        *)
(* matter, and a countdown holds what is left of it.  The callbacks are    *)
(* taken to be set (module DevConnection is about them).                   *)
(***************************************************************************)
EXTENDS Naturals

CONSTANTS
  Setpoint,         \* temperatures
  NoSetpoint, NoSchedule, NoValue,
  Quarter,          \* quarters of an hour of the week
  Schedules,        \* weekly schedules the server sends
  Durations,        \* of timed commands, 0 among them: not timed
  Requests,         \* commands the server sends
  Updates,          \* messages of the thermostat
  Throttle,         \* time during which no program follows a publication
  Tracked,          \* is channelio_tracking_index(number) > 0?
  Conn, W1, Mqtt,   \* the threads
  MaxCommands,      \* bound: commands
  MaxConfigs,       \* bound: configurations and registrations
  MaxUpdates,       \* bound: messages of the thermostat
  MaxInputs         \* bound: all of these together

\* The program of a quarter: off, a setpoint to heat to, a program that is not
\* one of the schedule's four, or one whose mode the thermostat has not.
Program == Setpoint \cup {"off", "none", "invalid"}

ASSUME HvacAssumption ==
  /\ Setpoint # {} /\ NoSetpoint \notin Setpoint
  /\ {"off", "none", "invalid"} \cap Setpoint = {}
  /\ Schedules \subseteq [Quarter -> Program]
  /\ NoSchedule \notin Schedules
  /\ 0 \in Durations /\ Durations \subseteq Nat
  /\ Throttle \in Nat \ {0} /\ Tracked \in BOOLEAN
  /\ Conn # W1 /\ W1 # Mqtt /\ Mqtt # Conn
  /\ {MaxCommands, MaxConfigs, MaxUpdates, MaxInputs} \subseteq Nat

Threads == {Conn, W1, Mqtt}
HvacValue == [mode : {"off", "heat"}, setpoint : Setpoint,
              weekly : BOOLEAN, timer : BOOLEAN]
ASSUME NoValueAssumption == NoValue \notin HvacValue

\* A value that is all zeros: its mode counts as off, and no setpoint is told.
Blank == [mode : {"off"}, setpoint : Setpoint, weekly : {FALSE}, timer : {FALSE}]

RequestType == [mode : {"weekly", "off", "heat", "turn_on", "manual", "not_set"},
            setpoint : Setpoint \cup {NoSetpoint}, time : Durations]
UpdateType == [on : {"on", "off", "keep"},
               setpoint : Setpoint \cup {NoSetpoint}]
ASSUME MessageAssumption ==
  Requests \subseteq RequestType /\ Updates \subseteq UpdateType

VARIABLES
  value,     \* of the channel
  schedule,  \* runtime_weekly_schedule, or NoSchedule: not available
  quarter,   \* the current quarter
  age,       \* since runtime_weekly_schedule_last_publish
  countdown, \* runtime_hvac_countdown_*: armed, left, restore, sent
  timer,     \* does the server show a running timer?
  at,        \* at[t]: where thread t is
  read,      \* read[t]: the value t has read
  next,      \* next[t]: the value t is going to set
  request,   \* the command Conn executes
  telling,   \* the time left that W1 tells the server
  hist       \* history variables, see below

vars == <<value, schedule, quarter, age, countdown, timer, at, read,
          next, request, telling, hist>>
program == <<schedule, quarter>>
held    == <<read, next>>
task    == <<request, telling>>
data    == <<value, program, age, countdown, timer, task>>

NoCountdown == [armed |-> FALSE, left |-> 0, restore |-> NoValue, sent |-> 0]
NoRequest == [mode |-> "not_set", setpoint |-> NoSetpoint, time |-> 0]
Busy(t) == at[t] # "idle"

\* history: overlapped[t]: another thread was in a section of its own during
\* that of t; disturbed: sections overlapped since the last command that was
\* not timed and met no other thread; expiring: the section of W1 ends a
\* countdown; before: the last value without a countdown; received: the last
\* schedule of the server; commands, configs, updates: counters of the bounds.
Init ==
  /\ value \in Blank
  /\ schedule = NoSchedule
  /\ quarter \in Quarter
  /\ age = Throttle
  /\ countdown = NoCountdown
  /\ timer = FALSE
  /\ at = [t \in Threads |-> "idle"]
  /\ read = [t \in Threads |-> NoValue]
  /\ next = [t \in Threads |-> NoValue]
  /\ request = NoRequest
  /\ telling = 0
  /\ hist = [overlapped |-> [t \in Threads |-> FALSE], disturbed |-> FALSE,
             expiring |-> FALSE, before |-> value, received |-> NoSchedule,
             commands |-> 0, configs |-> 0, updates |-> 0]

InputLeft == hist.commands + hist.configs + hist.updates < MaxInputs

\* What entering a section makes of the history: t meets those that are busy.
Met(h, t) ==
  LET others == {u \in Threads \ {t} : Busy(u)}
  IN [h EXCEPT !.overlapped = [u \in Threads |->
                  IF u = t THEN others # {} ELSE @[u] \/ u \in others],
               !.disturbed = @ \/ others # {}]

\* Thread t goes on within its section.
Go(t, s) == at' = [at EXCEPT ![t] = s]

\* Thread t leaves its section and forgets what it held.
Leave(t) ==
  /\ Go(t, "idle")
  /\ read' = [read EXCEPT ![t] = NoValue]
  /\ next' = [next EXCEPT ![t] = NoValue]

\* What getValue may return to t: the value, or, while another thread sets one, half
\* of each; the mode and the setpoint are in one half, the flags in the other.
Torn(v, w) == [v EXCEPT !.weekly = w.weekly, !.timer = w.timer]
Readable(t) ==
  {value} \cup UNION {{Torn(value, next[u]), Torn(next[u], value)} :
                       u \in {u \in Threads \ {t} : at[u] = "set"}}
-----------------------------------------------------------------------------
(* channelio_get_current_hvac_program, channelio_build_hvac_weekly_value.  *)

\* Without a schedule the default one counts, whose quarters are all 0: off.
CurrentProgram == IF schedule = NoSchedule THEN "off" ELSE schedule[quarter]
HasProgram == CurrentProgram \in Setpoint \cup {"off"}

BuildWeekly(v) ==
  CASE CurrentProgram = "none"    -> v
    [] CurrentProgram = "invalid" -> [v EXCEPT !.weekly = TRUE]
    [] CurrentProgram = "off"     -> [v EXCEPT !.weekly = TRUE, !.mode = "off"]
    [] OTHER -> [v EXCEPT !.weekly = TRUE, !.mode = "heat",
                          !.setpoint = CurrentProgram]

(* channelio_set_hvac_value: the value a request makes of the one read.    *)

Manual(v, mode) == [v EXCEPT !.weekly = FALSE, !.mode = mode]

RequestedMode(v, mode) ==
  CASE mode = "off" -> Manual(v, "off")
    [] mode \in {"heat", "manual"} -> Manual(v, "heat")
    [] mode = "turn_on" -> [v EXCEPT !.mode = "heat"]
    [] OTHER -> v

Requested(v, r) ==
  LET given == r.setpoint # NoSetpoint
      left  == IF given /\ v.weekly THEN Manual(v, "heat") ELSE v
      moded == IF r.mode = "turn_on" /\ v.weekly THEN BuildWeekly(left)
               ELSE RequestedMode(left, r.mode)
  IN IF r.mode = "weekly"
     THEN IF HasProgram THEN BuildWeekly(v)
          ELSE [v EXCEPT !.weekly = TRUE, !.mode = "heat"]
     ELSE IF given THEN [moded EXCEPT !.setpoint = r.setpoint] ELSE moded

Timed(r) == r.time > 0 /\ Tracked

\* Mutant: a timed command leaves the weekly flag.
NextValueWeekly(v, r) == [Requested(v, r) EXCEPT !.timer = Timed(r)]

NextValue(v, r) ==
  IF Timed(r)
  THEN [Requested(v, r) EXCEPT !.timer = TRUE, !.weekly = FALSE]
  ELSE [Requested(v, r) EXCEPT !.timer = FALSE]
-----------------------------------------------------------------------------
(* channelio_set_hvac_value, by Conn.                                      *)

Command(r) ==
  /\ at[Conn] = "idle"
  /\ hist.commands < MaxCommands /\ InputLeft
  /\ request' = r
  /\ \E v \in Readable(Conn) : read' = [read EXCEPT ![Conn] = v]
  /\ hist' = [Met(hist, Conn) EXCEPT !.commands = @ + 1]
  /\ Go(Conn, IF Timed(r) THEN "restore" ELSE "cancel")
  /\ UNCHANGED <<value, program, age, countdown, timer, next, telling>>

\* Mutant: the countdown goes on.
CancelNot ==
  /\ at[Conn] = "cancel"
  /\ Go(Conn, "build")
  /\ UNCHANGED <<data, held, hist>>

\* A command that is not timed ends the countdown.
Cancel ==
  /\ at[Conn] = "cancel"
  /\ Go(Conn, IF request.time = 0 /\ countdown.armed THEN "clear" ELSE "build")
  /\ UNCHANGED <<data, held, hist>>

Build ==
  /\ at[Conn] = "build"
  /\ next' = [next EXCEPT ![Conn] = NextValue(read[Conn], request)]
  /\ Go(Conn, "compare")
  /\ UNCHANGED <<data, read, hist>>

\* Mutant: each countdown notes the value it finds.
KeepRestoreLast ==
  /\ at[Conn] = "restore"
  /\ countdown' = [countdown EXCEPT !.restore = [read[Conn] EXCEPT !.timer = FALSE]]
  /\ Go(Conn, "arm")
  /\ UNCHANGED <<value, program, age, timer, held, task, hist>>

\* The value to restore is that from before the first of several countdowns.
KeepRestore ==
  /\ at[Conn] = "restore"
  /\ countdown' =
       IF countdown.restore # NoValue THEN countdown
       ELSE [countdown EXCEPT !.restore = [read[Conn] EXCEPT !.timer = FALSE]]
  /\ Go(Conn, "arm")
  /\ UNCHANGED <<value, program, age, timer, held, task, hist>>

Arm ==
  /\ at[Conn] = "arm"
  /\ countdown' = [countdown EXCEPT !.armed = TRUE, !.left = request.time,
                                    !.sent = 0]
  /\ next' = [next EXCEPT ![Conn] = NextValue(read[Conn], request)]
  /\ Go(Conn, "compare")
  /\ UNCHANGED <<value, program, age, timer, read, task, hist>>
-----------------------------------------------------------------------------
(* channelio_clear_hvac_countdown, by Conn or W1: four unlocked writes.    *)

Clearing(t, from, to) ==
  /\ at[t] = from
  /\ Go(t, to)
  /\ UNCHANGED <<value, program, age, timer, held, task, hist>>

\* Mutant: the countdown that has ended is kept.
ClearEndNot(t) == Clearing(t, "clear", "clear_available") /\ UNCHANGED countdown

ClearEnd(t) ==
  /\ Clearing(t, "clear", "clear_available")
  /\ countdown' = [countdown EXCEPT !.armed = FALSE, !.left = 0]

ClearAvailable(t) ==
  /\ Clearing(t, "clear_available", "clear_sent")
  /\ countdown' = [countdown EXCEPT !.restore = NoValue]

ClearSent(t) ==
  /\ Clearing(t, "clear_sent", "clear_value")
  /\ countdown' = [countdown EXCEPT !.sent = 0]

\* If a new countdown has noted its value in between, what it finds is blank.
ClearValue(t) ==
  /\ Clearing(t, "clear_value", IF t = W1 THEN "compare" ELSE "build")
  /\ IF countdown.restore = NoValue THEN UNCHANGED countdown
     ELSE \E v \in Blank : countdown' = [countdown EXCEPT !.restore = v]

Clear(t) == ClearEnd(t) \/ ClearAvailable(t) \/ ClearSent(t) \/ ClearValue(t)
-----------------------------------------------------------------------------
(* channelio_commit_hvac_value, by Conn or W1.                             *)

\* What follows a commit: the timer state, after a command or a countdown.
AfterCommit(t) ==
  IF (t = Conn /\ read[Conn] # NoValue) \/ (t = W1 /\ hist.expiring)
  THEN "timer" ELSE "leave"

Compare(t) ==
  /\ at[t] = "compare"
  /\ \E v \in Readable(t) : Go(t, IF v = next[t] THEN AfterCommit(t) ELSE "set")
  /\ UNCHANGED <<data, held, hist>>

Set(t) ==
  /\ at[t] = "set"
  /\ value' = next[t]
  /\ hist' = IF next[t].timer THEN hist ELSE [hist EXCEPT !.before = next[t]]
  /\ Go(t, IF t = Mqtt THEN "leave" ELSE "publish")
  /\ UNCHANGED <<program, age, countdown, timer, held, task>>

\* The value is published to the thermostat, and the time is noted.
Publish(t) ==
  /\ at[t] = "publish"
  /\ age' = IF Tracked THEN 0 ELSE age
  /\ Go(t, AfterCommit(t))
  /\ UNCHANGED <<value, program, countdown, timer, held, task, hist>>

TellTimer(t) ==
  /\ at[t] = "timer"
  /\ IF t = Conn /\ Timed(request) /\ countdown.armed
     THEN /\ timer' = (countdown.left > 0)
          /\ countdown' = [countdown EXCEPT !.sent = countdown.left]
     ELSE /\ timer' = FALSE
          /\ UNCHANGED countdown
  /\ Go(t, "leave")
  /\ UNCHANGED <<value, program, age, held, task, hist>>

\* The section ends; a plain command that met nobody puts all in order.
End(t) ==
  /\ at[t] = "leave"
  /\ Leave(t)
  /\ hist' = [hist EXCEPT
       !.disturbed = @ /\ ~(/\ t = Conn /\ read[Conn] # NoValue
                            /\ request.time = 0 /\ ~hist.overlapped[Conn]),
       !.expiring = @ /\ t # W1, !.overlapped[t] = FALSE]
  /\ request' = IF t = Conn THEN NoRequest ELSE request
  /\ UNCHANGED <<value, program, age, countdown, timer, telling>>
-----------------------------------------------------------------------------
(* channelio_apply_current_hvac_weekly_schedule, by Conn or W1.            *)

\* Mutant: the weekly flag is not asked for.
ApplicableAlways(v) ==
  /\ HasProgram
  /\ Tracked /\ age < Throttle => BuildWeekly(v) = v

\* Mutant: the throttle never ends.
ApplicableNever(v) ==
  /\ v.weekly
  /\ HasProgram
  /\ Tracked /\ age <= Throttle => BuildWeekly(v) = v

Applicable(v) ==
  /\ v.weekly
  /\ HasProgram
  /\ Tracked /\ age < Throttle => BuildWeekly(v) = v

W1Weekly ==
  /\ at[W1] = "idle"
  /\ ~countdown.armed
  /\ \E v \in Readable(W1) :
       Applicable(v) /\ next' = [next EXCEPT ![W1] = BuildWeekly(v)]
  /\ hist' = Met(hist, W1)
  /\ Go(W1, "compare")
  /\ UNCHANGED <<data, read>>

\* channelio_handle_runtime_channel_config: a schedule (s) or another
\* configuration (NoSchedule) arrives; then the schedule is applied.
Configure(s) ==
  /\ at[Conn] = "idle"
  /\ hist.configs < MaxConfigs /\ InputLeft
  /\ schedule' = IF Tracked /\ s # NoSchedule THEN s ELSE schedule
  /\ hist' = [Met(hist, Conn) EXCEPT !.configs = @ + 1,
                !.received = IF s # NoSchedule THEN s ELSE @]
  /\ Go(Conn, "apply")
  /\ UNCHANGED <<value, quarter, age, countdown, timer, held, task>>

ConnWeekly ==
  /\ at[Conn] = "apply"
  /\ \E v \in Readable(Conn) :
       IF Applicable(v)
       THEN /\ next' = [next EXCEPT ![Conn] = BuildWeekly(v)]
            /\ Go(Conn, "compare")
       ELSE /\ Go(Conn, "leave")
            /\ UNCHANGED next
  /\ UNCHANGED <<data, read, hist>>

\* channelio_reset_runtime_config_tracking, on every registration.
Register ==
  /\ at[Conn] = "idle"
  /\ hist.configs < MaxConfigs /\ InputLeft
  /\ schedule' = NoSchedule
  /\ age' = Throttle
  /\ hist' = [hist EXCEPT !.configs = @ + 1]
  /\ UNCHANGED <<value, quarter, countdown, timer, at, held, task>>
-----------------------------------------------------------------------------
(* channelio_iterate_hvac_countdown, by W1.                                *)

\* The time left has changed: the server is told.
Countdown ==
  /\ at[W1] = "idle"
  /\ countdown.armed /\ countdown.left > 0
  /\ countdown.sent # countdown.left
  /\ hist' = Met(hist, W1)
  /\ telling' = countdown.left
  /\ Go(W1, "tell")
  /\ UNCHANGED <<value, program, age, countdown, timer, request, held>>

TellLeft ==
  /\ at[W1] = "tell"
  /\ timer' = TRUE
  /\ countdown' = [countdown EXCEPT !.sent = telling]
  /\ telling' = 0
  /\ Go(W1, "leave")
  /\ UNCHANGED <<value, program, age, held, request, hist>>

Expire ==
  /\ at[W1] = "idle"
  /\ countdown.armed /\ countdown.left = 0
  /\ hist' = [Met(hist, W1) EXCEPT !.expiring = TRUE]
  /\ \E v \in Readable(W1) :
       next' = [next EXCEPT ![W1] =
         [IF countdown.restore # NoValue THEN countdown.restore ELSE v
            EXCEPT !.timer = FALSE]]
  /\ Go(W1, "clear")
  /\ UNCHANGED <<data, read>>
-----------------------------------------------------------------------------
(* client_device_channel::updateHvacState, by Mqtt.                        *)

Updated(v, u) ==
  [v EXCEPT !.mode = CASE u.on = "on" -> "heat"
                       [] u.on = "off" -> "off"
                       [] OTHER -> @,
            !.setpoint = IF u.setpoint # NoSetpoint THEN u.setpoint ELSE @]

UpdateHvacState(u) ==
  /\ at[Mqtt] = "idle"
  /\ hist.updates < MaxUpdates /\ InputLeft
  /\ hist' = [Met(hist, Mqtt) EXCEPT !.updates = @ + 1]
  /\ \E v \in Readable(Mqtt) : next' = [next EXCEPT ![Mqtt] = Updated(v, u)]
  /\ Go(Mqtt, "set")
  /\ UNCHANGED <<data, read>>
-----------------------------------------------------------------------------
(* The clock.                                                              *)

Tick ==
  /\ countdown.left > 0 \/ age < Throttle
  /\ countdown' = [countdown EXCEPT !.left = IF @ > 0 THEN @ - 1 ELSE 0]
  /\ age' = IF age < Throttle THEN age + 1 ELSE age
  /\ UNCHANGED <<value, program, timer, at, held, task, hist>>

NextQuarter(q) ==
  /\ q # quarter
  /\ quarter' = q
  /\ UNCHANGED <<value, schedule, age, countdown, timer, at, held, task,
                 hist>>
-----------------------------------------------------------------------------
Commit(t) == Compare(t) \/ Set(t) \/ Publish(t) \/ TellTimer(t) \/ End(t)

ConnStep ==
  \/ Cancel \/ Build \/ KeepRestore \/ Arm \/ ConnWeekly
  \/ Clear(Conn) \/ Commit(Conn)
W1Step ==
  \/ W1Weekly \/ Countdown \/ TellLeft \/ Expire
  \/ Clear(W1) \/ Commit(W1)
MqttStep == Set(Mqtt) \/ End(Mqtt)

Next ==
  \/ \E r \in Requests : Command(r)
  \/ \E s \in Schedules \cup {NoSchedule} : Configure(s)
  \/ Register
  \/ \E u \in Updates : UpdateHvacState(u)
  \/ ConnStep \/ W1Step \/ MqttStep
  \/ Tick \/ \E q \in Quarter : NextQuarter(q)

Spec == Init /\ [][Next]_vars

\* The threads run on and time passes.
LiveSpec ==
  /\ Spec
  /\ WF_vars(ConnStep) /\ WF_vars(W1Step) /\ WF_vars(MqttStep)
  /\ WF_vars(Tick)
-----------------------------------------------------------------------------
ClearStates == {"clear", "clear_available", "clear_sent", "clear_value"}
States == {"idle", "cancel", "build", "restore", "arm", "apply", "compare", "set",
           "publish", "timer", "tell", "leave"} \cup ClearStates
MaybeValue == HvacValue \cup {NoValue}

TypeOK ==
  /\ value \in HvacValue
  /\ schedule \in Schedules \cup {NoSchedule}
  /\ quarter \in Quarter
  /\ age \in 0 .. Throttle
  /\ countdown \in [armed : BOOLEAN, left : Nat, restore : MaybeValue,
                     sent : Nat]
  /\ timer \in BOOLEAN
  /\ at \in [Threads -> States]
  /\ read \in [Threads -> MaybeValue] /\ next \in [Threads -> MaybeValue]
  /\ request \in RequestType /\ telling \in Nat

Idle == \A t \in Threads : ~Busy(t)

\* The flags of a running countdown and of the weekly schedule exclude each
\* other, whatever threads overlap: no command, configuration, expiry or message
\* leaves a value that W1 would both count down and reprogram.
NeverBoth == ~(value.timer /\ value.weekly)

\* At rest, and if a plain command that met nobody has come after the last sections
\* that overlapped, the value has its timer flag exactly while a countdown runs, and
\* the server shows a timer at most while one does (channelio_set_hvac_value,
\* channelio_iterate_hvac_countdown).
TimerInStep ==
  Idle /\ ~hist.disturbed =>
    /\ value.timer = countdown.armed
    /\ timer => countdown.armed

\* A countdown ends with the value the channel had before the first of several
\* countdowns that followed one another, whatever the thermostat reported and
\* whichever commands came in between.
ExpiryRestores ==
  [][at[W1] = "set" /\ value' # value /\ hist.expiring /\ ~hist.disturbed
       => value' = hist.before]_vars

\* A program of the schedule replaces only a value that still follows the
\* schedule, and never within the throttle after a publication, except by a
\* section that overlapped another one: a manual command is not undone.
WeeklyCommit(t) ==
  at[t] = "set" /\ next[t].weekly /\ AfterCommit(t) = "leave" /\ t # Mqtt

ManualIsKept ==
  [][\A t \in {Conn, W1} :
       WeeklyCommit(t) /\ at'[t] # "set" =>
         hist.overlapped[t] \/ (value.weekly /\ (Tracked => age = Throttle))]_vars

\* Once the server has sent a schedule, a program that W1, a configuration or a
\* command to follow the schedule is about to apply is that of the quarter in the
\* last schedule sent.
Applying(t) ==
  \/ at[t] \in {"idle", "apply"}
  \/ at[t] = "cancel" /\ request.mode = "weekly"

Matches(v, p) ==
  CASE p = "off" -> v.mode = "off"
    [] p \in Setpoint -> v.mode = "heat" /\ v.setpoint = p
    [] OTHER -> TRUE

ProgramIsReceived ==
  [][\A t \in {Conn, W1} :
       /\ Applying(t) /\ at'[t] = "compare"
       /\ next'[t].weekly /\ next'[t] # value
       /\ hist.received # NoSchedule
       => Matches(next'[t], hist.received[quarter])]_vars

\* A channel that stays with its schedule, in a quarter that has a program,
\* ends up with the values of that program, the throttle notwithstanding.
ProgramApplied ==
  \A p \in Setpoint :
    <>[](value.weekly /\ CurrentProgram = p)
      => <>[](value.mode = "heat" /\ value.setpoint = p)

\* Every countdown ends.
CountdownEnds == countdown.armed ~> ~countdown.armed
==============================================================================
