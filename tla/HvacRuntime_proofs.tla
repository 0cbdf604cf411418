-------------------------- MODULE HvacRuntime_proofs --------------------------
(***************************************************************************)
(* Proofs about HvacRuntime, for every set of temperatures, schedules and  *)
(* requests and for every bound: what a thread holds stays a value of the  *)
(* channel that is not both timed and weekly, a program of the schedule    *)
(* that met no other thread finds the channel as it was read, and sections *)
(* that meet no other leave value, countdown and server in agreement.      *)
(***************************************************************************)
EXTENDS HvacRuntime, TLAPS

\* A value of the channel that does not count down and follow the schedule at once.
Sound(v) == v \in HvacValue /\ ~(v.timer /\ v.weekly)

History == [overlapped : [Threads -> BOOLEAN], disturbed : BOOLEAN,
            expiring : BOOLEAN, before : HvacValue,
            received : Schedules \cup {NoSchedule},
            commands : Nat, configs : Nat, updates : Nat]
HistoryOK == hist \in History

\* What the threads hold on their way.
HeldOK ==
  /\ \A t \in Threads : at[t] \in {"compare", "set"} => Sound(next[t])
  /\ at[Conn] \in {"cancel", "build", "restore", "arm"} \cup ClearStates =>
       read[Conn] \in HvacValue
  /\ \A t \in Threads : at[t] = "apply" => t = Conn
  /\ at[W1] \in ClearStates => Sound(next[W1]) /\ next[W1].timer = FALSE

\* The values of the channel and of the threads: what TypeCorrect and NeverBoth
\* rest on.
ValueInv == TypeOK /\ HistoryOK /\ HeldOK /\ Sound(value)

\* Two threads that are busy have met.
MetInv ==
  \A t, u \in Threads : t # u /\ Busy(t) /\ Busy(u) => hist.overlapped[t]

\* A program on its way in thread t: it is neither a command nor the end of a
\* countdown.
Weekly(t) == next[t].weekly /\ AfterCommit(t) = "leave" /\ t # Mqtt

\* As long as it has met nobody, the channel is as the thread has found it.
KeptBy(t) ==
  at[t] \in {"compare", "set"} /\ Weekly(t) /\ ~hist.overlapped[t] =>
    /\ value.weekly
    /\ Tracked /\ age < Throttle => next[t] = value
    /\ at[t] = "set" => next[t] # value

KeptInv ==
  /\ at[W1] \in ClearStates => hist.expiring
  /\ \A t \in Threads : KeptBy(t)

\* The value, the countdown and what the server shows of it go together.
Rest == value.timer = countdown.armed /\ (timer => countdown.armed)

\* How far the section of t is from leaving them so.
SectionOK(t) ==
  /\ at[t] \in {"restore", "arm", "apply", "tell", "leave"} => Rest
  /\ at[t] = "tell" => countdown.armed
  /\ at[t] \in ClearStates \ {"clear"} => ~countdown.armed
  /\ at[t] \in {"compare", "set"} => next[t].timer = countdown.armed
  /\ at[t] \in {"publish", "timer"} => value.timer = countdown.armed
  /\ at[t] \in {"compare", "set", "publish"} /\ AfterCommit(t) = "leave" => Rest

\* The section of t has met nobody and began at rest, or needs no rest: a plain
\* command puts all in order.
Clean(t) ==
  /\ Busy(t) /\ ~hist.overlapped[t]
  /\ hist.disturbed => t = Conn /\ read[Conn] # NoValue /\ request.time = 0

\* What Conn executes, and whether a countdown can run at all.  Only Conn starts one.
CommandInv ==
  /\ at[Conn] \in {"idle", "apply"} => read[Conn] = NoValue
  /\ at[Conn] \in {"restore", "arm"} => Timed(request)
  /\ at[Conn] \in {"cancel", "build"} \cup ClearStates => ~Timed(request)
  /\ at[Conn] \in {"build"} \cup (ClearStates \ {"clear"}) => ~countdown.armed
  /\ countdown.armed => Tracked

TimerInv ==
  /\ ~hist.disturbed => \A t \in Threads : ~(Busy(t) /\ hist.overlapped[t])
  /\ \A t \in Threads : Clean(t) => SectionOK(t)
  /\ Idle /\ ~hist.disturbed => Rest

\* A countdown restores the last value without one.
Restores == countdown.armed => countdown.restore = hist.before

\* A value to restore is there for a countdown, or on its way in or out.
Owned ==
  countdown.restore # NoValue =>
    \/ countdown.armed
    \/ at[Conn] \in {"arm", "clear_available"} \/ at[W1] = "clear_available"

RestoreOK(t) ==
  /\ ~(at[t] \in {"cancel", "clear"} /\ request.time = 0) => Restores
  /\ at[t] = "restore" => read[t] = value
  /\ at[t] = "arm" => countdown.restore = hist.before
  /\ t = W1 /\ hist.expiring /\ at[t] \in {"compare", "set"} \cup ClearStates =>
       next[t] = hist.before

RestoreInv ==
  /\ ~hist.before.timer /\ (~value.timer => value = hist.before)
  /\ Owned
  /\ at[W1] = "idle" => ~hist.expiring
  /\ \A t \in Threads : Clean(t) => RestoreOK(t)
  /\ Idle /\ ~hist.disturbed => Restores

IInv == ValueInv /\ MetInv /\ KeptInv /\ CommandInv /\ TimerInv /\ RestoreInv
-----------------------------------------------------------------------------
(* The values that are computed.                                           *)

LEMMA ProgramType ==
  ASSUME schedule \in Schedules \cup {NoSchedule}, quarter \in Quarter
  PROVE  CurrentProgram \in Program
BY HvacAssumption DEF CurrentProgram, Program

\* A program leaves the timer flag alone.
LEMMA BuildWeeklyType ==
  ASSUME schedule \in Schedules \cup {NoSchedule}, quarter \in Quarter,
         NEW v \in HvacValue
  PROVE  BuildWeekly(v) \in HvacValue /\ BuildWeekly(v).timer = v.timer
<1>1. CurrentProgram \in Setpoint \cup {"off", "none", "invalid"}
  BY ProgramType DEF Program
<1> QED BY <1>1 DEF BuildWeekly, HvacValue

LEMMA RequestedType ==
  ASSUME schedule \in Schedules \cup {NoSchedule}, quarter \in Quarter,
         NEW v \in HvacValue, NEW r \in RequestType
  PROVE  Requested(v, r) \in HvacValue
<1> DEFINE given == r.setpoint # NoSetpoint
           left  == IF given /\ v.weekly THEN Manual(v, "heat") ELSE v
           moded == IF r.mode = "turn_on" /\ v.weekly THEN BuildWeekly(left)
                    ELSE RequestedMode(left, r.mode)
<1>1. left \in HvacValue
  BY DEF Manual, HvacValue
<1>2. RequestedMode(left, r.mode) \in HvacValue
  <2> HIDE DEF left
  <2> QED BY <1>1 DEF RequestedMode, Manual, HvacValue
<1>3. moded \in HvacValue
  <2> HIDE DEF left
  <2> QED BY <1>1, <1>2, BuildWeeklyType
<1>4. (IF given THEN [moded EXCEPT !.setpoint = r.setpoint] ELSE moded) \in HvacValue
  <2> HIDE DEF moded
  <2> QED BY <1>3 DEF HvacValue, RequestType
<1>5. (IF HasProgram THEN BuildWeekly(v) ELSE [v EXCEPT !.weekly = TRUE, !.mode = "heat"])
        \in HvacValue
  BY BuildWeeklyType DEF HvacValue
<1> QED BY <1>4, <1>5 DEF Requested

\* A command leaves a value that is timed or follows the schedule.
LEMMA NextValueSound ==
  ASSUME schedule \in Schedules \cup {NoSchedule}, quarter \in Quarter,
         NEW v \in HvacValue, NEW r \in RequestType
  PROVE  Sound(NextValue(v, r))
<1>1. Requested(v, r) \in HvacValue
  BY RequestedType
<1> QED BY <1>1 DEF NextValue, Sound, HvacValue

LEMMA UpdatedSound ==
  ASSUME NEW v, Sound(v), NEW u \in UpdateType
  PROVE  Sound(Updated(v, u))
BY DEF Updated, Sound, HvacValue, UpdateType

\* What a section makes of the history.
LEMMA MetType ==
  ASSUME HistoryOK, NEW t \in Threads
  PROVE  /\ Met(hist, t) \in History
         /\ \A u \in Threads \ {t} :
              Met(hist, t).overlapped[u] = (hist.overlapped[u] \/ Busy(u))
         /\ Met(hist, t).overlapped[t] = (\E u \in Threads \ {t} : Busy(u))
BY DEF HistoryOK, History, Met

\* A value read in halves has the flags of one value.
LEMMA ReadableSound ==
  ASSUME ValueInv, NEW t \in Threads, NEW v \in Readable(t)
  PROVE  Sound(v)
<1>1. \A x, y : Sound(x) /\ Sound(y) => Sound(Torn(x, y))
  BY DEF Sound, Torn, HvacValue
<1>2. \A u \in Threads : at[u] = "set" => Sound(next[u])
  BY DEF ValueInv, HeldOK
<1> QED BY <1>1, <1>2 DEF ValueInv, Readable

\* A thread that is alone reads the value as it is.
LEMMA ReadableAlone ==
  ASSUME NEW t \in Threads, \A u \in Threads \ {t} : ~Busy(u), NEW v \in Readable(t)
  PROVE  v = value
BY DEF Readable, Busy

\* A section that will have met nobody reads the value as it is.
LEMMA ReadableUnmet ==
  ASSUME HistoryOK, NEW t \in Threads, NEW v \in Readable(t), ~Met(hist, t).overlapped[t]
  PROVE  v = value
BY MetType, ReadableAlone

\* A write of channelio_clear_hvac_countdown: the first ends the countdown, the second
\* takes the value to restore, and what the fourth writes is taken already, or there
\* is a new one.
LEMMA ClearStep ==
  ASSUME ValueInv, NEW t \in {Conn, W1}, Clear(t)
  PROVE  \E s \in (ClearStates \ {"clear"}) \cup {"compare", "build"} :
           /\ Go(t, s) /\ at[t] \in ClearStates
           /\ UNCHANGED <<value, schedule, quarter, age, timer, read, next, request, telling, hist>>
           /\ countdown' \in [armed : BOOLEAN, left : Nat, restore : MaybeValue, sent : Nat]
           /\ s = "compare" => t = W1
           /\ s = "build" => t = Conn
           /\ IF at[t] = "clear" THEN ~countdown'.armed /\ s = "clear_available"
              ELSE countdown'.armed = countdown.armed
           /\ countdown'.restore # NoValue =>
                countdown.restore # NoValue /\ at[t] # "clear_available"
<1> USE DEF Clearing, Go, program, held, task
<1>c. countdown \in [armed : BOOLEAN, left : Nat, restore : MaybeValue, sent : Nat]
  BY DEF ValueInv, TypeOK
<1>1. CASE ClearEnd(t)
  BY <1>1, <1>c DEF ClearEnd, ClearStates
<1>2. CASE ClearAvailable(t)
  BY <1>2, <1>c DEF ClearAvailable, ClearStates, MaybeValue
<1>3. CASE ClearSent(t)
  BY <1>3, <1>c DEF ClearSent, ClearStates
<1>4. CASE ClearValue(t)
  <2>1. Blank \subseteq MaybeValue
    BY DEF Blank, MaybeValue, HvacValue
  <2>2. /\ countdown' \in [armed : BOOLEAN, left : Nat, restore : MaybeValue, sent : Nat]
        /\ countdown'.armed = countdown.armed
        /\ countdown'.restore # NoValue => countdown.restore # NoValue
    BY <1>4, <1>c, <2>1 DEF ClearValue
  <2> DEFINE s == IF t = W1 THEN "compare" ELSE "build"
  <2>3. /\ at[t] = "clear_value" /\ Go(t, s)
        /\ UNCHANGED <<value, schedule, quarter, age, timer, read, next, request, telling, hist>>
    BY <1>4 DEF ClearValue
  <2>4. s \in {"compare", "build"} /\ (s = "compare" => t = W1) /\ (s = "build" => t = Conn)
    OBVIOUS
  <2> HIDE DEF s
  <2> QED BY <2>2, <2>3, <2>4 DEF ClearStates
<1> QED BY <1>1, <1>2, <1>3, <1>4 DEF Clear

LEMMA ConfiguredType ==
  ASSUME NEW h \in History, NEW s \in Schedules \cup {NoSchedule}
  PROVE  [h EXCEPT !.configs = @ + 1, !.received = s] \in History
<1>1. [h EXCEPT !.configs = @ + 1] \in History
  BY DEF History
<1>2. \A g \in History : [g EXCEPT !.received = s] \in History
  BY DEF History
<1>3. [h EXCEPT !.configs = @ + 1, !.received = s]
        = [[h EXCEPT !.configs = @ + 1] EXCEPT !.received = s]
  BY Zenon DEF History
<1> QED BY <1>1, <1>2, <1>3
-----------------------------------------------------------------------------
LEMMA Initial == Init => IInv
<1> SUFFICES ASSUME Init PROVE IInv
  OBVIOUS
<1>1. value \in HvacValue /\ value.timer = FALSE
  BY DEF Init, HvacValue, Blank
<1>2. countdown \in [armed : BOOLEAN, left : Nat, restore : MaybeValue, sent : Nat]
  BY DEF Init, NoCountdown, MaybeValue
<1>3. request \in RequestType
  BY HvacAssumption DEF Init, NoRequest, RequestType
<1>4. TypeOK
  <2>1. age \in 0 .. Throttle /\ telling \in Nat
    BY HvacAssumption DEF Init
  <2>2. /\ at \in [Threads -> States]
        /\ read \in [Threads -> MaybeValue] /\ next \in [Threads -> MaybeValue]
    BY DEF Init, States, MaybeValue
  <2>3. schedule \in Schedules \cup {NoSchedule} /\ quarter \in Quarter /\ timer \in BOOLEAN
    BY DEF Init
  <2> QED BY <1>1, <1>2, <1>3, <2>1, <2>2, <2>3 DEF TypeOK
<1>5. HistoryOK
  BY <1>1 DEF Init, HistoryOK, History
<1>6. HeldOK /\ MetInv /\ KeptInv
  BY DEF Init, HeldOK, MetInv, KeptInv, KeptBy, Busy, Threads, ClearStates
<1>7. CommandInv /\ TimerInv
  <2>1. CommandInv
    BY DEF Init, CommandInv, Threads, NoCountdown, ClearStates
  <2>2. TimerInv
    BY <1>1 DEF Init, TimerInv, Clean, Rest, Busy, Threads, NoCountdown
  <2> QED BY <2>1, <2>2
<1>8. RestoreInv
  BY <1>1 DEF Init, RestoreInv, Owned, Clean, Restores, Busy, Threads, NoCountdown
<1> QED BY <1>1, <1>4, <1>5, <1>6, <1>7, <1>8 DEF IInv, ValueInv, Sound

(* The values of the channel and of the threads.                           *)

LEMMA ValuesKept ==
  ASSUME ValueInv, [Next]_vars
  PROVE  ValueInv'
<1> USE DEF program, held, task, data, ClearStates
<1> USE HvacAssumption, MessageAssumption
<1>0. schedule \in Schedules \cup {NoSchedule} /\ quarter \in Quarter
  BY DEF ValueInv, TypeOK
<1>1. ASSUME NEW r \in Requests, Command(r) PROVE ValueInv'
  <2>1. r \in RequestType
    OBVIOUS
  <2>2. HistoryOK'
    <3>1. Met(hist, Conn) \in History
      BY MetType DEF ValueInv, Threads
    <3> QED BY <1>1, <3>1 DEF Command, HistoryOK, History
  <2>5. PICK v \in Readable(Conn) : read' = [read EXCEPT ![Conn] = v]
    BY <1>1 DEF Command
  <2>6. v \in HvacValue
    BY ReadableSound DEF Threads, Sound
  <2>3. TypeOK'
    BY <1>1, <2>1, <2>5, <2>6 DEF Command, ValueInv, TypeOK, Go, States, MaybeValue, Threads
  <2>4. HeldOK'
    BY <1>1, <2>5, <2>6 DEF Command, ValueInv, TypeOK, HeldOK, Go, Threads
  <2> QED BY <1>1, <2>2, <2>3, <2>4 DEF Command, ValueInv, Sound
<1>2. CASE Cancel
  <2>1. HistoryOK' /\ Sound(value)'
    BY <1>2 DEF Cancel, ValueInv, HistoryOK, Sound
  <2>2. TypeOK'
    BY <1>2 DEF Cancel, ValueInv, TypeOK, Go, States
  <2>3. HeldOK'
    BY <1>2 DEF Cancel, ValueInv, TypeOK, HeldOK, Go, Sound, Threads
  <2> QED BY <2>1, <2>2, <2>3 DEF ValueInv
<1>22. CASE Build
  <2>1. Sound(NextValue(read[Conn], request))
    BY <1>0, <1>22, NextValueSound DEF Build, ValueInv, HeldOK, TypeOK
  <2>2. HistoryOK'
    BY <1>22 DEF Build, ValueInv, HistoryOK
  <2>4. TypeOK'
    BY <1>22, <2>1 DEF Build, ValueInv, TypeOK, Go, States, MaybeValue, Threads, Sound
  <2>5. HeldOK'
    BY <1>22, <2>1 DEF Build, ValueInv, TypeOK, HeldOK, Go, Threads
  <2> QED BY <1>22, <2>2, <2>4, <2>5 DEF Build, ValueInv, Sound
<1>3. CASE KeepRestore
  <2>1. read[Conn] \in HvacValue /\ [read[Conn] EXCEPT !.timer = FALSE] \in HvacValue
    BY <1>3 DEF KeepRestore, ValueInv, HeldOK, HvacValue
  <2>2. HistoryOK'
    BY <1>3 DEF KeepRestore, ValueInv, HistoryOK
  <2>3. TypeOK'
    BY <1>3, <2>1 DEF KeepRestore, ValueInv, TypeOK, Go, States, MaybeValue, Threads
  <2>4. HeldOK'
    BY <1>3 DEF KeepRestore, ValueInv, TypeOK, HeldOK, Go, Threads
  <2> QED BY <1>3, <2>2, <2>3, <2>4 DEF KeepRestore, ValueInv, Sound
<1>4. CASE Arm
  <2>1. Sound(NextValue(read[Conn], request))
    BY <1>0, <1>4, NextValueSound DEF Arm, ValueInv, HeldOK, TypeOK
  <2>2. HistoryOK'
    BY <1>4 DEF Arm, ValueInv, HistoryOK
  <2>3. request.time \in Nat
    BY DEF ValueInv, TypeOK, RequestType
  <2>4. TypeOK'
    BY <1>4, <2>1, <2>3 DEF Arm, ValueInv, TypeOK, Go, States, MaybeValue, Threads, Sound
  <2>5. HeldOK'
    BY <1>4, <2>1 DEF Arm, ValueInv, TypeOK, HeldOK, Go, Threads
  <2> QED BY <1>4, <2>2, <2>4, <2>5 DEF Arm, ValueInv, Sound
<1>5. ASSUME NEW t \in Threads, Compare(t) PROVE ValueInv'
  <2>1. HistoryOK' /\ Sound(value)'
    BY <1>5 DEF Compare, ValueInv, HistoryOK, Sound
  <2>2. TypeOK'
    BY <1>5 DEF Compare, AfterCommit, ValueInv, TypeOK, Go, States
  <2>3. HeldOK'
    BY <1>5 DEF Compare, AfterCommit, ValueInv, TypeOK, HeldOK, Go, Sound, Threads
  <2> QED BY <2>1, <2>2, <2>3 DEF ValueInv
<1>6. ASSUME NEW t \in Threads, Set(t) PROVE ValueInv'
  <2>1. Sound(next[t])
    BY <1>6 DEF Set, ValueInv, HeldOK
  <2>2. HistoryOK' /\ Sound(value)'
    BY <1>6, <2>1 DEF Set, ValueInv, HistoryOK, History, Sound
  <2>3. TypeOK'
    BY <1>6, <2>1 DEF Set, ValueInv, TypeOK, Go, States, Sound
  <2>4. HeldOK'
    BY <1>6 DEF Set, ValueInv, TypeOK, HeldOK, Go, Sound, Threads
  <2> QED BY <2>2, <2>3, <2>4 DEF ValueInv
<1>7. ASSUME NEW t \in Threads, Publish(t) PROVE ValueInv'
  <2>1. HistoryOK' /\ Sound(value)'
    BY <1>7 DEF Publish, ValueInv, HistoryOK, Sound
  <2>2. TypeOK'
    BY <1>7 DEF Publish, AfterCommit, ValueInv, TypeOK, Go, States
  <2>3. HeldOK'
    BY <1>7 DEF Publish, AfterCommit, ValueInv, TypeOK, HeldOK, Go, Sound, Threads
  <2> QED BY <2>1, <2>2, <2>3 DEF ValueInv
<1>8. ASSUME NEW t \in Threads, TellTimer(t) PROVE ValueInv'
  <2>1. HistoryOK' /\ Sound(value)'
    BY <1>8 DEF TellTimer, ValueInv, HistoryOK, Sound
  <2>2. TypeOK'
    <3>1. countdown' \in [armed : BOOLEAN, left : Nat, restore : MaybeValue, sent : Nat]
      <4>1. CASE countdown' = [countdown EXCEPT !.sent = countdown.left]
        BY <4>1 DEF ValueInv, TypeOK
      <4>2. CASE UNCHANGED countdown
        BY <4>2 DEF ValueInv, TypeOK
      <4> QED BY <1>8, <4>1, <4>2 DEF TellTimer
    <3>2. timer' \in BOOLEAN
      <4>1. CASE timer' = (countdown.left > 0)
        <5>1. CASE countdown.left > 0
          BY <4>1, <5>1, Zenon
        <5>2. CASE ~(countdown.left > 0)
          <6>1. (countdown.left > 0) = FALSE
            BY <5>2
          <6> QED BY <4>1, <6>1, Zenon
        <5> QED BY <5>1, <5>2
      <4> QED BY <1>8, <4>1, Zenon DEF TellTimer
    <3> QED BY <1>8, <3>1, <3>2 DEF TellTimer, ValueInv, TypeOK, Go, States
  <2>3. HeldOK'
    BY <1>8 DEF TellTimer, ValueInv, TypeOK, HeldOK, Go, Sound, Threads
  <2> QED BY <2>1, <2>2, <2>3 DEF ValueInv
<1>9. ASSUME NEW t \in Threads, End(t) PROVE ValueInv'
  <2>1. Sound(value)'
    BY <1>9 DEF End, ValueInv, Sound
  <2>2. HistoryOK'
    BY <1>9 DEF End, ValueInv, HistoryOK, History
  <2>3. NoRequest \in RequestType
    BY DEF NoRequest, RequestType
  <2>4. TypeOK'
    BY <1>9, <2>3 DEF End, Leave, ValueInv, TypeOK, Go, States, MaybeValue
  <2>5. HeldOK'
    BY <1>9 DEF End, Leave, ValueInv, TypeOK, HeldOK, Go, Sound, Threads
  <2> QED BY <2>1, <2>2, <2>4, <2>5 DEF ValueInv
<1>10. CASE W1Weekly
  <2>0. PICK v \in Readable(W1) : Applicable(v) /\ next' = [next EXCEPT ![W1] = BuildWeekly(v)]
    BY <1>10 DEF W1Weekly
  <2>1. Sound(BuildWeekly(v))
    BY <1>0, <2>0, BuildWeeklyType, ReadableSound DEF Applicable, Sound, Threads
  <2>2. HistoryOK' /\ Sound(value)'
    <3>1. Met(hist, W1) \in History
      BY MetType DEF ValueInv, Threads
    <3> QED BY <1>10, <3>1 DEF W1Weekly, ValueInv, HistoryOK, History, Sound
  <2>3. TypeOK'
    BY <1>10, <2>0, <2>1 DEF W1Weekly, ValueInv, TypeOK, Go, States, MaybeValue, Threads, Sound
  <2>4. HeldOK'
    BY <1>10, <2>0, <2>1 DEF W1Weekly, ValueInv, TypeOK, HeldOK, Go, Sound, Threads
  <2> QED BY <2>2, <2>3, <2>4 DEF ValueInv
<1>11. ASSUME NEW s \in Schedules \cup {NoSchedule}, Configure(s) PROVE ValueInv'
  <2>1. HistoryOK' /\ Sound(value)'
    <3>1. Met(hist, Conn) \in History
      BY MetType DEF ValueInv, Threads
    <3>2. PICK r : hist' = [Met(hist, Conn) EXCEPT !.configs = @ + 1, !.received = r]
                   /\ (r = s \/ r = Met(hist, Conn).received)
      BY <1>11, Zenon DEF Configure
    <3>3. r \in Schedules \cup {NoSchedule}
      BY <3>1, <3>2 DEF History
    <3>4. hist' \in History
      BY <3>1, <3>2, <3>3, ConfiguredType
    <3> QED BY <1>11, <3>4 DEF Configure, ValueInv, HistoryOK, Sound
  <2>2. TypeOK'
    BY <1>11 DEF Configure, ValueInv, TypeOK, Go, States, MaybeValue, Threads
  <2>3. HeldOK'
    BY <1>11 DEF Configure, ValueInv, TypeOK, HeldOK, Go, Sound, Threads
  <2> QED BY <2>1, <2>2, <2>3 DEF ValueInv
<1>12. CASE ConnWeekly
  <2>0. PICK v \in Readable(Conn) :
          IF Applicable(v)
          THEN /\ next' = [next EXCEPT ![Conn] = BuildWeekly(v)]
               /\ Go(Conn, "compare")
          ELSE Go(Conn, "leave") /\ UNCHANGED next
    BY <1>12 DEF ConnWeekly
  <2>1. Applicable(v) => Sound(BuildWeekly(v))
    BY <1>0, BuildWeeklyType, ReadableSound DEF Applicable, Sound, Threads
  <2>2. HistoryOK' /\ Sound(value)'
    BY <1>12 DEF ConnWeekly, ValueInv, HistoryOK, Sound
  <2>5. UNCHANGED <<value, schedule, quarter, age, countdown, timer, read, request, telling>>
    BY <1>12 DEF ConnWeekly
  <2>3. TypeOK'
    BY <2>0, <2>1, <2>5 DEF ValueInv, TypeOK, Go, States, MaybeValue, Threads, Sound
  <2>4. HeldOK'
    BY <2>0, <2>1, <2>5 DEF ValueInv, TypeOK, HeldOK, Go, Sound, Threads
  <2> QED BY <2>2, <2>3, <2>4 DEF ValueInv
<1>13. CASE Register
  <2>1. HistoryOK' /\ Sound(value)'
    BY <1>13 DEF Register, ValueInv, HistoryOK, History, Sound
  <2>2. TypeOK' /\ HeldOK'
    BY <1>13 DEF Register, ValueInv, TypeOK, HeldOK, Sound
  <2> QED BY <2>1, <2>2 DEF ValueInv
<1>14. CASE Countdown
  <2>1. HistoryOK' /\ Sound(value)'
    <3>1. Met(hist, W1) \in History
      BY MetType DEF ValueInv, Threads
    <3> QED BY <1>14, <3>1 DEF Countdown, ValueInv, HistoryOK, History, Sound
  <2>2. TypeOK'
    BY <1>14 DEF Countdown, ValueInv, TypeOK, Go, States, Threads
  <2>3. HeldOK'
    BY <1>14 DEF Countdown, ValueInv, TypeOK, HeldOK, Go, Sound, Threads
  <2> QED BY <2>1, <2>2, <2>3 DEF ValueInv
<1>15. CASE TellLeft
  <2>1. HistoryOK' /\ Sound(value)'
    BY <1>15 DEF TellLeft, ValueInv, HistoryOK, Sound
  <2>2. TypeOK'
    BY <1>15 DEF TellLeft, ValueInv, TypeOK, Go, States
  <2>3. HeldOK'
    BY <1>15 DEF TellLeft, ValueInv, TypeOK, HeldOK, Go, Sound, Threads
  <2> QED BY <2>1, <2>2, <2>3 DEF ValueInv
<1>16. CASE Expire
  <2>0. PICK v \in Readable(W1) :
          next' = [next EXCEPT ![W1] =
            [IF countdown.restore # NoValue THEN countdown.restore ELSE v EXCEPT !.timer = FALSE]]
    BY <1>16 DEF Expire
  <2> DEFINE back == IF countdown.restore # NoValue THEN countdown.restore ELSE v
  <2>1. back \in HvacValue
    BY ReadableSound DEF ValueInv, TypeOK, MaybeValue, Sound, Threads
  <2>2. Sound([back EXCEPT !.timer = FALSE])
    <3> HIDE DEF back
    <3> QED BY <2>1 DEF Sound, HvacValue
  <2> HIDE DEF back
  <2>3. next' = [next EXCEPT ![W1] = [back EXCEPT !.timer = FALSE]]
    BY <2>0 DEF back
  <2>4. HistoryOK' /\ Sound(value)'
    <3>1. Met(hist, W1) \in History
      BY MetType DEF ValueInv, Threads
    <3> QED BY <1>16, <3>1 DEF Expire, ValueInv, HistoryOK, History, Sound
  <2>5. TypeOK'
    <3>1. next' \in [Threads -> MaybeValue]
      BY <2>2, <2>3 DEF ValueInv, TypeOK, MaybeValue, Sound
    <3>2. at' \in [Threads -> States]
      BY <1>16 DEF Expire, ValueInv, TypeOK, Go, States
    <3> QED BY <1>16, <3>1, <3>2 DEF Expire, ValueInv, TypeOK
  <2>6. HeldOK'
    <3>1. [back EXCEPT !.timer = FALSE].timer = FALSE
      BY <2>1 DEF HvacValue
    <3> QED BY <1>16, <2>2, <2>3, <3>1 DEF Expire, ValueInv, TypeOK, HeldOK, Go, Sound, Threads
  <2> QED BY <2>4, <2>5, <2>6 DEF ValueInv
<1>17. ASSUME NEW t \in {Conn, W1}, Clear(t) PROVE ValueInv'
  <2>1. PICK s \in (ClearStates \ {"clear"}) \cup {"compare", "build"} :
           /\ Go(t, s) /\ at[t] \in ClearStates
           /\ UNCHANGED <<value, schedule, quarter, age, timer, read, next, request, telling, hist>>
           /\ countdown' \in [armed : BOOLEAN, left : Nat, restore : MaybeValue, sent : Nat]
           /\ (s = "compare" => t = W1) /\ (s = "build" => t = Conn)
    BY <1>17, ClearStep
  <2>2. HistoryOK' /\ Sound(value)'
    BY <2>1 DEF ValueInv, HistoryOK, Sound
  <2>3. TypeOK'
    BY <2>1 DEF ValueInv, TypeOK, Go, States
  <2>4. HeldOK'
    BY <2>1 DEF ValueInv, TypeOK, HeldOK, Go, Sound, Threads
  <2> QED BY <2>2, <2>3, <2>4 DEF ValueInv
<1>18. ASSUME NEW u \in Updates, UpdateHvacState(u) PROVE ValueInv'
  <2>0. PICK v \in Readable(Mqtt) : next' = [next EXCEPT ![Mqtt] = Updated(v, u)]
    BY <1>18 DEF UpdateHvacState
  <2>1. Sound(Updated(v, u))
    BY UpdatedSound, ReadableSound DEF Threads
  <2>2. HistoryOK' /\ Sound(value)'
    <3>1. Met(hist, Mqtt) \in History
      BY MetType DEF ValueInv, Threads
    <3> QED BY <1>18, <3>1 DEF UpdateHvacState, ValueInv, HistoryOK, History, Sound
  <2>3. TypeOK'
    BY <1>18, <2>0, <2>1 DEF UpdateHvacState, ValueInv, TypeOK, Go, States, MaybeValue, Threads, Sound
  <2>4. HeldOK'
    BY <1>18, <2>0, <2>1 DEF UpdateHvacState, ValueInv, TypeOK, HeldOK, Go, Sound, Threads
  <2> QED BY <2>2, <2>3, <2>4 DEF ValueInv
<1>19. CASE Tick
  <2>1. HistoryOK' /\ Sound(value)'
    BY <1>19 DEF Tick, ValueInv, HistoryOK, Sound
  <2>2. TypeOK' /\ HeldOK'
    BY <1>19 DEF Tick, ValueInv, TypeOK, HeldOK, Sound
  <2> QED BY <2>1, <2>2 DEF ValueInv
<1>20. ASSUME NEW q \in Quarter, NextQuarter(q) PROVE ValueInv'
  BY <1>20 DEF NextQuarter, ValueInv, TypeOK, HistoryOK, HeldOK, Sound
<1>21. CASE UNCHANGED vars
  BY <1>21 DEF vars, ValueInv, TypeOK, HistoryOK, HeldOK, Sound
<1> QED
  BY <1>1, <1>2, <1>3, <1>4, <1>5, <1>6, <1>7, <1>8, <1>9, <1>10, <1>11, <1>12, <1>13,
     <1>14, <1>15, <1>16, <1>17, <1>18, <1>19, <1>20, <1>21, <1>22
  DEF Next, ConnStep, W1Step, MqttStep, Commit, Threads
-----------------------------------------------------------------------------
(* What has met nobody is kept.                                            *)

\* A section that begins notes that it met the busy threads, and they it.
LEMMA MetKept ==
  ASSUME ValueInv, MetInv, NEW t \in Threads, at[t] = "idle",
         hist'.overlapped = Met(hist, t).overlapped,
         \A u \in Threads \ {t} : at'[u] = at[u]
  PROVE  MetInv'
<1> SUFFICES ASSUME NEW u \in Threads, NEW w \in Threads, u # w, Busy(u)', Busy(w)'
             PROVE  Met(hist, t).overlapped[u]
  BY DEF MetInv
<1>1. CASE u = t
  BY <1>1, MetType DEF ValueInv, Busy
<1>2. CASE w = t
  BY <1>2, MetType DEF ValueInv, Busy
<1>3. CASE u # t /\ w # t
  BY <1>3, MetType DEF ValueInv, Busy, MetInv
<1> QED BY <1>1, <1>2, <1>3

\* A step within a section, or the end of one.
LEMMA StillMet ==
  ASSUME ValueInv, MetInv,
         \A t \in Threads : at'[t] # "idle" => at[t] # "idle"
                               /\ hist'.overlapped[t] = hist.overlapped[t]
  PROVE  MetInv'
BY DEF MetInv, Busy

\* Another thread has met t, or is idle.
LEMMA OthersKeep ==
  ASSUME ValueInv, MetInv, NEW t \in Threads, NEW u \in Threads, u # t,
         at'[u] = at[u],
         \/ hist'.overlapped = Met(hist, t).overlapped
         \/ Busy(t) /\ hist'.overlapped[u] = hist.overlapped[u]
  PROVE  KeptBy(u)'
<1>1. CASE Busy(u)
  <2>1. CASE hist'.overlapped = Met(hist, t).overlapped
    BY <1>1, <2>1, MetType DEF ValueInv, KeptBy
  <2>2. CASE Busy(t) /\ hist'.overlapped[u] = hist.overlapped[u]
    BY <1>1, <2>2 DEF MetInv, KeptBy
  <2> QED BY <2>1, <2>2
<1>2. CASE ~Busy(u)
  BY <1>2 DEF Busy, KeptBy
<1> QED BY <1>1, <1>2

\* A section of t begins at s.
LEMMA Entered ==
  ASSUME ValueInv, MetInv, KeptInv, NEW t \in Threads, NEW s,
         at[t] = "idle", Go(t, s),
         hist'.overlapped = Met(hist, t).overlapped,
         hist.expiring \/ s \in ClearStates => hist'.expiring,
         KeptBy(t)'
  PROVE  MetInv' /\ KeptInv'
<1>1. at' = [at EXCEPT ![t] = s] /\ at \in [Threads -> States]
  BY DEF Go, ValueInv, TypeOK
<1>2. \A u \in Threads \ {t} : at'[u] = at[u]
  BY <1>1
<1>3. MetInv'
  BY <1>2, MetKept
<1>4. \A u \in Threads \ {t} : KeptBy(u)'
  BY <1>2, OthersKeep
<1>5. at'[W1] \in ClearStates => hist'.expiring
  BY <1>1 DEF KeptInv, Threads
<1> QED BY <1>3, <1>4, <1>5 DEF KeptInv

\* The section of t goes on, or ends, at s.
LEMMA WentOn ==
  ASSUME ValueInv, MetInv, KeptInv, NEW t \in Threads, NEW s,
         Busy(t), Go(t, s), s \in ClearStates => t = Conn \/ hist.expiring,
         \A u \in Threads :
           (s = "idle" /\ u = t) \/ hist'.overlapped[u] = hist.overlapped[u],
         (t = W1 /\ s = "idle") \/ hist'.expiring = hist.expiring,
         KeptBy(t)'
  PROVE  MetInv' /\ KeptInv'
<1>1. at' = [at EXCEPT ![t] = s] /\ at \in [Threads -> States]
  BY DEF Go, ValueInv, TypeOK
<1>2. MetInv'
  BY <1>1 DEF MetInv, Busy
<1>3. \A u \in Threads \ {t} : KeptBy(u)'
  BY <1>1, OthersKeep
<1>4. at'[W1] \in ClearStates => hist'.expiring
  BY <1>1, HvacAssumption DEF KeptInv, Threads, ClearStates
<1> QED BY <1>2, <1>3, <1>4 DEF KeptInv

LEMMA ProgramsKept ==
  ASSUME ValueInv, MetInv, KeptInv, [Next]_vars
  PROVE  MetInv' /\ KeptInv'
<1> USE HvacAssumption DEF program, held, task, data, ClearStates
<1>0. \A t \in Threads : at'[t] \notin {"compare", "set"} => KeptBy(t)'
  BY DEF KeptBy
<1>a. {Conn, W1, Mqtt} \subseteq Threads /\ at \in [Threads -> States]
  BY DEF Threads, ValueInv, TypeOK
<1>1. ASSUME NEW r \in Requests, Command(r) PROVE MetInv' /\ KeptInv'
  <2> DEFINE s == IF Timed(r) THEN "restore" ELSE "cancel"
  <2>1. Go(Conn, s) /\ s \in {"restore", "cancel"} /\ at[Conn] = "idle"
    BY <1>1 DEF Command
  <2> HIDE DEF s
  <2>2. hist' = [Met(hist, Conn) EXCEPT !.commands = @ + 1] /\ Met(hist, Conn) \in History
    BY <1>1, <1>a, MetType DEF Command, ValueInv
  <2>3. hist'.overlapped = Met(hist, Conn).overlapped /\ hist'.expiring = hist.expiring
    BY <2>2 DEF History, Met, ValueInv, HistoryOK
  <2>4. KeptBy(Conn)'
    BY <1>0, <1>a, <2>1 DEF Go
  <2> QED BY <1>a, <2>1, <2>3, <2>4, Entered
<1>2. CASE Cancel
  <2>1. PICK s \in {"clear", "build"} : Go(Conn, s) /\ Busy(Conn) /\ UNCHANGED <<read, hist>>
    BY <1>2 DEF Cancel, Busy
  <2>2. KeptBy(Conn)'
    BY <1>0, <1>a, <2>1 DEF Go
  <2> QED BY <1>a, <2>1, <2>2, WentOn
<1>22. CASE Build
  <2>1. Go(Conn, "compare") /\ Busy(Conn) /\ UNCHANGED <<read, hist>>
    BY <1>22 DEF Build, Busy
  <2>2. read[Conn] # NoValue
    BY <1>22, NoValueAssumption DEF Build, ValueInv, HeldOK
  <2>3. KeptBy(Conn)'
    BY <1>a, <2>1, <2>2 DEF Go, KeptBy, Weekly, AfterCommit
  <2> QED BY <1>a, <2>1, <2>3, WentOn
<1>3. CASE KeepRestore
  <2>1. Go(Conn, "arm") /\ Busy(Conn) /\ UNCHANGED hist
    BY <1>3 DEF KeepRestore, Busy
  <2>2. KeptBy(Conn)'
    BY <1>0, <1>a, <2>1 DEF Go
  <2> QED BY <1>a, <2>1, <2>2, WentOn
<1>4. CASE Arm
  <2>1. Go(Conn, "compare") /\ Busy(Conn) /\ UNCHANGED <<read, hist>>
    BY <1>4 DEF Arm, Busy
  <2>2. read[Conn] # NoValue
    BY <1>4, NoValueAssumption DEF Arm, ValueInv, HeldOK
  <2>3. KeptBy(Conn)'
    BY <1>a, <2>1, <2>2 DEF Go, KeptBy, Weekly, AfterCommit
  <2> QED BY <1>a, <2>1, <2>3, WentOn
<1>5. ASSUME NEW t \in Threads, Compare(t) PROVE MetInv' /\ KeptInv'
  <2>0. PICK v \in Readable(t) : Go(t, IF v = next[t] THEN AfterCommit(t) ELSE "set")
    BY <1>5 DEF Compare
  <2> DEFINE s == IF v = next[t] THEN AfterCommit(t) ELSE "set"
  <2>1. Go(t, s) /\ Busy(t) /\ UNCHANGED <<data, held, hist>> /\ at[t] = "compare"
    BY <1>5, <2>0 DEF Compare, Busy
  <2>2. s \notin ClearStates \cup {"idle"}
    BY DEF AfterCommit
  <2>3. at'[t] = s
    BY <1>a, <2>1 DEF Go
  <2>5. ~hist.overlapped[t] => v = value
    BY <2>1, ReadableAlone DEF MetInv
  <2>4. KeptBy(t)'
    BY <2>1, <2>3, <2>5 DEF KeptInv, KeptBy, Weekly, AfterCommit
  <2> HIDE DEF s
  <2> QED BY <1>a, <2>1, <2>2, <2>4, WentOn
<1>6. ASSUME NEW t \in Threads, Set(t) PROVE MetInv' /\ KeptInv'
  <2> DEFINE s == IF t = Mqtt THEN "leave" ELSE "publish"
  <2>1. Go(t, s) /\ Busy(t) /\ s \notin ClearStates \cup {"compare", "set", "idle"}
    BY <1>6 DEF Set, Busy
  <2> HIDE DEF s
  <2>2. hist'.overlapped = hist.overlapped /\ hist'.expiring = hist.expiring
    BY <1>6 DEF Set, ValueInv, HistoryOK, History
  <2>3. KeptBy(t)'
    BY <1>0, <1>a, <2>1 DEF Go
  <2> QED BY <1>a, <2>1, <2>2, <2>3, WentOn
<1>7. ASSUME NEW t \in Threads, Publish(t) PROVE MetInv' /\ KeptInv'
  <2> DEFINE s == AfterCommit(t)
  <2>1. Go(t, s) /\ Busy(t) /\ s \notin ClearStates \cup {"compare", "set", "idle"} /\ UNCHANGED hist
    BY <1>7 DEF Publish, Busy, AfterCommit
  <2> HIDE DEF s
  <2>2. KeptBy(t)'
    BY <1>0, <1>a, <2>1 DEF Go
  <2> QED BY <1>a, <2>1, <2>2, WentOn
<1>8. ASSUME NEW t \in Threads, TellTimer(t) PROVE MetInv' /\ KeptInv'
  <2>1. Go(t, "leave") /\ Busy(t) /\ UNCHANGED hist
    BY <1>8 DEF TellTimer, Busy
  <2>2. KeptBy(t)'
    BY <1>0, <1>a, <2>1 DEF Go
  <2> QED BY <1>a, <2>1, <2>2, WentOn
<1>9. ASSUME NEW t \in Threads, End(t) PROVE MetInv' /\ KeptInv'
  <2>1. Go(t, "idle") /\ Busy(t)
    BY <1>9 DEF End, Leave, Busy
  <2>2. /\ hist'.overlapped = [hist.overlapped EXCEPT ![t] = FALSE]
        /\ hist'.expiring = (hist.expiring /\ t # W1)
    BY <1>9 DEF End, ValueInv, HistoryOK, History
  <2>3. /\ \A u \in Threads : u = t \/ hist'.overlapped[u] = hist.overlapped[u]
        /\ t = W1 \/ hist'.expiring = hist.expiring
    BY <2>2 DEF ValueInv, HistoryOK, History
  <2>4. KeptBy(t)'
    BY <1>0, <1>a, <2>1 DEF Go
  <2> QED BY <1>a, <2>1, <2>3, <2>4, WentOn
<1>10. CASE W1Weekly
  <2>1. Go(W1, "compare") /\ at[W1] = "idle" /\ hist' = Met(hist, W1)
    BY <1>10 DEF W1Weekly
  <2>2. hist'.expiring = hist.expiring
    BY <2>1 DEF Met, ValueInv, HistoryOK, History
  <2>0. PICK v \in Readable(W1) : Applicable(v) /\ next' = [next EXCEPT ![W1] = BuildWeekly(v)]
    BY <1>10 DEF W1Weekly
  <2>4. ~hist'.overlapped[W1] => v = value
    BY <1>a, <2>1, ReadableUnmet DEF ValueInv
  <2>5. UNCHANGED <<value, age>>
    BY <1>10 DEF W1Weekly
  <2>3. KeptBy(W1)'
    BY <1>a, <2>0, <2>1, <2>4, <2>5 DEF Applicable, Go, KeptBy, ValueInv, TypeOK
  <2> QED BY <1>a, <2>1, <2>2, <2>3, Entered
<1>11. ASSUME NEW s \in Schedules \cup {NoSchedule}, Configure(s) PROVE MetInv' /\ KeptInv'
  <2>1. Go(Conn, "apply") /\ at[Conn] = "idle"
    BY <1>11 DEF Configure
  <2>2. hist'.overlapped = Met(hist, Conn).overlapped /\ hist'.expiring = hist.expiring
    BY <1>11 DEF Configure, Met, ValueInv, HistoryOK, History
  <2>3. KeptBy(Conn)'
    BY <1>0, <1>a, <2>1 DEF Go
  <2> QED BY <1>a, <2>1, <2>2, <2>3, Entered
<1>12. CASE ConnWeekly
  <2>1. Busy(Conn) /\ UNCHANGED <<data, read, hist>>
    BY <1>12 DEF ConnWeekly, Busy
  <2>0. PICK v \in Readable(Conn) :
          IF Applicable(v)
          THEN /\ next' = [next EXCEPT ![Conn] = BuildWeekly(v)]
               /\ Go(Conn, "compare")
          ELSE Go(Conn, "leave") /\ UNCHANGED next
    BY <1>12 DEF ConnWeekly
  <2>2. CASE Applicable(v)
    <3>1. Go(Conn, "compare") /\ next' = [next EXCEPT ![Conn] = BuildWeekly(v)]
      BY <2>0, <2>2
    <3>3. ~hist.overlapped[Conn] => v = value
      BY <1>a, <2>1, ReadableAlone DEF MetInv
    <3>2. KeptBy(Conn)'
      BY <1>a, <2>1, <2>2, <3>1, <3>3 DEF Applicable, Go, KeptBy, ValueInv, TypeOK
    <3> QED BY <1>a, <2>1, <3>1, <3>2, WentOn
  <2>3. CASE ~Applicable(v)
    <3>1. Go(Conn, "leave")
      BY <2>0, <2>3
    <3>2. KeptBy(Conn)'
      BY <1>0, <1>a, <3>1 DEF Go
    <3> QED BY <1>a, <2>1, <3>1, <3>2, WentOn
  <2> QED BY <2>2, <2>3
<1>13. CASE Register
  <2>1. /\ UNCHANGED <<at, value>> /\ age' = Throttle
        /\ hist'.overlapped = hist.overlapped /\ hist'.expiring = hist.expiring
        /\ UNCHANGED <<read, next>>
    BY <1>13 DEF Register, ValueInv, HistoryOK, History
  <2>2. ~(age' < Throttle)
    BY <2>1
  <2> QED BY <2>1, <2>2 DEF MetInv, KeptInv, KeptBy, Weekly, AfterCommit, Busy
<1>14. CASE Countdown
  <2>1. Go(W1, "tell") /\ at[W1] = "idle" /\ hist' = Met(hist, W1)
    BY <1>14 DEF Countdown
  <2>2. hist'.expiring = hist.expiring
    BY <2>1 DEF Met, ValueInv, HistoryOK, History
  <2>3. KeptBy(W1)'
    BY <1>0, <1>a, <2>1 DEF Go
  <2> QED BY <1>a, <2>1, <2>2, <2>3, Entered
<1>15. CASE TellLeft
  <2>1. Go(W1, "leave") /\ Busy(W1) /\ UNCHANGED hist
    BY <1>15 DEF TellLeft, Busy
  <2>2. KeptBy(W1)'
    BY <1>0, <1>a, <2>1 DEF Go
  <2> QED BY <1>a, <2>1, <2>2, WentOn
<1>16. CASE Expire
  <2>1. Go(W1, "clear") /\ at[W1] = "idle"
    BY <1>16 DEF Expire
  <2>2. hist' = [Met(hist, W1) EXCEPT !.expiring = TRUE] /\ Met(hist, W1) \in History
    BY <1>16, <1>a, MetType DEF Expire, ValueInv
  <2>3. hist'.overlapped = Met(hist, W1).overlapped /\ hist'.expiring
    BY <2>2 DEF History
  <2>4. KeptBy(W1)'
    BY <1>0, <1>a, <2>1 DEF Go
  <2> QED BY <1>a, <2>1, <2>3, <2>4, Entered
<1>17. ASSUME NEW t \in {Conn, W1}, Clear(t) PROVE MetInv' /\ KeptInv'
  <2>1. PICK s \in (ClearStates \ {"clear"}) \cup {"compare", "build"} :
           /\ Go(t, s) /\ at[t] \in ClearStates
           /\ UNCHANGED <<read, next, hist>>
           /\ (s = "compare" => t = W1) /\ (s = "build" => t = Conn)
    BY <1>17, ClearStep
  <2>2. Busy(t) /\ (t = W1 => hist.expiring)
    BY <2>1 DEF Busy, KeptInv
  <2>3. at'[t] = s
    BY <1>a, <2>1 DEF Go
  <2>4. KeptBy(t)'
    BY <1>0, <1>a, <2>1, <2>2, <2>3 DEF KeptBy, Weekly, AfterCommit
  <2> QED BY <1>a, <2>1, <2>2, <2>4, WentOn
<1>18. ASSUME NEW u \in Updates, UpdateHvacState(u) PROVE MetInv' /\ KeptInv'
  <2>1. Go(Mqtt, "set") /\ at[Mqtt] = "idle"
    BY <1>18 DEF UpdateHvacState
  <2>2. hist'.overlapped = Met(hist, Mqtt).overlapped /\ hist'.expiring = hist.expiring
    BY <1>18 DEF UpdateHvacState, Met, ValueInv, HistoryOK, History
  <2>3. KeptBy(Mqtt)'
    BY DEF KeptBy, Weekly
  <2> QED BY <1>a, <2>1, <2>2, <2>3, Entered
<1>19. CASE Tick
  <2>1. UNCHANGED <<value, at, read, next, hist>>
    BY <1>19 DEF Tick
  <2>2. age' < Throttle => age < Throttle
    BY <1>19 DEF Tick, ValueInv, TypeOK
  <2> QED BY <2>1, <2>2 DEF MetInv, KeptInv, KeptBy, Weekly, AfterCommit, Busy
<1>20. ASSUME NEW q \in Quarter, NextQuarter(q) PROVE MetInv' /\ KeptInv'
  BY <1>20 DEF NextQuarter, MetInv, KeptInv, KeptBy, Weekly, AfterCommit, Busy
<1>21. CASE UNCHANGED vars
  BY <1>21 DEF vars, MetInv, KeptInv, KeptBy, Weekly, AfterCommit, Busy
<1> QED
  BY <1>1, <1>2, <1>3, <1>4, <1>5, <1>6, <1>7, <1>8, <1>9, <1>10, <1>11, <1>12, <1>13,
     <1>14, <1>15, <1>16, <1>17, <1>18, <1>19, <1>20, <1>21, <1>22
  DEF Next, ConnStep, W1Step, MqttStep, Commit, Threads
-----------------------------------------------------------------------------
(* The countdown, the flag of the value and the timer the server shows.    *)

LEMMA CommandKept ==
  ASSUME ValueInv, CommandInv, [Next]_vars
  PROVE  CommandInv'
<1> USE HvacAssumption DEF program, held, task, data, ClearStates
<1>a. {Conn, W1, Mqtt} \subseteq Threads /\ at \in [Threads -> States] /\ W1 # Conn /\ Mqtt # Conn
      /\ read \in [Threads -> MaybeValue] /\ next \in [Threads -> MaybeValue]
      /\ countdown \in [armed : BOOLEAN, left : Nat, restore : MaybeValue, sent : Nat]
  BY DEF Threads, ValueInv, TypeOK
\* Steps of the other threads, and those of Conn within a section.
<1>b. ASSUME \/ at'[Conn] = at[Conn] /\ UNCHANGED request
             \/ at'[Conn] \in {"compare", "set", "publish", "timer", "leave"},
             at'[Conn] \in {"idle", "apply"} => UNCHANGED read \/ read'[Conn] = read[Conn],
             countdown'.armed => countdown.armed
      PROVE  CommandInv'
  BY <1>b DEF CommandInv, Timed
<1>1. ASSUME NEW r \in Requests, Command(r) PROVE CommandInv'
  BY <1>a, <1>1 DEF Command, Go, CommandInv, Timed
<1>2. CASE Cancel
  <2>1. request.time \in Nat /\ countdown.armed \in BOOLEAN
    BY DEF ValueInv, TypeOK, RequestType
  <2>2. ~Timed(request) /\ (countdown.armed => Tracked)
    BY <1>2 DEF Cancel, CommandInv
  <2>3. \/ at'[Conn] = "clear"
        \/ at'[Conn] = "build" /\ ~countdown.armed
    BY <1>a, <1>2, <2>1, <2>2 DEF Cancel, Go, Timed
  <2> QED BY <1>2, <2>2, <2>3 DEF Cancel, CommandInv, Timed
<1>22. CASE Build
  BY <1>a, <1>b, <1>22 DEF Build, Go
<1>3. CASE KeepRestore
  BY <1>a, <1>3 DEF KeepRestore, Go, CommandInv, Timed
<1>4. CASE Arm
  BY <1>a, <1>4 DEF Arm, Go, CommandInv, Timed
<1>5. ASSUME NEW t \in Threads, Compare(t) PROVE CommandInv'
  <2>1. at'[Conn] = at[Conn] \/ at'[Conn] \in {"set", "timer", "leave"}
    BY <1>a, <1>5 DEF Compare, Go, AfterCommit
  <2> QED BY <1>b, <1>5, <2>1 DEF Compare
<1>6. ASSUME NEW t \in Threads, Set(t) PROVE CommandInv'
  <2>1. at'[Conn] = at[Conn] \/ at'[Conn] \in {"publish", "leave"}
    BY <1>a, <1>6 DEF Set, Go
  <2> QED BY <1>b, <1>6, <2>1 DEF Set
<1>7. ASSUME NEW t \in Threads, Publish(t) PROVE CommandInv'
  <2>1. at'[Conn] = at[Conn] \/ at'[Conn] \in {"timer", "leave"}
    BY <1>a, <1>7 DEF Publish, Go, AfterCommit
  <2> QED BY <1>b, <1>7, <2>1 DEF Publish
<1>8. ASSUME NEW t \in Threads, TellTimer(t) PROVE CommandInv'
  <2>1. at'[Conn] = at[Conn] \/ at'[Conn] = "leave"
    BY <1>a, <1>8 DEF TellTimer, Go
  <2>2. countdown'.armed = countdown.armed
    BY <1>a, <1>8 DEF TellTimer
  <2> QED BY <1>b, <1>8, <2>1, <2>2 DEF TellTimer
<1>9. ASSUME NEW t \in Threads, End(t) PROVE CommandInv'
  <2>1. CASE t = Conn
    BY <1>a, <1>9, <2>1 DEF End, Leave, Go, CommandInv
  <2>2. CASE t # Conn
    BY <1>a, <1>9, <2>2 DEF End, Leave, Go, CommandInv
  <2> QED BY <2>1, <2>2
<1>10. CASE W1Weekly
  BY <1>a, <1>b, <1>10 DEF W1Weekly, Go
<1>11. ASSUME NEW s \in Schedules \cup {NoSchedule}, Configure(s) PROVE CommandInv'
  BY <1>a, <1>11 DEF Configure, Go, CommandInv
<1>12. CASE ConnWeekly
  BY <1>a, <1>b, <1>12 DEF ConnWeekly, Go
<1>13. CASE Register
  BY <1>13 DEF Register, CommandInv
<1>14. CASE Countdown
  BY <1>a, <1>b, <1>14 DEF Countdown, Go
<1>15. CASE TellLeft
  BY <1>a, <1>b, <1>15 DEF TellLeft, Go
<1>16. CASE Expire
  BY <1>a, <1>b, <1>16 DEF Expire, Go
<1>17. ASSUME NEW t \in {Conn, W1}, Clear(t) PROVE CommandInv'
  <2>1. PICK s \in (ClearStates \ {"clear"}) \cup {"compare", "build"} :
           /\ Go(t, s) /\ at[t] \in ClearStates /\ UNCHANGED <<read, request>>
           /\ (s = "compare" => t = W1) /\ (s = "build" => t = Conn)
           /\ IF at[t] = "clear" THEN ~countdown'.armed ELSE countdown'.armed = countdown.armed
    BY <1>17, ClearStep
  <2>2. CASE t = Conn
    <3>1. at'[Conn] = s /\ ~Timed(request) /\ ~countdown'.armed
      BY <1>a, <2>1, <2>2 DEF Go, CommandInv
    <3> QED BY <2>1, <2>2, <3>1 DEF CommandInv, Timed
  <2>3. CASE t = W1
    <3>1. at'[Conn] = at[Conn] /\ (countdown'.armed => countdown.armed)
      BY <1>a, <2>1, <2>3 DEF Go
    <3> QED BY <1>b, <2>1, <3>1
  <2> QED BY <2>2, <2>3
<1>18. ASSUME NEW u \in Updates, UpdateHvacState(u) PROVE CommandInv'
  BY <1>a, <1>b, <1>18 DEF UpdateHvacState, Go
<1>19. CASE Tick
  <2>1. countdown'.armed = countdown.armed
    BY <1>a, <1>19 DEF Tick
  <2> QED BY <1>b, <1>19, <2>1 DEF Tick
<1>20. ASSUME NEW q \in Quarter, NextQuarter(q) PROVE CommandInv'
  BY <1>20 DEF NextQuarter, CommandInv
<1>21. CASE UNCHANGED vars
  BY <1>21 DEF vars, CommandInv
<1> QED
  BY <1>1, <1>2, <1>3, <1>4, <1>5, <1>6, <1>7, <1>8, <1>9, <1>10, <1>11, <1>12, <1>13,
     <1>14, <1>15, <1>16, <1>17, <1>18, <1>19, <1>20, <1>21, <1>22
  DEF Next, ConnStep, W1Step, MqttStep, Commit, Threads

\* A section that begins at s finds all at rest, unless something was disturbed.
LEMMA TimerEntered ==
  ASSUME ValueInv, MetInv, TimerInv, NEW t \in Threads, NEW s, s # "idle",
         at[t] = "idle", Go(t, s),
         hist'.overlapped = Met(hist, t).overlapped,
         hist'.disturbed = Met(hist, t).disturbed,
         Rest \/ hist'.disturbed => (Clean(t)' => SectionOK(t)')
  PROVE  TimerInv'
<1>1. at' = [at EXCEPT ![t] = s] /\ at \in [Threads -> States]
  BY DEF Go, ValueInv, TypeOK
<1>2. hist'.disturbed = (hist.disturbed \/ \E u \in Threads \ {t} : Busy(u))
  BY DEF Met, ValueInv, HistoryOK, History
<1>3. /\ \A u \in Threads \ {t} : hist'.overlapped[u] = (hist.overlapped[u] \/ Busy(u))
      /\ hist'.overlapped[t] = (\E u \in Threads \ {t} : Busy(u))
  <2>1. /\ \A u \in Threads \ {t} :
             Met(hist, t).overlapped[u] = (hist.overlapped[u] \/ Busy(u))
        /\ Met(hist, t).overlapped[t] = (\E u \in Threads \ {t} : Busy(u))
    BY MetType DEF ValueInv
  <2> QED BY <2>1, Zenon
<1>4. Busy(t)' /\ \A u \in Threads \ {t} : Busy(u)' <=> Busy(u)
  BY <1>1 DEF Busy
<1>5. \A u \in Threads \ {t} : ~Clean(u)'
  BY <1>3, <1>4 DEF Clean
<1>6. ~hist'.disturbed => Rest
  BY <1>2 DEF TimerInv, Idle, Busy
<1>7. ~hist'.disturbed => \A u \in Threads : ~(Busy(u)' /\ hist'.overlapped[u])
  BY <1>2, <1>3, <1>4
<1>8. ~Idle'
  BY <1>4 DEF Idle
<1> QED BY <1>5, <1>6, <1>7, <1>8 DEF TimerInv

\* The section of t goes on at s.
LEMMA TimerWentOn ==
  ASSUME ValueInv, MetInv, TimerInv, NEW t \in Threads, NEW s, s # "idle",
         Busy(t), Go(t, s), UNCHANGED <<read, request>>,
         hist'.overlapped = hist.overlapped, hist'.disturbed = hist.disturbed,
         Clean(t) /\ SectionOK(t) => SectionOK(t)'
  PROVE  TimerInv'
<1>1. at' = [at EXCEPT ![t] = s] /\ at \in [Threads -> States]
  BY DEF Go, ValueInv, TypeOK
<1>2. \A u \in Threads : Busy(u)' <=> Busy(u)
  BY <1>1 DEF Busy
<1>3. \A u \in Threads : Clean(u)' <=> Clean(u)
  BY <1>2 DEF Clean
<1>4. \A u \in Threads \ {t} : ~Clean(u)
  BY DEF Clean, MetInv
<1>5. ~Idle'
  BY <1>2 DEF Idle
<1>6. Clean(t)' => SectionOK(t)'
  BY <1>3 DEF TimerInv
<1> QED BY <1>2, <1>3, <1>4, <1>5, <1>6 DEF TimerInv

LEMMA TimerKept ==
  ASSUME ValueInv, MetInv, CommandInv, KeptInv, TimerInv, [Next]_vars
  PROVE  TimerInv'
<1> USE HvacAssumption DEF program, held, task, data, ClearStates
<1>a. {Conn, W1, Mqtt} \subseteq Threads /\ at \in [Threads -> States] /\ hist \in History
      /\ read \in [Threads -> MaybeValue] /\ next \in [Threads -> MaybeValue]
      /\ countdown \in [armed : BOOLEAN, left : Nat, restore : MaybeValue, sent : Nat]
      /\ value \in HvacValue /\ timer \in BOOLEAN /\ request \in RequestType
      /\ schedule \in Schedules \cup {NoSchedule} /\ quarter \in Quarter
  BY DEF Threads, ValueInv, TypeOK, HistoryOK
<1>1. ASSUME NEW r \in Requests, Command(r) PROVE TimerInv'
  <2> DEFINE s == IF Timed(r) THEN "restore" ELSE "cancel"
  <2>1. Go(Conn, s) /\ s \in {"restore", "cancel"} /\ at[Conn] = "idle"
        /\ UNCHANGED <<value, countdown, timer>> /\ request' = r
    BY <1>1 DEF Command
  <2>2. hist' = [Met(hist, Conn) EXCEPT !.commands = @ + 1] /\ Met(hist, Conn) \in History
    BY <1>1, <1>a, MetType DEF Command, ValueInv
  <2>3. hist'.overlapped = Met(hist, Conn).overlapped /\ hist'.disturbed = Met(hist, Conn).disturbed
    BY <2>2 DEF History
  <2>4. at'[Conn] = s
    BY <1>a, <2>1 DEF Go
  <2>6. s = "restore" => r.time # 0
    BY <1>1 DEF s, Timed
  <2> HIDE DEF s
  <2>5. Rest \/ hist'.disturbed => (Clean(Conn)' => SectionOK(Conn)')
    <3>1. CASE Rest
      BY <2>1, <2>4, <3>1 DEF SectionOK, Rest
    <3>2. CASE hist'.disturbed
      BY <2>1, <2>4, <2>6, <3>2 DEF SectionOK, Clean
    <3> QED BY <3>1, <3>2
  <2> QED BY <1>a, <2>1, <2>3, <2>5, TimerEntered
<1>2. CASE Cancel
  <2>1. PICK s \in {"clear", "build"} :
          Go(Conn, s) /\ Busy(Conn) /\ UNCHANGED <<read, request, hist>>
    BY <1>2 DEF Cancel, Busy
  <2>2. at'[Conn] = s
    BY <1>a, <2>1 DEF Go
  <2>3. SectionOK(Conn)'
    BY <2>2 DEF SectionOK
  <2> QED BY <1>a, <2>1, <2>3, TimerWentOn
<1>22. CASE Build
  <2>1. Go(Conn, "compare") /\ Busy(Conn) /\ at[Conn] = "build"
        /\ UNCHANGED <<value, countdown, timer, read, request, hist>>
    BY <1>22 DEF Build, Busy
  <2>2. read[Conn] # NoValue /\ read[Conn] \in HvacValue
    BY <2>1, NoValueAssumption DEF ValueInv, HeldOK
  <2>3. at'[Conn] = "compare" /\ next'[Conn] = NextValue(read[Conn], request)
    BY <1>22, <1>a DEF Build, Go
  <2>4. NextValue(read[Conn], request).timer = FALSE
    <3>1. Requested(read[Conn], request) \in HvacValue
      BY <1>a, <2>2, RequestedType
    <3> QED BY <2>1, <3>1 DEF NextValue, CommandInv, HvacValue
  <2>5. countdown'.armed = FALSE
    BY <1>a, <2>1 DEF CommandInv
  <2>6. SectionOK(Conn)'
    BY <2>1, <2>2, <2>3, <2>4, <2>5 DEF SectionOK, AfterCommit
  <2> QED BY <1>a, <2>1, <2>6, TimerWentOn
<1>3. CASE KeepRestore
  <2>1. Go(Conn, "arm") /\ Busy(Conn) /\ at[Conn] = "restore"
        /\ UNCHANGED <<value, timer, read, next, request, hist>>
    BY <1>3 DEF KeepRestore, Busy
  <2>2. at'[Conn] = "arm" /\ countdown'.armed = countdown.armed
    BY <1>3, <1>a DEF KeepRestore, Go
  <2>3. SectionOK(Conn) => SectionOK(Conn)'
    BY <2>1, <2>2 DEF SectionOK, Rest
  <2> QED BY <1>a, <2>1, <2>3, TimerWentOn
<1>4. CASE Arm
  <2>1. Go(Conn, "compare") /\ Busy(Conn) /\ at[Conn] = "arm"
        /\ UNCHANGED <<value, timer, read, request, hist>>
    BY <1>4 DEF Arm, Busy
  <2>2. read[Conn] # NoValue /\ read[Conn] \in HvacValue
    BY <2>1, NoValueAssumption DEF ValueInv, HeldOK
  <2>3. at'[Conn] = "compare" /\ next'[Conn] = NextValue(read[Conn], request)
    BY <1>4, <1>a DEF Arm, Go
  <2>4. NextValue(read[Conn], request).timer = TRUE
    <3>1. Requested(read[Conn], request) \in HvacValue
      BY <1>a, <2>2, RequestedType
    <3> QED BY <2>1, <3>1 DEF NextValue, CommandInv, HvacValue
  <2>5. countdown'.armed = TRUE
    BY <1>4, <1>a DEF Arm
  <2>6. SectionOK(Conn)'
    BY <2>1, <2>2, <2>3, <2>4, <2>5 DEF SectionOK, AfterCommit
  <2> QED BY <1>a, <2>1, <2>6, TimerWentOn
<1>5. ASSUME NEW t \in Threads, Compare(t) PROVE TimerInv'
  <2>0. PICK v \in Readable(t) : Go(t, IF v = next[t] THEN AfterCommit(t) ELSE "set")
    BY <1>5 DEF Compare
  <2> DEFINE s == IF v = next[t] THEN AfterCommit(t) ELSE "set"
  <2>1. Go(t, s) /\ Busy(t) /\ UNCHANGED <<data, held, hist>> /\ at[t] = "compare"
    BY <1>5, <2>0 DEF Compare, Busy
  <2>2. s # "idle"
    BY DEF AfterCommit
  <2>3. at'[t] = s
    BY <1>a, <2>1 DEF Go
  <2>5. Clean(t) => v = value
    BY ReadableAlone DEF MetInv, Clean
  <2>4. Clean(t) /\ SectionOK(t) => SectionOK(t)'
    BY <2>1, <2>3, <2>5 DEF SectionOK, Rest, AfterCommit
  <2> HIDE DEF s
  <2> QED BY <1>a, <2>1, <2>2, <2>4, TimerWentOn
<1>6. ASSUME NEW t \in Threads, Set(t) PROVE TimerInv'
  <2> DEFINE s == IF t = Mqtt THEN "leave" ELSE "publish"
  <2>1. Go(t, s) /\ Busy(t) /\ at[t] = "set" /\ value' = next[t]
        /\ UNCHANGED <<countdown, timer, read, next, request>>
    BY <1>6 DEF Set, Busy
  <2>2. hist'.overlapped = hist.overlapped /\ hist'.disturbed = hist.disturbed
        /\ hist'.expiring = hist.expiring
    BY <1>6, <1>a DEF Set, History
  <2>3. at'[t] = s
    BY <1>a, <2>1 DEF Go
  <2>4. SectionOK(t) => SectionOK(t)'
    <3>1. AfterCommit(t)' = AfterCommit(t)
      BY <2>1, <2>2 DEF AfterCommit
    <3>2. t = Mqtt => AfterCommit(t) = "leave"
      BY DEF AfterCommit
    <3> QED BY <2>1, <2>3, <3>1, <3>2 DEF SectionOK, Rest
  <2> HIDE DEF s
  <2>5. s # "idle"
    BY DEF s
  <2> QED BY <1>a, <2>1, <2>2, <2>4, <2>5, TimerWentOn
<1>7. ASSUME NEW t \in Threads, Publish(t) PROVE TimerInv'
  <2> DEFINE s == AfterCommit(t)
  <2>1. Go(t, s) /\ Busy(t) /\ at[t] = "publish" /\ s \in {"timer", "leave"}
        /\ UNCHANGED <<value, countdown, timer, read, next, request, hist>>
    BY <1>7 DEF Publish, Busy, AfterCommit
  <2>2. at'[t] = s
    BY <1>a, <2>1 DEF Go
  <2>3. SectionOK(t) => SectionOK(t)'
    BY <2>1, <2>2 DEF SectionOK, Rest
  <2> HIDE DEF s
  <2> QED BY <1>a, <2>1, <2>3, TimerWentOn
<1>8. ASSUME NEW t \in Threads, TellTimer(t) PROVE TimerInv'
  <2>1. Go(t, "leave") /\ Busy(t) /\ at[t] = "timer"
        /\ UNCHANGED <<value, read, next, request, hist>>
    BY <1>8 DEF TellTimer, Busy
  <2>2. at'[t] = "leave"
    BY <1>a, <2>1 DEF Go
  <2>3. countdown'.armed = countdown.armed /\ (timer' => countdown.armed)
    BY <1>8, <1>a DEF TellTimer
  <2>4. SectionOK(t) => SectionOK(t)'
    BY <2>1, <2>2, <2>3 DEF SectionOK, Rest
  <2> QED BY <1>a, <2>1, <2>4, TimerWentOn
<1>9. ASSUME NEW t \in Threads, End(t) PROVE TimerInv'
  <2>1. Go(t, "idle") /\ Busy(t) /\ at[t] = "leave" /\ UNCHANGED <<value, countdown, timer>>
        /\ (t # Conn => read'[Conn] = read[Conn] /\ UNCHANGED request)
    BY <1>9, <1>a DEF End, Leave, Busy
  <2>2. at' = [at EXCEPT ![t] = "idle"]
    BY <2>1 DEF Go
  <2>3. /\ \A u \in Threads \ {t} : hist'.overlapped[u] = hist.overlapped[u]
        /\ hist'.disturbed = (hist.disturbed
             /\ ~(t = Conn /\ read[Conn] # NoValue /\ request.time = 0 /\ ~hist.overlapped[Conn]))
    BY <1>9, <1>a DEF End, History
  <2>4. ~Busy(t)' /\ \A u \in Threads \ {t} : Busy(u)' <=> Busy(u)
    BY <1>a, <2>2 DEF Busy
  \* The thread that ends has met whoever is still busy.
  <2>5. ASSUME NEW u \in Threads, Busy(u)' PROVE u # t /\ hist'.overlapped[u] /\ hist.overlapped[t]
    BY <2>1, <2>3, <2>4, <2>5 DEF MetInv
  <2>6. ~hist'.disturbed => ~hist.overlapped[t] /\ Clean(t)
    BY <2>1, <2>3 DEF TimerInv, Clean
  <2>7. ~hist'.disturbed => Rest'
    <3>1. Clean(t) => Rest
      BY <2>1 DEF TimerInv, SectionOK
    <3> QED BY <2>1, <2>6, <3>1 DEF Rest
  <2> QED BY <2>5, <2>6, <2>7 DEF TimerInv, Clean
<1>10. CASE W1Weekly
  <2>1. Go(W1, "compare") /\ at[W1] = "idle" /\ hist' = Met(hist, W1)
        /\ UNCHANGED <<value, countdown, timer, request>>
    BY <1>10 DEF W1Weekly
  <2>0. PICK v \in Readable(W1) : Applicable(v) /\ next' = [next EXCEPT ![W1] = BuildWeekly(v)]
    BY <1>10 DEF W1Weekly
  <2>4. ~hist'.overlapped[W1] => v = value
    BY <1>a, <2>1, ReadableUnmet DEF ValueInv
  <2>2. at'[W1] = "compare" /\ (~hist'.overlapped[W1] => next'[W1].timer = value.timer)
    BY <1>a, <2>0, <2>1, <2>4, BuildWeeklyType DEF Go
  <2>3. Rest \/ hist'.disturbed => (Clean(W1)' => SectionOK(W1)')
    BY <2>1, <2>2 DEF SectionOK, Rest, Clean
  <2> QED BY <1>a, <2>1, <2>3, TimerEntered
<1>11. ASSUME NEW s \in Schedules \cup {NoSchedule}, Configure(s) PROVE TimerInv'
  <2>1. Go(Conn, "apply") /\ at[Conn] = "idle" /\ UNCHANGED <<value, countdown, timer, read, request>>
    BY <1>11 DEF Configure
  <2>2. hist'.overlapped = Met(hist, Conn).overlapped /\ hist'.disturbed = Met(hist, Conn).disturbed
    BY <1>11 DEF Configure, Met, ValueInv, HistoryOK, History
  <2>3. at'[Conn] = "apply" /\ read[Conn] = NoValue
    BY <1>a, <2>1 DEF Go, CommandInv
  <2>4. Rest \/ hist'.disturbed => (Clean(Conn)' => SectionOK(Conn)')
    BY <2>1, <2>3 DEF SectionOK, Rest, Clean
  <2> QED BY <1>a, <2>1, <2>2, <2>4, TimerEntered
<1>12. CASE ConnWeekly
  <2>1. Busy(Conn) /\ at[Conn] = "apply" /\ UNCHANGED <<data, read, hist>>
    BY <1>12 DEF ConnWeekly, Busy
  <2>0. PICK v \in Readable(Conn) :
          IF Applicable(v)
          THEN /\ next' = [next EXCEPT ![Conn] = BuildWeekly(v)]
               /\ Go(Conn, "compare")
          ELSE Go(Conn, "leave") /\ UNCHANGED next
    BY <1>12 DEF ConnWeekly
  <2>2. CASE Applicable(v)
    <3>1. Go(Conn, "compare") /\ next' = [next EXCEPT ![Conn] = BuildWeekly(v)]
      BY <2>0, <2>2
    <3>4. Clean(Conn) => v = value
      BY <1>a, ReadableAlone DEF MetInv, Clean
    <3>2. at'[Conn] = "compare" /\ (Clean(Conn) => next'[Conn].timer = value.timer)
      BY <1>a, <3>1, <3>4, BuildWeeklyType DEF Go
    <3>3. Clean(Conn) /\ SectionOK(Conn) => SectionOK(Conn)'
      BY <2>1, <3>2 DEF SectionOK, Rest
    <3> QED BY <1>a, <2>1, <3>1, <3>3, TimerWentOn
  <2>3. CASE ~Applicable(v)
    <3>1. Go(Conn, "leave")
      BY <2>0, <2>3
    <3>2. at'[Conn] = "leave"
      BY <1>a, <3>1 DEF Go
    <3>3. SectionOK(Conn) => SectionOK(Conn)'
      BY <2>1, <3>2 DEF SectionOK, Rest
    <3> QED BY <1>a, <2>1, <3>1, <3>3, TimerWentOn
  <2> QED BY <2>2, <2>3
<1>13. CASE Register
  <2>1. /\ UNCHANGED <<value, countdown, timer, at, read, next, request>>
        /\ hist'.overlapped = hist.overlapped /\ hist'.disturbed = hist.disturbed
        /\ hist'.expiring = hist.expiring
    BY <1>13, <1>a DEF Register, History
  <2> QED BY <2>1 DEF TimerInv, Clean, SectionOK, Rest, Idle, Busy, AfterCommit
<1>14. CASE Countdown
  <2>1. Go(W1, "tell") /\ at[W1] = "idle" /\ hist' = Met(hist, W1) /\ countdown.armed
        /\ UNCHANGED <<value, countdown, timer, request>>
    BY <1>14 DEF Countdown
  <2>2. at'[W1] = "tell"
    BY <1>a, <2>1 DEF Go
  <2>3. Rest \/ hist'.disturbed => (Clean(W1)' => SectionOK(W1)')
    BY <2>1, <2>2 DEF SectionOK, Rest, Clean
  <2> QED BY <1>a, <2>1, <2>3, TimerEntered
<1>15. CASE TellLeft
  <2>1. Go(W1, "leave") /\ Busy(W1) /\ at[W1] = "tell"
        /\ UNCHANGED <<value, read, next, request, hist>>
    BY <1>15 DEF TellLeft, Busy
  <2>2. at'[W1] = "leave" /\ countdown'.armed = countdown.armed
    BY <1>15, <1>a DEF TellLeft, Go
  <2>3. SectionOK(W1) => SectionOK(W1)'
    BY <2>1, <2>2 DEF SectionOK, Rest
  <2> QED BY <1>a, <2>1, <2>3, TimerWentOn
<1>16. CASE Expire
  <2>1. Go(W1, "clear") /\ at[W1] = "idle" /\ UNCHANGED <<value, countdown, timer, request>>
    BY <1>16 DEF Expire
  <2>2. hist' = [Met(hist, W1) EXCEPT !.expiring = TRUE] /\ Met(hist, W1) \in History
    BY <1>16, <1>a, MetType DEF Expire, ValueInv
  <2>3. hist'.overlapped = Met(hist, W1).overlapped /\ hist'.disturbed = Met(hist, W1).disturbed
    BY <2>2 DEF History
  <2>4. at'[W1] = "clear"
    BY <1>a, <2>1 DEF Go
  <2>5. Rest \/ hist'.disturbed => (Clean(W1)' => SectionOK(W1)')
    BY <2>1, <2>4 DEF SectionOK, Rest, Clean
  <2> QED BY <1>a, <2>1, <2>3, <2>5, TimerEntered
<1>17. ASSUME NEW t \in {Conn, W1}, Clear(t) PROVE TimerInv'
  <2>1. PICK s \in (ClearStates \ {"clear"}) \cup {"compare", "build"} :
           /\ Go(t, s) /\ at[t] \in ClearStates
           /\ UNCHANGED <<value, timer, read, next, request, hist>>
           /\ (s = "compare" => t = W1) /\ (s = "build" => t = Conn)
           /\ IF at[t] = "clear" THEN ~countdown'.armed /\ s = "clear_available"
              ELSE countdown'.armed = countdown.armed
           /\ countdown' \in [armed : BOOLEAN, left : Nat, restore : MaybeValue, sent : Nat]
    BY <1>17, ClearStep
  <2>2. at'[t] = s /\ Busy(t)
    BY <1>a, <2>1 DEF Go, Busy
  <2>3. s = "compare" => next[W1].timer = FALSE /\ AfterCommit(W1)' = "timer"
    BY <2>1 DEF ValueInv, HeldOK, KeptInv, AfterCommit
  <2>4. SectionOK(t) => SectionOK(t)'
    <3>1. CASE s = "compare"
      BY <1>a, <2>1, <2>2, <2>3, <3>1 DEF SectionOK
    <3>2. CASE s # "compare"
      BY <1>a, <2>1, <2>2, <3>2 DEF SectionOK
    <3> QED BY <3>1, <3>2
  <2> QED BY <1>a, <2>1, <2>2, <2>4, TimerWentOn
<1>18. ASSUME NEW u \in Updates, UpdateHvacState(u) PROVE TimerInv'
  <2>1. Go(Mqtt, "set") /\ at[Mqtt] = "idle" /\ UNCHANGED <<value, countdown, timer, request>>
    BY <1>18 DEF UpdateHvacState
  <2>2. hist'.overlapped = Met(hist, Mqtt).overlapped /\ hist'.disturbed = Met(hist, Mqtt).disturbed
    BY <1>18 DEF UpdateHvacState, Met, ValueInv, HistoryOK, History
  <2>0. PICK v \in Readable(Mqtt) : next' = [next EXCEPT ![Mqtt] = Updated(v, u)]
    BY <1>18 DEF UpdateHvacState
  <2>5. ~hist'.overlapped[Mqtt] => v = value
    BY <1>a, <2>2, ReadableUnmet DEF ValueInv
  <2>3. at'[Mqtt] = "set" /\ (~hist'.overlapped[Mqtt] => next'[Mqtt].timer = value.timer)
    BY <1>a, <2>0, <2>1, <2>5 DEF Go, Updated, HvacValue
  <2>4. Rest \/ hist'.disturbed => (Clean(Mqtt)' => SectionOK(Mqtt)')
    BY <2>1, <2>3 DEF SectionOK, Rest, Clean
  <2> QED BY <1>a, <2>1, <2>2, <2>4, TimerEntered
<1>19. CASE Tick
  <2>1. countdown'.armed = countdown.armed /\ UNCHANGED <<value, timer, at, read, next, request, hist>>
    BY <1>19, <1>a DEF Tick
  <2> QED BY <2>1 DEF TimerInv, Clean, SectionOK, Rest, Idle, Busy, AfterCommit
<1>20. ASSUME NEW q \in Quarter, NextQuarter(q) PROVE TimerInv'
  BY <1>20 DEF NextQuarter, TimerInv, Clean, SectionOK, Rest, Idle, Busy, AfterCommit
<1>21. CASE UNCHANGED vars
  BY <1>21 DEF vars, TimerInv, Clean, SectionOK, Rest, Idle, Busy, AfterCommit
<1> QED
  BY <1>1, <1>2, <1>3, <1>4, <1>5, <1>6, <1>7, <1>8, <1>9, <1>10, <1>11, <1>12, <1>13,
     <1>14, <1>15, <1>16, <1>17, <1>18, <1>19, <1>20, <1>21, <1>22
  DEF Next, ConnStep, W1Step, MqttStep, Commit, Threads
-----------------------------------------------------------------------------
(* What a countdown restores.                                              *)

\* A section of t begins at s and changes none of the data.
LEMMA RestoreEntered ==
  ASSUME ValueInv, MetInv, RestoreInv, NEW t \in Threads, NEW s, s # "idle",
         at[t] = "idle", Go(t, s), UNCHANGED <<value, countdown>>,
         hist'.before = hist.before,
         t # W1 => hist'.expiring = hist.expiring,
         hist'.overlapped = Met(hist, t).overlapped,
         hist'.disturbed = Met(hist, t).disturbed,
         Restores \/ hist'.disturbed => (Clean(t)' => RestoreOK(t)')
  PROVE  RestoreInv'
<1>1. at' = [at EXCEPT ![t] = s] /\ at \in [Threads -> States]
  BY DEF Go, ValueInv, TypeOK
<1>2. hist'.disturbed = (hist.disturbed \/ \E u \in Threads \ {t} : Busy(u))
  BY DEF Met, ValueInv, HistoryOK, History
<1>3. \A u \in Threads \ {t} : hist'.overlapped[u] = (hist.overlapped[u] \/ Busy(u))
  <2>1. \A u \in Threads \ {t} : Met(hist, t).overlapped[u] = (hist.overlapped[u] \/ Busy(u))
    BY MetType DEF ValueInv
  <2> QED BY <2>1, Zenon
<1>4. Busy(t)' /\ \A u \in Threads \ {t} : Busy(u)' <=> Busy(u)
  BY <1>1 DEF Busy
<1>5. \A u \in Threads \ {t} : ~Clean(u)'
  BY <1>3, <1>4 DEF Clean
<1>6. ~hist'.disturbed => Restores
  BY <1>2 DEF RestoreInv, Idle, Busy
<1>7. ~Idle'
  BY <1>4 DEF Idle
<1>8. Owned'
  BY <1>1, HvacAssumption DEF RestoreInv, Owned, Threads
<1>9. at'[W1] = "idle" => ~hist'.expiring
  BY <1>1 DEF RestoreInv, Threads
<1> QED BY <1>5, <1>6, <1>7, <1>8, <1>9 DEF RestoreInv

\* The section of t goes on at s.
LEMMA RestoreWentOn ==
  ASSUME ValueInv, MetInv, RestoreInv, NEW t \in Threads, NEW s, s # "idle",
         Busy(t), Go(t, s), UNCHANGED <<read, request>>,
         hist'.overlapped = hist.overlapped, hist'.disturbed = hist.disturbed,
         hist'.expiring = hist.expiring,
         ~hist'.before.timer /\ (~value'.timer => value' = hist'.before),
         \/ Owned'
         \/ /\ at[t] \notin {"arm", "clear_available"}
            /\ countdown'.armed = countdown.armed /\ countdown'.restore = countdown.restore,
         Clean(t) /\ RestoreOK(t) => RestoreOK(t)'
  PROVE  RestoreInv'
<1>1. at' = [at EXCEPT ![t] = s] /\ at \in [Threads -> States]
  BY DEF Go, ValueInv, TypeOK
<1>2. \A u \in Threads : Busy(u)' <=> Busy(u)
  BY <1>1 DEF Busy
<1>3. \A u \in Threads : Clean(u)' <=> Clean(u)
  BY <1>2 DEF Clean
<1>4. \A u \in Threads \ {t} : ~Clean(u)
  BY DEF Clean, MetInv
<1>5. ~Idle'
  BY <1>2 DEF Idle
<1>6. Clean(t)' => RestoreOK(t)'
  BY <1>3 DEF RestoreInv
<1>7. at'[W1] = "idle" => ~hist'.expiring
  BY <1>1 DEF RestoreInv, Threads
<1>8. Owned'
  BY <1>1, HvacAssumption DEF RestoreInv, Owned, Threads
<1> QED BY <1>3, <1>4, <1>5, <1>6, <1>7, <1>8 DEF RestoreInv

LEMMA RestoreKept ==
  ASSUME ValueInv, MetInv, CommandInv, KeptInv, TimerInv, RestoreInv, [Next]_vars
  PROVE  RestoreInv'
<1> USE HvacAssumption DEF program, held, task, data, ClearStates
<1>a. {Conn, W1, Mqtt} \subseteq Threads /\ at \in [Threads -> States] /\ hist \in History
      /\ read \in [Threads -> MaybeValue] /\ next \in [Threads -> MaybeValue]
      /\ countdown \in [armed : BOOLEAN, left : Nat, restore : MaybeValue, sent : Nat]
      /\ value \in HvacValue /\ timer \in BOOLEAN /\ request \in RequestType
      /\ schedule \in Schedules \cup {NoSchedule} /\ quarter \in Quarter
      /\ hist.before \in HvacValue /\ hist.before # NoValue
  BY NoValueAssumption DEF Threads, ValueInv, TypeOK, HistoryOK, History
<1>b. /\ ~hist.before.timer /\ (~value.timer => value = hist.before)
      /\ Owned
  BY DEF RestoreInv
<1>1. ASSUME NEW r \in Requests, Command(r) PROVE RestoreInv'
  <2> DEFINE s == IF Timed(r) THEN "restore" ELSE "cancel"
  <2>1. Go(Conn, s) /\ s \in {"restore", "cancel"} /\ at[Conn] = "idle"
        /\ UNCHANGED <<value, countdown, timer>> /\ request' = r
    BY <1>1 DEF Command
  <2>6. s = "restore" => r.time # 0
    BY DEF Timed
  <2> HIDE DEF s
  <2>0. PICK v \in Readable(Conn) : read' = [read EXCEPT ![Conn] = v]
    BY <1>1 DEF Command
  <2>2. hist' = [Met(hist, Conn) EXCEPT !.commands = @ + 1] /\ Met(hist, Conn) \in History
    BY <1>1, <1>a, MetType DEF Command, ValueInv
  <2>3. hist'.overlapped = Met(hist, Conn).overlapped /\ hist'.disturbed = Met(hist, Conn).disturbed
        /\ hist'.expiring = hist.expiring /\ hist'.before = hist.before
    BY <1>a, <2>2 DEF History, Met
  <2>4. at'[Conn] = s /\ (~hist'.overlapped[Conn] => read'[Conn] = value)
    <3>1. ~hist'.overlapped[Conn] => v = value
      BY <1>a, <2>3, ReadableUnmet DEF ValueInv
    <3> QED BY <1>a, <2>0, <2>1, <3>1 DEF Go
  <2>5. Restores \/ hist'.disturbed => (Clean(Conn)' => RestoreOK(Conn)')
    <3>1. CASE Restores
      BY <2>1, <2>3, <2>4, <3>1 DEF RestoreOK, Restores, Clean
    <3>2. CASE hist'.disturbed
      BY <2>1, <2>4, <2>6, <3>2 DEF RestoreOK, Clean
    <3> QED BY <3>1, <3>2
  <2> QED BY <1>a, <2>1, <2>3, <2>5, RestoreEntered
<1>2. CASE Cancel
  <2>1. PICK s \in {"clear", "build"} :
          /\ Go(Conn, s) /\ Busy(Conn) /\ at[Conn] = "cancel"
          /\ UNCHANGED <<value, countdown, timer, read, next, request, hist>>
          /\ IF s = "clear" THEN request.time = 0 ELSE ~(request.time = 0 /\ countdown.armed)
    BY <1>2 DEF Cancel, Busy
  <2>2. at'[Conn] = s
    BY <1>a, <2>1 DEF Go
  <2>3. s = "build" => ~countdown.armed
    <3>1. request.time \in Nat /\ countdown.armed \in BOOLEAN
      BY <1>a DEF RequestType
    <3>2. ~Timed(request) /\ (countdown.armed => Tracked)
      BY <2>1 DEF CommandInv
    <3> QED BY <2>1, <3>1, <3>2 DEF Timed
  <2>4. RestoreOK(Conn)'
    BY <2>1, <2>2, <2>3 DEF RestoreOK, Restores
  <2> QED BY <1>a, <1>b, <2>1, <2>4, RestoreWentOn
<1>22. CASE Build
  <2>1. Go(Conn, "compare") /\ Busy(Conn) /\ at[Conn] = "build"
        /\ UNCHANGED <<value, countdown, timer, read, request, hist>>
    BY <1>22 DEF Build, Busy
  <2>2. at'[Conn] = "compare" /\ ~countdown.armed
    BY <1>a, <2>1 DEF Go, CommandInv
  <2>3. RestoreOK(Conn)'
    BY <2>1, <2>2 DEF RestoreOK, Restores
  <2> QED BY <1>a, <1>b, <2>1, <2>3, RestoreWentOn
<1>3. CASE KeepRestore
  <2>1. Go(Conn, "arm") /\ Busy(Conn) /\ at[Conn] = "restore"
        /\ UNCHANGED <<value, timer, read, next, request, hist>>
    BY <1>3 DEF KeepRestore, Busy
  <2>2. at'[Conn] = "arm" /\ countdown'.armed = countdown.armed
    BY <1>3, <1>a DEF KeepRestore, Go
  <2>3. ASSUME Clean(Conn), RestoreOK(Conn) PROVE countdown'.restore = hist.before
    <3>1. Rest /\ Restores /\ read[Conn] = value
      BY <1>a, <2>1, <2>3 DEF TimerInv, SectionOK, RestoreOK
    <3>4. at[W1] = "idle"
      BY <1>a, <2>3 DEF Clean, MetInv, Busy
    <3>2. CASE countdown.restore # NoValue
      BY <1>3, <1>b, <2>1, <3>1, <3>2, <3>4 DEF KeepRestore, Restores, Owned
    <3>3. CASE countdown.restore = NoValue
      <4>1. ~value.timer
        BY <1>a, <3>1, <3>3 DEF Rest, Restores
      <4>2. countdown'.restore = [value EXCEPT !.timer = FALSE]
        BY <1>3, <1>a, <3>1, <3>3 DEF KeepRestore
      <4>3. [value EXCEPT !.timer = FALSE] = value
        BY <1>a, <4>1 DEF HvacValue
      <4> QED BY <1>b, <4>1, <4>2, <4>3
    <3> QED BY <3>2, <3>3
  <2>4. Clean(Conn) /\ RestoreOK(Conn) => RestoreOK(Conn)'
    BY <2>1, <2>2, <2>3 DEF RestoreOK, Restores
  <2>5. Owned'
    BY <2>2 DEF Owned
  <2> QED BY <1>a, <1>b, <2>1, <2>4, <2>5, RestoreWentOn
<1>4. CASE Arm
  <2>1. Go(Conn, "compare") /\ Busy(Conn) /\ at[Conn] = "arm"
        /\ UNCHANGED <<value, timer, read, request, hist>>
    BY <1>4 DEF Arm, Busy
  <2>2. at'[Conn] = "compare" /\ countdown'.armed /\ countdown'.restore = countdown.restore
    BY <1>4, <1>a DEF Arm, Go
  <2>3. RestoreOK(Conn) => RestoreOK(Conn)'
    BY <2>1, <2>2 DEF RestoreOK, Restores
  <2>4. Owned'
    BY <2>2 DEF Owned
  <2> QED BY <1>a, <1>b, <2>1, <2>3, <2>4, RestoreWentOn
<1>5. ASSUME NEW t \in Threads, Compare(t) PROVE RestoreInv'
  <2>0. PICK v \in Readable(t) : Go(t, IF v = next[t] THEN AfterCommit(t) ELSE "set")
    BY <1>5 DEF Compare
  <2> DEFINE s == IF v = next[t] THEN AfterCommit(t) ELSE "set"
  <2>1. Go(t, s) /\ Busy(t) /\ UNCHANGED <<data, held, hist>> /\ at[t] = "compare"
    BY <1>5, <2>0 DEF Compare, Busy
  <2>2. s \in {"timer", "leave", "set"}
    BY DEF AfterCommit
  <2> HIDE DEF s
  <2>3. at'[t] = s
    BY <1>a, <2>1 DEF Go
  <2>4. RestoreOK(t) => RestoreOK(t)'
    BY <2>1, <2>2, <2>3 DEF RestoreOK, Restores
  <2> QED BY <1>a, <1>b, <2>1, <2>2, <2>3, <2>4, RestoreWentOn
<1>6. ASSUME NEW t \in Threads, Set(t) PROVE RestoreInv'
  <2> DEFINE s == IF t = Mqtt THEN "leave" ELSE "publish"
  <2>1. Go(t, s) /\ Busy(t) /\ at[t] = "set" /\ value' = next[t] /\ s \in {"leave", "publish"}
        /\ UNCHANGED <<countdown, timer, read, next, request>>
    BY <1>6 DEF Set, Busy
  <2> HIDE DEF s
  <2>2. hist'.overlapped = hist.overlapped /\ hist'.disturbed = hist.disturbed
        /\ hist'.before = (IF next[t].timer THEN hist.before ELSE next[t])
        /\ hist'.expiring = hist.expiring
    BY <1>6, <1>a DEF Set, History
  <2>3. at'[t] = s
    BY <1>a, <2>1 DEF Go
  <2>4. ~hist'.before.timer /\ (~value'.timer => value' = hist'.before)
    BY <1>b, <2>1, <2>2
  <2>5. Clean(t) /\ RestoreOK(t) => RestoreOK(t)'
    <3>1. Clean(t) => next[t].timer = countdown.armed
      BY <2>1 DEF TimerInv, SectionOK
    <3> QED BY <2>1, <2>2, <2>3, <3>1 DEF RestoreOK, Restores
  <2> QED BY <1>a, <1>b, <2>1, <2>2, <2>3, <2>4, <2>5, RestoreWentOn
<1>7. ASSUME NEW t \in Threads, Publish(t) PROVE RestoreInv'
  <2> DEFINE s == AfterCommit(t)
  <2>1. Go(t, s) /\ Busy(t) /\ at[t] = "publish" /\ s \in {"timer", "leave"}
        /\ UNCHANGED <<value, countdown, timer, read, next, request, hist>>
    BY <1>7 DEF Publish, Busy, AfterCommit
  <2> HIDE DEF s
  <2>2. at'[t] = s
    BY <1>a, <2>1 DEF Go
  <2>3. RestoreOK(t) => RestoreOK(t)'
    BY <2>1, <2>2 DEF RestoreOK, Restores
  <2> QED BY <1>a, <1>b, <2>1, <2>2, <2>3, RestoreWentOn
<1>8. ASSUME NEW t \in Threads, TellTimer(t) PROVE RestoreInv'
  <2>1. Go(t, "leave") /\ Busy(t) /\ at[t] = "timer"
        /\ UNCHANGED <<value, read, next, request, hist>>
    BY <1>8 DEF TellTimer, Busy
  <2>2. at'[t] = "leave"
    BY <1>a, <2>1 DEF Go
  <2>3. countdown'.armed = countdown.armed /\ countdown'.restore = countdown.restore
    BY <1>8, <1>a DEF TellTimer
  <2>4. RestoreOK(t) => RestoreOK(t)'
    BY <2>1, <2>2, <2>3 DEF RestoreOK, Restores
  <2> QED BY <1>a, <1>b, <2>1, <2>2, <2>3, <2>4, RestoreWentOn
<1>9. ASSUME NEW t \in Threads, End(t) PROVE RestoreInv'
  <2>1. Go(t, "idle") /\ Busy(t) /\ at[t] = "leave" /\ UNCHANGED <<value, countdown, timer>>
        /\ (t # Conn => read'[Conn] = read[Conn] /\ UNCHANGED request)
    BY <1>9, <1>a DEF End, Leave, Busy
  <2>2. at' = [at EXCEPT ![t] = "idle"]
    BY <2>1 DEF Go
  <2>3. /\ \A u \in Threads \ {t} : hist'.overlapped[u] = hist.overlapped[u]
        /\ hist'.disturbed = (hist.disturbed
             /\ ~(t = Conn /\ read[Conn] # NoValue /\ request.time = 0 /\ ~hist.overlapped[Conn]))
        /\ hist'.before = hist.before /\ hist'.expiring = (hist.expiring /\ t # W1)
    BY <1>9, <1>a DEF End, History
  <2>4. ~Busy(t)' /\ \A u \in Threads \ {t} : Busy(u)' <=> Busy(u)
    BY <1>a, <2>2 DEF Busy
  \* The thread that ends has met whoever is still busy.
  <2>5. ASSUME NEW u \in Threads, Busy(u)' PROVE u # t /\ hist'.overlapped[u]
    BY <2>1, <2>3, <2>4, <2>5 DEF MetInv
  <2>6. ~hist'.disturbed => Clean(t)
    BY <2>1, <2>3 DEF TimerInv, Clean
  <2>7. ~hist'.disturbed => Restores'
    <3>1. Clean(t) => Restores
      BY <2>1 DEF RestoreInv, RestoreOK
    <3> QED BY <2>1, <2>3, <2>6, <3>1 DEF Restores
  <2>8. at'[W1] = "idle" => ~hist'.expiring
    BY <1>a, <2>2, <2>3 DEF RestoreInv
  <2>9. Owned'
    BY <1>a, <1>b, <2>1, <2>2 DEF Owned
  <2> QED BY <1>b, <2>1, <2>3, <2>5, <2>7, <2>8, <2>9 DEF RestoreInv, Clean
<1>10. CASE W1Weekly
  <2>1. Go(W1, "compare") /\ at[W1] = "idle" /\ hist' = Met(hist, W1)
        /\ UNCHANGED <<value, countdown, timer, request>>
    BY <1>10 DEF W1Weekly
  <2>2. at'[W1] = "compare" /\ hist'.before = hist.before /\ ~hist'.expiring
    BY <1>a, <2>1 DEF Go, Met, History, RestoreInv
  <2>3. Restores \/ hist'.disturbed => (Clean(W1)' => RestoreOK(W1)')
    BY <2>1, <2>2 DEF RestoreOK, Restores, Clean
  <2> QED BY <1>a, <2>1, <2>2, <2>3, RestoreEntered
<1>11. ASSUME NEW s \in Schedules \cup {NoSchedule}, Configure(s) PROVE RestoreInv'
  <2>1. Go(Conn, "apply") /\ at[Conn] = "idle" /\ UNCHANGED <<value, countdown, timer, read, request>>
    BY <1>11 DEF Configure
  <2>2. hist'.overlapped = Met(hist, Conn).overlapped /\ hist'.disturbed = Met(hist, Conn).disturbed
        /\ hist'.expiring = hist.expiring /\ hist'.before = hist.before
    BY <1>11 DEF Configure, Met, ValueInv, HistoryOK, History
  <2>3. at'[Conn] = "apply" /\ read[Conn] = NoValue
    BY <1>a, <2>1 DEF Go, CommandInv
  <2>4. Restores \/ hist'.disturbed => (Clean(Conn)' => RestoreOK(Conn)')
    BY <2>1, <2>2, <2>3 DEF RestoreOK, Restores, Clean
  <2> QED BY <1>a, <2>1, <2>2, <2>4, RestoreEntered
<1>12. CASE ConnWeekly
  <2>1. Busy(Conn) /\ at[Conn] = "apply" /\ UNCHANGED <<data, read, hist>>
    BY <1>12 DEF ConnWeekly, Busy
  <2>2. PICK s \in {"compare", "leave"} : Go(Conn, s)
    BY <1>12 DEF ConnWeekly
  <2>3. at'[Conn] = s
    BY <1>a, <2>2 DEF Go
  <2>4. RestoreOK(Conn) => RestoreOK(Conn)'
    BY <2>1, <2>3 DEF RestoreOK, Restores
  <2> QED BY <1>a, <1>b, <2>1, <2>2, <2>4, RestoreWentOn
<1>13. CASE Register
  <2>1. /\ UNCHANGED <<value, countdown, timer, at, read, next, request>>
        /\ hist'.overlapped = hist.overlapped /\ hist'.disturbed = hist.disturbed
        /\ hist'.expiring = hist.expiring /\ hist'.before = hist.before
    BY <1>13, <1>a DEF Register, History
  <2> QED BY <2>1 DEF RestoreInv, Owned, Clean, RestoreOK, Restores, Idle, Busy
<1>14. CASE Countdown
  <2>1. Go(W1, "tell") /\ at[W1] = "idle" /\ hist' = Met(hist, W1)
        /\ UNCHANGED <<value, countdown, timer, request>>
    BY <1>14 DEF Countdown
  <2>2. at'[W1] = "tell" /\ hist'.before = hist.before
    BY <1>a, <2>1 DEF Go, Met, History
  <2>3. Restores \/ hist'.disturbed => (Clean(W1)' => RestoreOK(W1)')
    BY <2>1, <2>2 DEF RestoreOK, Restores, Clean
  <2> QED BY <1>a, <2>1, <2>2, <2>3, RestoreEntered
<1>15. CASE TellLeft
  <2>1. Go(W1, "leave") /\ Busy(W1) /\ at[W1] = "tell"
        /\ UNCHANGED <<value, read, next, request, hist>>
    BY <1>15 DEF TellLeft, Busy
  <2>2. at'[W1] = "leave" 
        /\ countdown'.armed = countdown.armed /\ countdown'.restore = countdown.restore
    BY <1>15, <1>a DEF TellLeft, Go
  <2>3. RestoreOK(W1) => RestoreOK(W1)'
    BY <2>1, <2>2 DEF RestoreOK, Restores
  <2> QED BY <1>a, <1>b, <2>1, <2>2, <2>3, RestoreWentOn
<1>16. CASE Expire
  <2>1. Go(W1, "clear") /\ at[W1] = "idle" /\ UNCHANGED <<value, countdown, timer, request>>
        /\ countdown.armed
    BY <1>16 DEF Expire
  <2>2. hist' = [Met(hist, W1) EXCEPT !.expiring = TRUE] /\ Met(hist, W1) \in History
    BY <1>16, <1>a, MetType DEF Expire, ValueInv
  <2>3. hist'.overlapped = Met(hist, W1).overlapped /\ hist'.disturbed = Met(hist, W1).disturbed
        /\ hist'.before = hist.before
    BY <1>a, <2>2 DEF History, Met
  <2>4. at'[W1] = "clear"
    BY <1>a, <2>1 DEF Go
  <2>5. Restores => next'[W1] = hist.before
    <3>1. [hist.before EXCEPT !.timer = FALSE] = hist.before
      BY <1>a, <1>b DEF HvacValue
    <3>2. ASSUME Restores PROVE next'[W1] = [hist.before EXCEPT !.timer = FALSE]
      BY <1>16, <1>a, <2>1, <3>2 DEF Expire, Restores
    <3> QED BY <3>1, <3>2
  <2>6. Restores \/ hist'.disturbed => (Clean(W1)' => RestoreOK(W1)')
    BY <2>1, <2>3, <2>4, <2>5 DEF RestoreOK, Restores, Clean
  <2> QED BY <1>a, <2>1, <2>3, <2>6, RestoreEntered
<1>17. ASSUME NEW t \in {Conn, W1}, Clear(t) PROVE RestoreInv'
  <2>1. PICK s \in (ClearStates \ {"clear"}) \cup {"compare", "build"} :
           /\ Go(t, s) /\ at[t] \in ClearStates
           /\ UNCHANGED <<value, timer, read, next, request, hist>>
           /\ (s = "compare" => t = W1) /\ (s = "build" => t = Conn)
           /\ IF at[t] = "clear" THEN ~countdown'.armed /\ s = "clear_available"
              ELSE countdown'.armed = countdown.armed
           /\ (countdown'.restore # NoValue =>
                 countdown.restore # NoValue /\ at[t] # "clear_available")
    BY <1>17, ClearStep
  <2>2. at'[t] = s /\ Busy(t) /\ \A u \in Threads \ {t} : at'[u] = at[u]
    BY <1>a, <2>1 DEF Go, Busy
  <2>3. Owned'
    <3>1. CASE at[t] = "clear"
      BY <2>1, <2>2, <3>1 DEF Owned
    <3>2. CASE at[t] # "clear"
      BY <1>a, <1>b, <2>1, <2>2, <3>2 DEF Owned
    <3> QED BY <3>1, <3>2
  <2>4. Clean(t) => ~countdown'.armed
    BY <1>a, <2>1 DEF TimerInv, SectionOK
  <2>5. Clean(t) /\ RestoreOK(t) => RestoreOK(t)'
    BY <1>a, <2>1, <2>2, <2>4 DEF RestoreOK, Restores
  <2> QED BY <1>a, <1>b, <2>1, <2>2, <2>3, <2>5, RestoreWentOn
<1>18. ASSUME NEW u \in Updates, UpdateHvacState(u) PROVE RestoreInv'
  <2>1. Go(Mqtt, "set") /\ at[Mqtt] = "idle" /\ UNCHANGED <<value, countdown, timer, request>>
    BY <1>18 DEF UpdateHvacState
  <2>2. hist'.overlapped = Met(hist, Mqtt).overlapped /\ hist'.disturbed = Met(hist, Mqtt).disturbed
        /\ hist'.expiring = hist.expiring /\ hist'.before = hist.before
    BY <1>18 DEF UpdateHvacState, Met, ValueInv, HistoryOK, History
  <2>3. at'[Mqtt] = "set"
    BY <1>a, <2>1 DEF Go
  <2>4. Restores \/ hist'.disturbed => (Clean(Mqtt)' => RestoreOK(Mqtt)')
    BY <2>1, <2>2, <2>3 DEF RestoreOK, Restores, Clean
  <2> QED BY <1>a, <2>1, <2>2, <2>4, RestoreEntered
<1>19. CASE Tick
  <2>1. /\ UNCHANGED <<value, timer, at, read, next, request, hist>>
        /\ countdown'.armed = countdown.armed /\ countdown'.restore = countdown.restore
    BY <1>19, <1>a DEF Tick
  <2> QED BY <2>1 DEF RestoreInv, Owned, Clean, RestoreOK, Restores, Idle, Busy
<1>20. ASSUME NEW q \in Quarter, NextQuarter(q) PROVE RestoreInv'
  BY <1>20 DEF NextQuarter, RestoreInv, Owned, Clean, RestoreOK, Restores, Idle, Busy
<1>21. CASE UNCHANGED vars
  BY <1>21 DEF vars, RestoreInv, Owned, Clean, RestoreOK, Restores, Idle, Busy
<1> QED
  BY <1>1, <1>2, <1>3, <1>4, <1>5, <1>6, <1>7, <1>8, <1>9, <1>10, <1>11, <1>12, <1>13,
     <1>14, <1>15, <1>16, <1>17, <1>18, <1>19, <1>20, <1>21, <1>22
  DEF Next, ConnStep, W1Step, MqttStep, Commit, Threads
-----------------------------------------------------------------------------
LEMMA Invariant == Spec => []IInv
<1>1. IInv /\ [Next]_vars => IInv'
  BY ValuesKept, ProgramsKept, CommandKept, TimerKept, RestoreKept DEF IInv
<1> QED BY <1>1, Initial, PTL DEF Spec

\* The variables keep their types: whatever the requests, schedules and messages,
\* every value a thread computes is a value of the channel.
THEOREM TypeCorrect == Spec => []TypeOK
<1>1. IInv => TypeOK
  BY DEF IInv, ValueInv
<1> QED BY <1>1, Invariant, PTL

\* No interleaving of commands, schedule, countdown and messages leaves a value
\* that counts down and follows the schedule at once.
THEOREM TimedOrWeekly == Spec => []NeverBoth
<1>1. IInv => NeverBoth
  BY DEF IInv, ValueInv, Sound, NeverBoth
<1> QED BY <1>1, Invariant, PTL

\* A program of the schedule that met no other thread never replaces a value set
\* by hand, nor one published less than the throttle ago.
THEOREM ManualKept == Spec => ManualIsKept
<1>1. ASSUME IInv, NEW t \in {Conn, W1}, WeeklyCommit(t)
      PROVE  hist.overlapped[t] \/ (value.weekly /\ (Tracked => age = Throttle))
  <2>1. KeptBy(t) /\ Weekly(t) /\ t # Mqtt
    BY <1>1, HvacAssumption DEF IInv, KeptInv, WeeklyCommit, Weekly, Threads
  <2>2. age \in 0 .. Throttle /\ Throttle \in Nat
    BY <1>1, HvacAssumption DEF IInv, ValueInv, TypeOK
  <2> QED BY <1>1, <2>1, <2>2 DEF KeptBy, WeeklyCommit
<1>2. IInv /\ [Next]_vars =>
        [\A t \in {Conn, W1} :
           WeeklyCommit(t) /\ at'[t] # "set" =>
             hist.overlapped[t] \/ (value.weekly /\ (Tracked => age = Throttle))]_vars
  BY <1>1
<1> QED BY <1>2, Invariant, PTL DEF Spec, ManualIsKept

\* A countdown that nothing disturbed ends with the last value that had none, whatever
\* countdowns followed one another and whatever the thermostat reported.
THEOREM ValueRestored == Spec => ExpiryRestores
<1>1. ASSUME IInv, [Next]_vars, at[W1] = "set", value' # value, hist.expiring, ~hist.disturbed
      PROVE  value' = hist.before
  <2>1. PICK t \in Threads : Set(t)
    BY <1>1 DEF Next, ConnStep, W1Step, MqttStep, Commit, vars, program, data, held, task, Threads,
                Command, Configure, Register, UpdateHvacState, Cancel, KeepRestore, Arm, ConnWeekly,
                Compare, Publish, TellTimer, End, W1Weekly, Countdown, TellLeft, Expire,
                Build, Clear, ClearEnd, ClearAvailable, ClearSent, ClearValue, Clearing, Tick, NextQuarter
  <2>2. Busy(W1) /\ Busy(t) /\ W1 \in Threads
    BY <1>1, <2>1 DEF Set, Busy, Threads
  <2>3. ~hist.overlapped[W1]
    BY <1>1, <2>2 DEF IInv, TimerInv
  <2>4. t = W1
    BY <1>1, <2>2, <2>3 DEF IInv, MetInv
  <2>5. RestoreOK(W1)
    BY <1>1, <2>2, <2>3 DEF IInv, RestoreInv, Clean
  <2> QED BY <1>1, <2>1, <2>4, <2>5 DEF Set, RestoreOK
<1>2. IInv /\ [Next]_vars =>
        [at[W1] = "set" /\ value' # value /\ hist.expiring /\ ~hist.disturbed
           => value' = hist.before]_vars
  BY <1>1
<1> QED BY <1>2, Invariant, PTL DEF Spec, ExpiryRestores

\* At rest and undisturbed, the value has its timer flag exactly while a countdown
\* runs and the server shows a timer at most while one does, whatever the commands
\* were (channelio_set_hvac_value, channelio_iterate_hvac_countdown).
THEOREM TimersAgree == Spec => []TimerInStep
<1>1. IInv => TimerInStep
  BY DEF IInv, TimerInv, Rest, TimerInStep
<1> QED BY <1>1, Invariant, PTL
-----------------------------------------------------------------------------
(* A countdown lasts its time.                                             *)

\* The expiry that has met nobody finds the countdown as it was: at its end.
ExpiryInv == at[W1] = "clear" /\ ~hist.overlapped[W1] => countdown.left = 0

LEMMA ExpiryKept ==
  ASSUME IInv, ExpiryInv, [Next]_vars
  PROVE  ExpiryInv'
<1> SUFFICES ASSUME at'[W1] = "clear", ~hist'.overlapped[W1] PROVE countdown'.left = 0
  BY DEF ExpiryInv
<1>t. /\ at \in [Threads -> States] /\ {Conn, W1, Mqtt} \subseteq Threads
      /\ Conn # W1 /\ W1 # Mqtt /\ Mqtt # Conn
      /\ hist \in History
      /\ countdown \in [armed : BOOLEAN, left : Nat, restore : MaybeValue, sent : Nat]
  BY HvacAssumption DEF IInv, ValueInv, HistoryOK, TypeOK, Threads
<1>m. ASSUME NEW t \in {Conn, Mqtt}, Busy(t), Busy(W1) PROVE hist.overlapped[W1]
  BY <1>m, <1>t DEF IInv, MetInv
<1>1. CASE Expire
  BY <1>1 DEF Expire, data
<1>2. CASE ~Expire
  <2>1. at[W1] = "clear"
    BY <1>2, <1>t DEF Next, ConnStep, W1Step, MqttStep, Commit, vars, Go, Leave, AfterCommit,
       Command, Configure, Register, UpdateHvacState, Cancel, KeepRestore, Arm, ConnWeekly,
       Compare, Set, Publish, TellTimer, End, W1Weekly, Countdown, TellLeft,
       Build, Clear, ClearEnd, ClearAvailable, ClearSent, ClearValue, Clearing, Tick,
       NextQuarter, Threads
  <2>2. Busy(W1)
    BY <2>1 DEF Busy
  <2>3. ~hist.overlapped[W1]
    <3>1. ASSUME NEW t \in {Conn, Mqtt}, hist'.overlapped = Met(hist, t).overlapped
          PROVE  hist.overlapped[W1] => hist'.overlapped[W1]
      BY <1>t, <3>1, MetType DEF IInv, ValueInv
    <3>2. ASSUME NEW r \in Requests, Command(r)
          PROVE  hist'.overlapped = Met(hist, Conn).overlapped
      BY <3>2, <1>t, MetType DEF Command, IInv, ValueInv, History
    <3>3. ASSUME NEW c \in Schedules \cup {NoSchedule}, Configure(c)
          PROVE  hist'.overlapped = Met(hist, Conn).overlapped
      BY <3>3, <1>t, MetType DEF Configure, IInv, ValueInv, History
    <3>4. ASSUME NEW u \in Updates, UpdateHvacState(u)
          PROVE  hist'.overlapped = Met(hist, Mqtt).overlapped
      BY <3>4, <1>t, MetType DEF UpdateHvacState, IInv, ValueInv, History
    <3>5. ASSUME NEW t \in Threads, Set(t) \/ End(t)
          PROVE  hist'.overlapped[W1] = hist.overlapped[W1]
      <4>1. CASE Set(t)
        BY <4>1, <1>t DEF Set, History
      <4>2. CASE End(t)
        <5>1. t # W1
          BY <2>1, <4>2 DEF End
        <5>2. /\ DOMAIN hist = {"overlapped", "disturbed", "expiring", "before", "received",
                                "commands", "configs", "updates"}
              /\ hist.overlapped \in [Threads -> BOOLEAN]
          BY <1>t DEF History
        <5>3. hist'.overlapped = [hist.overlapped EXCEPT ![t] = FALSE]
          BY <4>2, <5>2 DEF End
        <5> QED BY <1>t, <5>1, <5>2, <5>3
      <4> QED BY <3>5, <4>1, <4>2
    <3>6. CASE Register
      BY <3>6, <1>t DEF Register, History
    <3>7. \/ hist' = hist \/ Register
          \/ \E r \in Requests : Command(r)
          \/ \E c \in Schedules \cup {NoSchedule} : Configure(c)
          \/ \E u \in Updates : UpdateHvacState(u)
          \/ \E t \in Threads : Set(t) \/ End(t)
      BY <1>t, <1>2, <2>1 DEF Next, ConnStep, W1Step, MqttStep, Commit, vars, Cancel,
         KeepRestore, Arm, ConnWeekly, Compare, Publish, TellTimer, W1Weekly,
         Countdown, TellLeft, Build, Clear, ClearEnd, ClearAvailable, ClearSent, ClearValue,
         Clearing, Tick, NextQuarter
    <3> QED BY <3>1, <3>2, <3>3, <3>4, <3>5, <3>6, <3>7
  <2>4. countdown.left = 0 /\ ~Busy(Conn) /\ ~Busy(Mqtt)
    BY <1>m, <2>1, <2>2, <2>3 DEF ExpiryInv
  <2>5. CASE Tick
    BY <1>t, <2>4, <2>5 DEF Tick
  <2>6. CASE ~Tick
    <3>1. countdown' = countdown
      BY <1>2, <1>t, <2>1, <2>4, <2>6 DEF Next, ConnStep, W1Step, MqttStep, Commit, vars, data, Busy,
       Command, Configure, Register, UpdateHvacState, Cancel, KeepRestore, Arm, ConnWeekly,
       Compare, Set, Publish, TellTimer, End, W1Weekly, Countdown, TellLeft, Go,
       Build, Clear, ClearEnd, ClearAvailable, ClearSent, ClearValue, Clearing, NextQuarter,
       Threads
    <3> QED BY <2>4, <3>1
  <2> QED BY <2>5, <2>6
<1> QED BY <1>1, <1>2

\* A countdown is not ended before its time but by a plain command, or by an expiry
\* that met another section, such as the command that set a new countdown while
\* the last one was being ended (channelio_iterate_hvac_countdown).
LastsItsTime ==
  [][countdown.armed /\ ~countdown'.armed /\ countdown.left > 0 =>
       at[Conn] = "clear" \/ hist.overlapped[W1]]_vars
THEOREM CountdownLasts == Spec => LastsItsTime
<1>1. ASSUME IInv, ExpiryInv, [Next]_vars,
             countdown.armed, ~countdown'.armed, countdown.left > 0
      PROVE  at[Conn] = "clear" \/ hist.overlapped[W1]
  <2>1. ClearEnd(Conn) \/ ClearEnd(W1)
    BY <1>1 DEF Next, ConnStep, W1Step, MqttStep, Commit, vars, data,
       Command, Configure, Register, UpdateHvacState, Cancel, Build, KeepRestore, Arm, ConnWeekly,
       Compare, Set, Publish, TellTimer, End, W1Weekly, Countdown, TellLeft, Expire,
       Clear, ClearAvailable, ClearSent, ClearValue, Clearing, Tick, NextQuarter, IInv, ValueInv, TypeOK
  <2> QED BY <1>1, <2>1 DEF ClearEnd, Clearing, ExpiryInv
<1>2. IInv /\ ExpiryInv /\ [Next]_vars =>
        [countdown.armed /\ ~countdown'.armed /\ countdown.left > 0 =>
           at[Conn] = "clear" \/ hist.overlapped[W1]]_vars
  BY <1>1
<1>3. Init => ExpiryInv
  BY DEF Init, ExpiryInv, NoCountdown
<1> QED BY <1>2, <1>3, ExpiryKept, Invariant, PTL DEF Spec, LastsItsTime
==============================================================================
