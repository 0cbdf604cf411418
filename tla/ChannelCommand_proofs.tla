------------------------- MODULE ChannelCommand_proofs -------------------------
(***************************************************************************)
(* Proofs about ChannelCommand, for every kind of channel, every set of    *)
(* positions, length of an impulse and number of commands and states: the  *)
(* types, that no impulse gets stuck, and what the device and the server   *)
(* know of a channel at rest.                                              *)
(***************************************************************************)
EXTENDS ChannelCommand, TLAPS

\* The values a channel of this kind has.
Own == IF kind = "shutter" THEN Position \cup Move ELSE {"off", "on"}

History == [overlapped : [Threads -> BOOLEAN], disturbed : BOOLEAN, telling : BOOLEAN,
            timed : BOOLEAN, state : Value, commands : Nat, states : Nat]

\* Where a thread can be, and what it then holds.
PlaceOK ==
  /\ \A t \in Threads : at[t] \in {"clear", "set", "set_state", "send"} => held[t] \in Own
  /\ at[Conn] \in {"set", "read", "tell", "restore"} => previous \in Own
  /\ at[Conn] \notin {"set_state", "send"}
  /\ at[Conn] = "restore" => kind = "shutter"
  /\ at[Conn] \in {"report", "arm"} => kind # "shutter"
  /\ at[W1] \notin {"send", "restore", "arm"}
  /\ at[W1] \in {"clear", "set"} => held[W1] = "off"
  /\ at[Mqtt] \in {"idle", "set", "send", "read", "tell", "leave"}
  /\ impulse.armed => kind = "impulse"

ValueInv == TypeOK /\ hist \in History /\ value \in Own /\ PlaceOK

\* A channel that is on because of a timed command has an end, or Conn is about to
\* note it, or the value "off" is about to be set.
ImpulseInv ==
  kind = "impulse" /\ value = "on" /\ hist.timed =>
    \/ impulse.armed
    \/ at[Conn] \in {"read", "tell", "report", "arm"} /\ held[Conn] = "on" /\ time > 0
    \/ \E t \in {Conn, W1} : at[t] = "set" /\ held[t] = "off"
\* Two threads that are busy have met, and that disturbs until Conn puts it right.
MetInv ==
  /\ \A t, u \in Threads : t # u /\ Busy(t) /\ Busy(u) => hist.overlapped[t]
  /\ \A t \in Threads : hist.overlapped[t] => Busy(t) /\ hist.disturbed

\* The device was told the value, as far as it can be.
Follows ==
  (HasOff => HasOn) /\ hist.telling =>
    /\ value = "on" /\ HasOn => device = "on"
    /\ value = "off" /\ HasOff => device = "off"

\* How far a section that has met nobody has come; a command to a shutter, which
\* restores the value, has an invariant of its own.
SoloInv(t) ==
  Busy(t) /\ ~hist.overlapped[t] /\ (t = Conn => kind # "shutter") =>
    /\ at[t] = "tell" => told[t] = value
    /\ at[t] \in {"report", "arm", "leave"} => Follows
    /\ at[t] \in {"arm", "leave"} => shown = value
    /\ t = Mqtt /\ at[t] = "send" => held[t] = value
    /\ t = Mqtt /\ at[t] \in {"read", "tell"} => shown = value

ShutterInv ==
  kind = "shutter" /\ ~hist.disturbed =>
    /\ at[Conn] \in {"read", "tell", "restore"} \/ value = hist.state
    /\ at[Conn] \in {"set", "read", "tell", "restore"} => previous = hist.state
    /\ \/ at[W1] \in {"read", "tell", "report"} \/ at[Mqtt] = "send"
       \/ shown = hist.state

RestInv == Idle /\ ~hist.disturbed => Follows /\ shown = value

OrderInv == MetInv /\ (\A t \in Threads : SoloInv(t)) /\ ShutterInv /\ RestInv
-----------------------------------------------------------------------------
LEMMA Initial == Init => ValueInv /\ ImpulseInv
<1> SUFFICES ASSUME Init PROVE ValueInv /\ ImpulseInv
  OBVIOUS
<1>1. value \in Own /\ value \in Value
  BY DEF Init, State, Own, Value
<1>2. impulse \in [armed : BOOLEAN, left : 0 .. MaxTime] /\ ~impulse.armed /\ impulse.left = 0
  BY CommandAssumption DEF Init, NoImpulse
<1>3. time \in 0 .. MaxTime
  BY CommandAssumption DEF Init
<1>4. TypeOK
  BY <1>1, <1>2, <1>3 DEF Init, TypeOK, Places
<1>5. hist \in History
  BY <1>1 DEF Init, History
<1>6. PlaceOK /\ ImpulseInv
  BY <1>2 DEF Init, PlaceOK, ImpulseInv, Threads
<1> QED BY <1>1, <1>4, <1>5, <1>6 DEF ValueInv

LEMMA MetType ==
  ASSUME hist \in History, NEW t \in Threads
  PROVE  /\ Met(hist, t) \in History
         /\ \A u \in Threads \ {t} :
              Met(hist, t).overlapped[u] = (hist.overlapped[u] \/ Busy(u))
         /\ Met(hist, t).overlapped[t] = (\E u \in Threads \ {t} : Busy(u))
         /\ Met(hist, t).disturbed = (hist.disturbed \/ \E u \in Threads \ {t} : Busy(u))
         /\ Met(hist, t).telling = hist.telling /\ Met(hist, t).timed = hist.timed
         /\ Met(hist, t).state = hist.state
BY DEF History, Met
-----------------------------------------------------------------------------
(* Types.                                                                  *)

LEMMA ValuesKept ==
  ASSUME ValueInv, [Next]_vars
  PROVE  ValueInv'
<1> USE CommandAssumption
<1>0. {Conn, W1, Mqtt} \subseteq Threads
  BY DEF Threads
<1>1. ASSUME NEW c \in Command, NEW d \in 0 .. MaxTime, SetChannel(c, d) PROVE ValueInv'
  <2>1. c \in Own /\ c \in Value
    BY DEF Command, Own, Value
  <2>2. Met(hist, Conn) \in History
    BY <1>0, MetType DEF ValueInv
  <2>3. hist' \in History
    BY <1>1, <2>2 DEF SetChannel, History
  <2>4. TypeOK'
    BY <1>0, <1>1, <2>1 DEF SetChannel, Enter, ValueInv, TypeOK, Places
  <2>5. PlaceOK' /\ value' \in Own'
    BY <1>1, <2>1 DEF SetChannel, Enter, ValueInv, TypeOK, PlaceOK, Own, Threads
  <2> QED BY <2>3, <2>4, <2>5 DEF ValueInv
<1>2. CASE ClearImpulse
  <2>1. impulse' \in [armed : BOOLEAN, left : 0 .. MaxTime]
        /\ (impulse'.left > 0 => impulse'.armed) /\ (impulse'.armed => impulse.armed)
    BY <1>2 DEF ClearImpulse, NoImpulse, ValueInv, TypeOK
  <2>2. TypeOK'
    BY <1>0, <1>2, <2>1 DEF ClearImpulse, Go, ValueInv, TypeOK, Places
  <2>3. PlaceOK' /\ value' \in Own' /\ hist' \in History
    BY <1>2, <2>1 DEF ClearImpulse, Go, ValueInv, TypeOK, PlaceOK, Own, Threads
  <2> QED BY <2>2, <2>3 DEF ValueInv
<1>3. CASE Restore
  <2>1. previous \in Own /\ previous \in Value
    BY <1>3 DEF Restore, ValueInv, PlaceOK, Own, Value
  <2>2. TypeOK'
    BY <1>0, <1>3, <2>1 DEF Restore, Go, ValueInv, TypeOK, Places
  <2>3. PlaceOK' /\ value' \in Own' /\ hist' \in History
    BY <1>3, <2>1 DEF Restore, Go, ValueInv, TypeOK, PlaceOK, Own, Threads
  <2> QED BY <2>2, <2>3 DEF ValueInv
<1>4. CASE ArmImpulse
  <2>1. impulse' \in [armed : BOOLEAN, left : 0 .. MaxTime]
        /\ (impulse'.left > 0 => impulse'.armed) /\ (impulse'.armed => kind = "impulse")
    BY <1>4 DEF ArmImpulse, ValueInv, TypeOK, PlaceOK
  <2>2. TypeOK'
    BY <1>0, <1>4, <2>1 DEF ArmImpulse, Go, ValueInv, TypeOK, Places
  <2>3. PlaceOK' /\ value' \in Own' /\ hist' \in History
    BY <1>4, <2>1 DEF ArmImpulse, Go, ValueInv, TypeOK, PlaceOK, Own, Threads
  <2> QED BY <2>2, <2>3 DEF ValueInv
<1>5. CASE EndImpulse
  <2>1. hist' \in History
    BY <1>0, <1>5, MetType DEF EndImpulse, ValueInv
  <2>2. TypeOK'
    BY <1>0, <1>5 DEF EndImpulse, Enter, ValueInv, TypeOK, Places, Value
  <2>3. PlaceOK' /\ value' \in Own'
    BY <1>5 DEF EndImpulse, Enter, ValueInv, TypeOK, PlaceOK, Own, Threads
  <2> QED BY <2>1, <2>2, <2>3 DEF ValueInv
<1>6. CASE ClearEnded
  <2>1. impulse' \in [armed : BOOLEAN, left : 0 .. MaxTime]
        /\ (impulse'.left > 0 => impulse'.armed) /\ ~impulse'.armed
    BY <1>6 DEF ClearEnded, NoImpulse
  <2>2. TypeOK'
    BY <1>0, <1>6, <2>1 DEF ClearEnded, Go, ValueInv, TypeOK, Places
  <2>3. PlaceOK' /\ value' \in Own' /\ hist' \in History
    BY <1>6, <2>1 DEF ClearEnded, Go, ValueInv, TypeOK, PlaceOK, Own, Threads
  <2> QED BY <2>2, <2>3 DEF ValueInv
<1>7. ASSUME NEW s \in State, ReadState(s) PROVE ValueInv'
  <2>1. s \in Own /\ s \in Value
    BY DEF State, Own, Value
  <2>2. Met(hist, W1) \in History
    BY <1>0, MetType DEF ValueInv
  <2>3. hist' \in History
    BY <1>7, <2>2 DEF ReadState, History
  <2>4. TypeOK'
    BY <1>0, <1>7, <2>1 DEF ReadState, Enter, ValueInv, TypeOK, Places
  <2>5. PlaceOK' /\ value' \in Own'
    BY <1>7, <2>1 DEF ReadState, Enter, ValueInv, TypeOK, PlaceOK, Own, Threads
  <2> QED BY <2>3, <2>4, <2>5 DEF ValueInv
<1>8. ASSUME NEW s \in State, Message(s) PROVE ValueInv'
  <2>1. s \in Own /\ s \in Value
    BY DEF State, Own, Value
  <2>2. Met(hist, Mqtt) \in History
    BY <1>0, MetType DEF ValueInv
  <2>3. hist' \in History
    BY <1>8, <2>2 DEF Message, History
  <2>4. TypeOK'
    BY <1>0, <1>8, <2>1 DEF Message, Enter, ValueInv, TypeOK, Places
  <2>5. PlaceOK' /\ value' \in Own'
    BY <1>8, <2>1 DEF Message, Enter, ValueInv, TypeOK, PlaceOK, Own, Threads
  <2> QED BY <2>3, <2>4, <2>5 DEF ValueInv
<1>9. ASSUME NEW t \in Threads, Set(t) PROVE ValueInv'
  <2>1. held[t] \in Own /\ held[t] \in Value
    BY <1>9 DEF Set, ValueInv, PlaceOK, Own, Value
  <2>2. hist' \in History
    <3> DEFINE timed == t = Conn /\ held[Conn] = "on" /\ time > 0
    <3>1. timed \in BOOLEAN /\ (at[t] = "set") \in BOOLEAN
      OBVIOUS
    <3>2. PICK m \in BOOLEAN, n \in BOOLEAN, v \in Value :
            hist' = [hist EXCEPT !.telling = m, !.timed = n, !.state = v]
      BY <1>9, <2>1, <3>1 DEF Set, ValueInv, History
    <3> QED BY <3>2 DEF ValueInv, History
  <2>3. TypeOK'
    BY <1>0, <1>9, <2>1 DEF Set, Go, ValueInv, TypeOK, Places
  <2>4. PlaceOK' /\ value' \in Own'
    BY <1>9, <2>1 DEF Set, Go, ValueInv, TypeOK, PlaceOK, Own, Threads
  <2> QED BY <2>2, <2>3, <2>4 DEF ValueInv
<1>10. CASE SendState
  <2>1. held[Mqtt] \in Value
    BY <1>0, <1>10 DEF SendState, ValueInv, PlaceOK, Own, Value
  <2>2. TypeOK'
    BY <1>0, <1>10, <2>1 DEF SendState, Go, ValueInv, TypeOK, Places
  <2>3. PlaceOK' /\ value' \in Own' /\ hist' \in History
    BY <1>10 DEF SendState, Go, ValueInv, TypeOK, PlaceOK, Own, Threads
  <2> QED BY <2>2, <2>3 DEF ValueInv
<1>11. ASSUME NEW t \in Threads, ReadToTell(t) PROVE ValueInv'
  <2>1. TypeOK'
    BY <1>11 DEF ReadToTell, Go, ValueInv, TypeOK, Places
  <2>2. PlaceOK' /\ value' \in Own' /\ hist' \in History
    BY <1>11 DEF ReadToTell, Go, ValueInv, TypeOK, PlaceOK, Own, Threads
  <2> QED BY <2>1, <2>2 DEF ValueInv
<1>12. ASSUME NEW t \in Threads, Tell(t) PROVE ValueInv'
  <2>1. device' \in {"unknown", "off", "on"}
    BY <1>12 DEF Tell, Runs, ValueInv, TypeOK
  <2>2. TypeOK'
    BY <1>12, <2>1 DEF Tell, Go, ValueInv, TypeOK, Places
  <2>3. PlaceOK' /\ value' \in Own' /\ hist' \in History
    BY <1>12 DEF Tell, Go, ValueInv, TypeOK, PlaceOK, Own, Threads
  <2> QED BY <2>2, <2>3 DEF ValueInv
<1>13. ASSUME NEW t \in Threads, Report(t) PROVE ValueInv'
  <2>1. TypeOK'
    BY <1>13 DEF Report, Go, ValueInv, TypeOK, Places
  <2>2. PlaceOK' /\ value' \in Own' /\ hist' \in History
    BY <1>13 DEF Report, Go, ValueInv, TypeOK, PlaceOK, Own, Threads
  <2> QED BY <2>1, <2>2 DEF ValueInv
<1>14. ASSUME NEW t \in Threads, End(t) PROVE ValueInv'
  <2>1. hist' \in History
    BY <1>14 DEF End, ValueInv, History
  <2>2. TypeOK'
    BY <1>14 DEF End, Go, ValueInv, TypeOK, Places
  <2>3. PlaceOK' /\ value' \in Own'
    BY <1>14 DEF End, Go, ValueInv, TypeOK, PlaceOK, Own, Threads
  <2> QED BY <2>1, <2>2, <2>3 DEF ValueInv
<1>15. CASE Tick
  BY <1>15 DEF Tick, ValueInv, TypeOK, PlaceOK, Own
<1>16. CASE UNCHANGED vars
  BY <1>16 DEF vars, ValueInv, TypeOK, PlaceOK, Own
<1> QED
  BY <1>1, <1>2, <1>3, <1>4, <1>5, <1>6, <1>7, <1>8, <1>9, <1>10, <1>11, <1>12, <1>13,
     <1>14, <1>15, <1>16
  DEF Next, ConnStep, W1Step, MqttStep, Shared, Threads
-----------------------------------------------------------------------------
(* Impulses.                                                               *)

LEMMA ImpulseKept ==
  ASSUME ValueInv, ImpulseInv, [Next]_vars
  PROVE  ImpulseInv'
<1> USE CommandAssumption
<1>0. {Conn, W1, Mqtt} \subseteq Threads /\ at \in [Threads -> Places]
      /\ held \in [Threads -> Value \cup {Nothing}]
  BY DEF Threads, ValueInv, TypeOK
<1>1. ASSUME NEW c \in Command, NEW d \in 0 .. MaxTime, SetChannel(c, d) PROVE ImpulseInv'
  <2>1. hist'.timed = hist.timed
    BY <1>0, <1>1, MetType DEF SetChannel, ValueInv, History
  <2> QED BY <1>0, <1>1, <2>1 DEF SetChannel, Enter, ImpulseInv
<1>2. CASE ClearImpulse
  BY <1>0, <1>2 DEF ClearImpulse, Go, ImpulseInv
<1>3. CASE Restore
  BY <1>3 DEF Restore, ValueInv, PlaceOK, ImpulseInv
<1>4. CASE ArmImpulse
  BY <1>0, <1>4 DEF ArmImpulse, Go, ImpulseInv
<1>5. CASE EndImpulse
  <2>1. hist'.timed = hist.timed
    BY <1>0, <1>5, MetType DEF EndImpulse, ValueInv
  <2> QED BY <1>0, <1>5, <2>1 DEF EndImpulse, Enter, ImpulseInv
<1>6. CASE ClearEnded
  BY <1>0, <1>6 DEF ClearEnded, Go, ValueInv, PlaceOK, ImpulseInv
<1>7. ASSUME NEW s \in State, ReadState(s) PROVE ImpulseInv'
  <2>1. hist'.timed = hist.timed
    BY <1>0, <1>7, MetType DEF ReadState, ValueInv, History
  <2> QED BY <1>0, <1>7, <2>1 DEF ReadState, Enter, ImpulseInv
<1>8. ASSUME NEW s \in State, Message(s) PROVE ImpulseInv'
  <2>1. hist'.timed = hist.timed
    BY <1>0, <1>8, MetType DEF Message, ValueInv, History
  <2> QED BY <1>0, <1>8, <2>1 DEF Message, Enter, ImpulseInv
<1>9. ASSUME NEW t \in Threads, Set(t) PROVE ImpulseInv'
  <2>1. hist'.timed = (t = Conn /\ held[Conn] = "on" /\ time > 0)
    BY <1>9 DEF Set, ValueInv, History
  <2>2. t = Conn => at[Conn] = "set"
    BY <1>9 DEF Set, ValueInv, PlaceOK
  <2>3. hist'.timed => at'[Conn] = "read" /\ held'[Conn] = "on" /\ time' > 0
    BY <1>0, <1>9, <2>1, <2>2 DEF Set, Go
  <2> QED BY <2>3 DEF ImpulseInv
<1>10. CASE SendState
  BY <1>0, <1>10 DEF SendState, Go, ImpulseInv
<1>11. ASSUME NEW t \in Threads, ReadToTell(t) PROVE ImpulseInv'
  BY <1>0, <1>11 DEF ReadToTell, Go, ImpulseInv
<1>12. ASSUME NEW t \in Threads, Tell(t) PROVE ImpulseInv'
  BY <1>0, <1>12 DEF Tell, Go, ImpulseInv
<1>13. ASSUME NEW t \in Threads, Report(t) PROVE ImpulseInv'
  BY <1>0, <1>13 DEF Report, Go, ImpulseInv
<1>14. ASSUME NEW t \in Threads, End(t) PROVE ImpulseInv'
  <2>1. hist'.timed = hist.timed
    BY <1>14 DEF End, ValueInv, History
  <2> QED BY <1>0, <1>14, <2>1 DEF End, Go, ImpulseInv
<1>15. CASE Tick
  BY <1>15 DEF Tick, ValueInv, TypeOK, ImpulseInv
<1>16. CASE UNCHANGED vars
  BY <1>16 DEF vars, ImpulseInv
<1> QED
  BY <1>1, <1>2, <1>3, <1>4, <1>5, <1>6, <1>7, <1>8, <1>9, <1>10, <1>11, <1>12, <1>13,
     <1>14, <1>15, <1>16
  DEF Next, ConnStep, W1Step, MqttStep, Shared, Threads
-----------------------------------------------------------------------------
(* The order of the sections.                                              *)

LEMMA OrderInitial == Init => OrderInv
BY DEF Init, OrderInv, MetInv, SoloInv, ShutterInv, RestInv, Follows, Busy, Threads

\* A shutter is never on or off.
LEMMA ShutterFollows ==
  ASSUME ValueInv, kind = "shutter"
  PROVE  Follows
BY CommandAssumption DEF ValueInv, Own, Follows

\* While nothing is disturbed, one thread at most is busy.
LEMMA OneBusy ==
  ASSUME MetInv, ~hist.disturbed, NEW t \in Threads, Busy(t), NEW u \in Threads, u # t
  PROVE  at[u] = "idle"
BY DEF MetInv, Busy

\* A section of t begins at s.
LEMMA Entered ==
  ASSUME ValueInv, OrderInv, NEW t \in Threads, NEW s, s # "idle",
         at[t] = "idle", at' = [at EXCEPT ![t] = s],
         hist'.overlapped = Met(hist, t).overlapped,
         hist'.disturbed = Met(hist, t).disturbed,
         SoloInv(t)'
  PROVE  MetInv' /\ (\A u \in Threads : SoloInv(u)') /\ RestInv'
<1>1. at \in [Threads -> Places] /\ hist \in History
  BY DEF ValueInv, TypeOK
<1>2. \A u \in Threads \ {t} :
        (hist'.overlapped[u] <=> hist.overlapped[u] \/ Busy(u)) /\ at'[u] = at[u]
  <2>1. ASSUME NEW u \in Threads \ {t}
        PROVE  /\ Met(hist, t).overlapped[u] <=> hist.overlapped[u] \/ Busy(u)
               /\ at'[u] = at[u]
    BY <1>1, MetType
  <2> QED BY <2>1
<1>3. hist'.overlapped[t] <=> \E u \in Threads \ {t} : Busy(u)
  BY <1>1, MetType
<1>4. hist'.disturbed = (hist.disturbed \/ \E u \in Threads \ {t} : Busy(u))
  BY <1>1, MetType
<1>5. at'[t] # "idle"
  BY <1>1
<1>6. MetInv'
  <2>1. ASSUME NEW u \in Threads, NEW w \in Threads, u # w, Busy(u)', Busy(w)'
        PROVE  hist'.overlapped[u]
    BY <1>2, <1>3, <2>1 DEF Busy, OrderInv, MetInv
  <2>2. ASSUME NEW u \in Threads, hist'.overlapped[u]
        PROVE  Busy(u)' /\ hist'.disturbed
    BY <1>2, <1>3, <1>4, <1>5, <2>2 DEF Busy, OrderInv, MetInv
  <2> QED BY <2>1, <2>2 DEF MetInv
<1>7. \A u \in Threads \ {t} : SoloInv(u)'
  BY <1>2 DEF SoloInv, Busy
<1>8. RestInv'
  BY <1>5 DEF RestInv, Idle, Busy
<1> QED BY <1>6, <1>7, <1>8

\* The section of t goes on at s.
LEMMA WentOn ==
  ASSUME ValueInv, OrderInv, NEW t \in Threads, NEW s, s # "idle",
         Busy(t), at' = [at EXCEPT ![t] = s],
         hist'.overlapped = hist.overlapped, hist'.disturbed = hist.disturbed,
         SoloInv(t)'
  PROVE  MetInv' /\ (\A u \in Threads : SoloInv(u)') /\ RestInv'
<1>1. at \in [Threads -> Places]
  BY DEF ValueInv, TypeOK
<1>2. at'[t] # "idle" /\ \A u \in Threads \ {t} : at'[u] = at[u]
  BY <1>1
<1>3. MetInv'
  BY <1>2 DEF OrderInv, MetInv, Busy
<1>4. \A u \in Threads \ {t} : SoloInv(u)'
  BY <1>2 DEF OrderInv, MetInv, SoloInv, Busy
<1>5. RestInv'
  BY <1>2 DEF RestInv, Idle, Busy
<1> QED BY <1>3, <1>4, <1>5

LEMMA OrderKept ==
  ASSUME ValueInv, OrderInv, [Next]_vars
  PROVE  OrderInv'
<1> USE CommandAssumption
<1>0. {Conn, W1, Mqtt} \subseteq Threads /\ at \in [Threads -> Places]
      /\ held \in [Threads -> Value \cup {Nothing}] /\ told \in [Threads -> Value \cup {Nothing}]
      /\ hist \in History
  BY DEF Threads, ValueInv, TypeOK
<1>a. ~hist.disturbed =>
        \A t, u \in Threads : t # u /\ Busy(t) => at[u] = "idle"
  BY OneBusy DEF OrderInv
<1>b. \A t \in Threads : Busy(t) /\ ~hist.disturbed => ~hist.overlapped[t]
  BY DEF OrderInv, MetInv
<1>1. ASSUME NEW c \in Command, NEW d \in 0 .. MaxTime, SetChannel(c, d) PROVE OrderInv'
  <2>1. at' = [at EXCEPT ![Conn] = "clear"] /\ at[Conn] = "idle"
    BY <1>1 DEF SetChannel, Enter
  <2>2. hist' = [Met(hist, Conn) EXCEPT !.commands = @ + 1] /\ Met(hist, Conn) \in History
    BY <1>0, <1>1, MetType DEF SetChannel
  <2>3. /\ hist'.overlapped = Met(hist, Conn).overlapped
        /\ hist'.disturbed = Met(hist, Conn).disturbed /\ hist'.state = hist.state
    BY <1>0, <2>2, MetType DEF History
  <2>4. SoloInv(Conn)'
    BY <1>0, <2>1 DEF SoloInv
  <2>5. MetInv' /\ (\A u \in Threads : SoloInv(u)') /\ RestInv'
    BY <1>0, <2>1, <2>3, <2>4, Entered
  <2>6. hist.disturbed => hist'.disturbed
    BY <1>0, <2>3, MetType
  <2>7. ShutterInv'
    BY <1>0, <1>1, <2>1, <2>3, <2>6 DEF SetChannel, OrderInv, ShutterInv
  <2> QED BY <2>5, <2>7 DEF OrderInv
<1>2. CASE ClearImpulse
  <2>1. at' = [at EXCEPT ![Conn] = "set"] /\ at[Conn] = "clear" /\ UNCHANGED <<kind, value, shown, hist>>
        /\ previous' = value
    BY <1>2 DEF ClearImpulse, Go
  <2>2. SoloInv(Conn)'
    BY <1>0, <2>1 DEF SoloInv
  <2>3. MetInv' /\ (\A u \in Threads : SoloInv(u)') /\ RestInv'
    BY <1>0, <2>1, <2>2, WentOn DEF Busy
  <2>4. ShutterInv'
    BY <1>0, <2>1 DEF OrderInv, ShutterInv
  <2> QED BY <2>3, <2>4 DEF OrderInv
<1>3. CASE Restore
  <2>1. at' = [at EXCEPT ![Conn] = "leave"] /\ at[Conn] = "restore" /\ UNCHANGED <<kind, shown, hist>>
        /\ value' = previous /\ kind = "shutter"
    BY <1>3 DEF Restore, Go, ValueInv, PlaceOK
  <2>2. SoloInv(Conn)'
    BY <2>1 DEF SoloInv
  <2>3. MetInv' /\ (\A u \in Threads : SoloInv(u)') /\ RestInv'
    BY <1>0, <2>1, <2>2, WentOn DEF Busy
  <2>4. ShutterInv'
    BY <1>0, <2>1 DEF OrderInv, ShutterInv
  <2> QED BY <2>3, <2>4 DEF OrderInv
<1>4. CASE ArmImpulse
  <2>1. at' = [at EXCEPT ![Conn] = "leave"] /\ at[Conn] = "arm"
        /\ UNCHANGED <<kind, value, device, shown, hist>> /\ kind # "shutter"
    BY <1>4 DEF ArmImpulse, Go, ValueInv, PlaceOK
  <2>2. SoloInv(Conn)'
    BY <1>0, <2>1 DEF OrderInv, SoloInv, Follows, Busy
  <2>3. MetInv' /\ (\A u \in Threads : SoloInv(u)') /\ RestInv'
    BY <1>0, <2>1, <2>2, WentOn DEF Busy
  <2>4. ShutterInv'
    BY <2>1 DEF ShutterInv
  <2> QED BY <2>3, <2>4 DEF OrderInv
<1>5. CASE EndImpulse
  <2>1. at' = [at EXCEPT ![W1] = "clear"] /\ at[W1] = "idle" /\ hist' = Met(hist, W1) /\ kind # "shutter"
        /\ UNCHANGED kind
    BY <1>5 DEF EndImpulse, Enter, ValueInv, PlaceOK
  <2>2. SoloInv(W1)'
    BY <1>0, <2>1 DEF SoloInv
  <2>3. MetInv' /\ (\A u \in Threads : SoloInv(u)') /\ RestInv'
    BY <1>0, <2>1, <2>2, Entered
  <2>4. ShutterInv'
    BY <2>1 DEF ShutterInv
  <2> QED BY <2>3, <2>4 DEF OrderInv
<1>6. CASE ClearEnded
  <2>1. at' = [at EXCEPT ![W1] = "set"] /\ at[W1] = "clear"
        /\ UNCHANGED <<kind, value, previous, shown, hist>>
    BY <1>6 DEF ClearEnded, Go
  <2>2. SoloInv(W1)'
    BY <1>0, <2>1 DEF SoloInv
  <2>3. MetInv' /\ (\A u \in Threads : SoloInv(u)') /\ RestInv'
    BY <1>0, <2>1, <2>2, WentOn DEF Busy
  <2>4. ShutterInv'
    BY <1>0, <2>1 DEF OrderInv, ShutterInv
  <2> QED BY <2>3, <2>4 DEF OrderInv
<1>7. ASSUME NEW s \in State, ReadState(s) PROVE OrderInv'
  <2>1. at' = [at EXCEPT ![W1] = "set_state"] /\ at[W1] = "idle"
    BY <1>7 DEF ReadState, Enter
  <2>2. hist' = [Met(hist, W1) EXCEPT !.states = @ + 1] /\ Met(hist, W1) \in History
    BY <1>0, <1>7, MetType DEF ReadState
  <2>3. /\ hist'.overlapped = Met(hist, W1).overlapped
        /\ hist'.disturbed = Met(hist, W1).disturbed /\ hist'.state = hist.state
    BY <1>0, <2>2, MetType DEF History
  <2>4. SoloInv(W1)'
    BY <1>0, <2>1 DEF SoloInv
  <2>5. MetInv' /\ (\A u \in Threads : SoloInv(u)') /\ RestInv'
    BY <1>0, <2>1, <2>3, <2>4, Entered
  <2>6. hist.disturbed => hist'.disturbed
    BY <1>0, <2>3, MetType
  <2>7. ShutterInv'
    BY <1>0, <1>7, <2>1, <2>3, <2>6 DEF ReadState, OrderInv, ShutterInv
  <2> QED BY <2>5, <2>7 DEF OrderInv
<1>8. ASSUME NEW s \in State, Message(s) PROVE OrderInv'
  <2>1. at' = [at EXCEPT ![Mqtt] = "set"] /\ at[Mqtt] = "idle"
    BY <1>8 DEF Message, Enter
  <2>2. hist' = [Met(hist, Mqtt) EXCEPT !.states = @ + 1] /\ Met(hist, Mqtt) \in History
    BY <1>0, <1>8, MetType DEF Message
  <2>3. /\ hist'.overlapped = Met(hist, Mqtt).overlapped
        /\ hist'.disturbed = Met(hist, Mqtt).disturbed /\ hist'.state = hist.state
    BY <1>0, <2>2, MetType DEF History
  <2>4. SoloInv(Mqtt)'
    BY <1>0, <2>1 DEF SoloInv
  <2>5. MetInv' /\ (\A u \in Threads : SoloInv(u)') /\ RestInv'
    BY <1>0, <2>1, <2>3, <2>4, Entered
  <2>6. hist.disturbed => hist'.disturbed
    BY <1>0, <2>3, MetType
  <2>7. ShutterInv'
    BY <1>0, <1>8, <2>1, <2>3, <2>6 DEF Message, OrderInv, ShutterInv
  <2> QED BY <2>5, <2>7 DEF OrderInv
<1>9. ASSUME NEW t \in Threads, Set(t) PROVE OrderInv'
  <2> DEFINE s == CASE at[t] = "set_state" -> "report"
                    [] t = Mqtt -> "send"
                    [] OTHER -> "read"
  <2>1. at' = [at EXCEPT ![t] = s] /\ at[t] \in {"set", "set_state"} /\ value' = held[t]
        /\ UNCHANGED <<kind, held, previous, shown>>
    BY <1>9 DEF Set, Go
  <2>2. /\ hist'.overlapped = hist.overlapped /\ hist'.disturbed = hist.disturbed
        /\ hist'.telling = (at[t] = "set")
        /\ hist'.state = IF t = Conn THEN hist.state ELSE held[t]
    BY <1>0, <1>9 DEF Set, History
  <2>3. at'[t] = s /\ s # "idle"
    BY <1>0, <2>1
  <2>4. at[t] = "set_state" => t = W1
    BY <2>1, <1>0 DEF ValueInv, PlaceOK, Threads
  <2>5. SoloInv(t)'
    <3>1. CASE t = Mqtt
      BY <1>0, <2>1, <2>3, <2>4, <3>1 DEF SoloInv
    <3>2. CASE t # Mqtt /\ at[t] = "set"
      BY <2>3, <3>2 DEF SoloInv
    <3>3. CASE t # Mqtt /\ at[t] = "set_state"
      BY <2>2, <2>3, <3>3 DEF SoloInv, Follows
    <3> QED BY <2>1, <3>1, <3>2, <3>3
  <2>6. MetInv' /\ (\A u \in Threads : SoloInv(u)') /\ RestInv'
    <3> HIDE DEF s
    <3> QED BY <2>1, <2>2, <2>3, <2>5, WentOn DEF Busy
  <2>7. ShutterInv'
    <3> SUFFICES ASSUME kind = "shutter", ~hist.disturbed PROVE ShutterInv'
      BY <2>1, <2>2 DEF ShutterInv
    <3>1. \A u \in Threads \ {t} : at[u] = "idle" /\ at'[u] = "idle"
      BY <1>0, <1>a, <2>1 DEF Busy
    <3>2. CASE t = Conn
      BY <1>0, <2>1, <2>2, <2>3, <2>4, <3>1, <3>2 DEF OrderInv, ShutterInv
    <3>3. CASE t # Conn
      BY <1>0, <2>1, <2>2, <2>3, <2>4, <3>1, <3>3 DEF ShutterInv, Threads
    <3> QED BY <3>2, <3>3
  <2> QED BY <2>6, <2>7 DEF OrderInv
<1>10. CASE SendState
  <2>1. at' = [at EXCEPT ![Mqtt] = "read"] /\ at[Mqtt] = "send" /\ shown' = held[Mqtt]
        /\ UNCHANGED <<kind, value, previous, hist>>
    BY <1>10 DEF SendState, Go
  <2>2. SoloInv(Mqtt)'
    BY <1>0, <2>1 DEF OrderInv, SoloInv, Busy
  <2>3. MetInv' /\ (\A u \in Threads : SoloInv(u)') /\ RestInv'
    BY <1>0, <2>1, <2>2, WentOn DEF Busy
  <2>4. ShutterInv'
    <3> SUFFICES ASSUME kind = "shutter", ~hist.disturbed PROVE ShutterInv'
      BY <2>1 DEF ShutterInv
    <3>1. at[Conn] = "idle" /\ held[Mqtt] = value
      BY <1>0, <1>a, <1>b, <2>1 DEF OrderInv, SoloInv, Busy
    <3> QED BY <1>0, <2>1, <3>1 DEF OrderInv, ShutterInv
  <2> QED BY <2>3, <2>4 DEF OrderInv
<1>11. ASSUME NEW t \in Threads, ReadToTell(t) PROVE OrderInv'
  <2>1. at' = [at EXCEPT ![t] = "tell"] /\ at[t] = "read" /\ told' = [told EXCEPT ![t] = value]
        /\ UNCHANGED <<kind, value, previous, shown, hist>>
    BY <1>11 DEF ReadToTell, Go
  <2>2. SoloInv(t)'
    BY <1>0, <2>1 DEF OrderInv, SoloInv, Busy
  <2>3. MetInv' /\ (\A u \in Threads : SoloInv(u)') /\ RestInv'
    BY <1>0, <2>1, <2>2, WentOn DEF Busy
  <2>4. ShutterInv'
    BY <1>0, <2>1 DEF OrderInv, ShutterInv, Threads
  <2> QED BY <2>3, <2>4 DEF OrderInv
<1>12. ASSUME NEW t \in Threads, Tell(t) PROVE OrderInv'
  <2> DEFINE s == CASE t = Mqtt -> "leave"
                    [] t = Conn /\ kind = "shutter" -> "restore"
                    [] OTHER -> "report"
  <2>1. at' = [at EXCEPT ![t] = s] /\ at[t] = "tell"
        /\ device' = (IF Runs(told[t]) THEN told[t] ELSE device)
        /\ UNCHANGED <<kind, value, previous, shown, hist>>
    BY <1>12, Zenon DEF Tell, Go
  <2>2. at'[t] = s
    BY <1>0, <2>1
  <2>3. told[t] = value => Follows'
    <3>1. CASE value = "on" /\ HasOn
      BY <2>1, <3>1 DEF Follows, Runs
    <3>2. CASE value = "off" /\ HasOff /\ HasOn
      BY <2>1, <3>2 DEF Follows, Runs
    <3> QED BY <2>1, <3>1, <3>2 DEF Follows
  <2>4. SoloInv(t)'
    BY <1>0, <2>1, <2>2, <2>3 DEF OrderInv, SoloInv, Busy
  <2>5. MetInv' /\ (\A u \in Threads : SoloInv(u)') /\ RestInv'
    <3>1. s # "idle"
      OBVIOUS
    <3> HIDE DEF s
    <3> QED BY <2>1, <2>4, <3>1, WentOn DEF Busy
  <2>6. ShutterInv'
    BY <1>0, <2>1, <2>2 DEF OrderInv, ShutterInv, Threads
  <2> QED BY <2>5, <2>6 DEF OrderInv
<1>13. ASSUME NEW t \in Threads, Report(t) PROVE OrderInv'
  <2> DEFINE s == IF t = Conn THEN "arm" ELSE "leave"
  <2>1. at' = [at EXCEPT ![t] = s] /\ at[t] = "report" /\ shown' = value
        /\ UNCHANGED <<kind, value, previous, device, hist>>
    BY <1>13 DEF Report, Go
  <2>2. at'[t] = s
    BY <1>0, <2>1
  <2>3. SoloInv(t)'
    BY <1>0, <2>1, <2>2 DEF OrderInv, SoloInv, Follows, Busy
  <2>4. MetInv' /\ (\A u \in Threads : SoloInv(u)') /\ RestInv'
    <3>1. s # "idle"
      OBVIOUS
    <3> HIDE DEF s
    <3> QED BY <2>1, <2>3, <3>1, WentOn DEF Busy
  <2>5. ShutterInv'
    <3> SUFFICES ASSUME kind = "shutter", ~hist.disturbed PROVE ShutterInv'
      BY <2>1 DEF ShutterInv
    <3>1. t = W1
      BY <1>0, <2>1 DEF ValueInv, PlaceOK, Threads
    <3>2. at[Conn] = "idle"
      BY <1>0, <1>a, <2>1, <3>1 DEF Busy
    <3> QED BY <1>0, <2>1, <3>1, <3>2 DEF OrderInv, ShutterInv
  <2> QED BY <2>4, <2>5 DEF OrderInv
<1>14. ASSUME NEW t \in Threads, End(t) PROVE OrderInv'
  <2>1. at' = [at EXCEPT ![t] = "idle"] /\ at[t] = "leave"
        /\ UNCHANGED <<kind, value, device, shown>>
        /\ previous' = (IF t = Conn THEN Nothing ELSE previous)
    BY <1>14 DEF End, Go
  <2>2. /\ hist'.overlapped = [hist.overlapped EXCEPT ![t] = FALSE]
        /\ hist'.telling = hist.telling /\ hist'.state = hist.state
        /\ hist'.disturbed <=> hist.disturbed
              /\ ~(t = Conn /\ kind # "shutter" /\ ~hist.overlapped[Conn])
    BY <1>0, <1>14 DEF End, History
  <2>3. \A u \in Threads \ {t} : at'[u] = at[u] /\ hist'.overlapped[u] = hist.overlapped[u]
    BY <1>0, <2>1, <2>2 DEF History
  <2>4. at'[t] = "idle" /\ ~hist'.overlapped[t] /\ Busy(t)
    BY <1>0, <2>1, <2>2 DEF History, Busy
  <2>5. MetInv'
    <3>1. ASSUME NEW u \in Threads, NEW w \in Threads, u # w, Busy(u)', Busy(w)'
          PROVE  hist'.overlapped[u]
      BY <2>3, <2>4, <3>1 DEF OrderInv, MetInv, Busy
    <3>2. ASSUME NEW u \in Threads, hist'.overlapped[u] PROVE Busy(u)' /\ hist'.disturbed
      BY <2>2, <2>3, <2>4, <3>2 DEF OrderInv, MetInv, Busy
    <3> QED BY <3>1, <3>2 DEF MetInv
  <2>6. ASSUME NEW u \in Threads PROVE SoloInv(u)'
    BY <2>3, <2>4 DEF OrderInv, MetInv, SoloInv, Busy
  <2>7. ShutterInv'
    BY <1>0, <2>1, <2>2 DEF OrderInv, ShutterInv, Threads
  <2>8. RestInv'
    <3> SUFFICES ASSUME ~hist'.disturbed PROVE Follows' /\ shown' = value'
      BY DEF RestInv
    <3>1. Follows => Follows'
      BY <2>1, <2>2 DEF Follows
    <3>2. ~hist.overlapped[t]
      BY <1>b, <2>2, <2>4
    <3>3. CASE t = Conn /\ kind = "shutter"
      <4>1. ~hist.disturbed /\ Follows
        BY <2>2, <3>3, ShutterFollows
      <4>2. at[W1] = "idle" /\ at[Mqtt] = "idle"
        BY <1>0, <1>a, <2>4, <3>3, <4>1
      <4> QED BY <2>1, <3>1, <3>3, <4>1, <4>2 DEF OrderInv, ShutterInv
    <3>4. CASE ~(t = Conn /\ kind = "shutter")
      BY <2>1, <2>4, <3>1, <3>2, <3>4 DEF OrderInv, SoloInv
    <3> QED BY <3>3, <3>4
  <2> QED BY <2>5, <2>6, <2>7, <2>8 DEF OrderInv
<1>15. CASE Tick
  BY <1>15 DEF Tick, OrderInv, MetInv, SoloInv, ShutterInv, RestInv, Follows, Idle, Busy
<1>16. CASE UNCHANGED vars
  BY <1>16 DEF vars, OrderInv, MetInv, SoloInv, ShutterInv, RestInv, Follows, Idle, Busy
<1> QED
  BY <1>1, <1>2, <1>3, <1>4, <1>5, <1>6, <1>7, <1>8, <1>9, <1>10, <1>11, <1>12, <1>13,
     <1>14, <1>15, <1>16
  DEF Next, ConnStep, W1Step, MqttStep, Shared, Threads
-----------------------------------------------------------------------------
IInv == ValueInv /\ ImpulseInv /\ OrderInv

LEMMA Invariant == Spec => []IInv
<1>1. Init => IInv
  BY Initial, OrderInitial DEF IInv
<1>2. IInv /\ [Next]_vars => IInv'
  BY ValuesKept, ImpulseKept, OrderKept DEF IInv
<1> QED BY <1>1, <1>2, PTL DEF Spec

\* The variables keep their types: whatever the commands and states, the channel
\* and what is told of it stay values of the channel.
THEOREM TypeCorrect == Spec => []TypeOK
<1>1. IInv => TypeOK
  BY DEF IInv, ValueInv
<1> QED BY <1>1, Invariant, PTL

\* A channel at rest that a timed command has switched on has an end, whatever the
\* order of the threads.
THEOREM ImpulseHasEnd == Spec => []NoStuckImpulse
<1>1. IInv => NoStuckImpulse
  <2> SUFFICES ASSUME IInv, kind = "impulse", Idle, value = "on", hist.timed
               PROVE  impulse.armed
    BY DEF NoStuckImpulse
  <2>1. at[Conn] = "idle" /\ at[W1] = "idle"
    BY DEF Idle, Busy, Threads
  <2> QED BY <2>1 DEF IInv, ImpulseInv
<1> QED BY <1>1, Invariant, PTL

\* Where command_off comes with command_on, the device was told the value of a
\* channel at rest that no overlap has disturbed.
THEOREM DeviceIsTold == (HasOff => HasOn) => (Spec => []DeviceFollows)
<1> SUFFICES ASSUME HasOff => HasOn PROVE Spec => []DeviceFollows
  OBVIOUS
<1>1. IInv => DeviceFollows
  BY DEF IInv, OrderInv, RestInv, Follows, DeviceFollows
<1> QED BY <1>1, Invariant, PTL

\* The server shows the value of such a channel.
THEOREM ServerIsTold == Spec => []ServerFollows
<1>1. IInv => ServerFollows
  BY DEF IInv, OrderInv, RestInv, ServerFollows
<1> QED BY <1>1, Invariant, PTL

\* A shutter whose commands met no state from elsewhere has the last position read.
THEOREM PositionRestored == Spec => []PositionKept
<1>1. IInv => PositionKept
  <2> SUFFICES ASSUME IInv, Idle PROVE PositionKept
    BY DEF PositionKept
  <2>1. at[Conn] = "idle"
    BY DEF Idle, Busy, Threads
  <2> QED BY <2>1 DEF IInv, OrderInv, ShutterInv, PositionKept
<1> QED BY <1>1, Invariant, PTL
==============================================================================
