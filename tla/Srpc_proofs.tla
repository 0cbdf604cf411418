----------------------------- MODULE Srpc_proofs -----------------------------
(***************************************************************************)
(* Proofs about module Srpc, for any number of threads, any sizes of the   *)
(* queues and any traffic.  The inductive invariant is the conjunction of  *)
(* TypeOK and of                                                           *)
(*   - OutInv: the calls are written, in the hand of Conn or in the out    *)
(*     queue, in this order, and Conn holds one only before the write;     *)
(*   - InInv: the frames are handled, in the in queue, in the in buffer or *)
(*     just read, in this order, and the in queue holds a frame only from  *)
(*     the callback's call until its handler has fetched it;               *)
(*   - WakeInv: raise_event tells, wherever it will be used, whether the   *)
(*     in buffer holds a frame, and whoever leaves work leaves the event.  *)
(***************************************************************************)
EXTENDS Srpc, SequenceTheorems, TLAPS

OutInv ==
  /\ AcceptedInOrder
  /\ Len(chunk) = IF pc = "write" THEN 1 ELSE 0

InInv ==
  /\ ReceivedInOrder
  /\ got # <<>> => pc \in {"append", "dead"}
  /\ Len(in_queue) = IF pc = "callback" THEN 1 ELSE 0

WakeInv ==
  /\ pc = "append" => ~raise_event
  /\ pc \in {"callback", "handler", "write", "post"} =>
       raise_event = (in_buffer # <<>>)
  /\ NoLostWakeup

IInv == TypeOK /\ OutInv /\ InInv /\ WakeInv
-----------------------------------------------------------------------------
(* Sequences of packets.                                                   *)

LEMMA Associative ==
  ASSUME NEW p \in Seq(Packet), NEW q \in Seq(Packet), NEW r \in Seq(Packet)
  PROVE  (p \o q) \o r = p \o (q \o r)
BY ConcatAssociative

\* The head of a queue may move to the end of the sequence before it
\* (srpc_queue_pop followed by the write or by the handler).
LEMMA MoveHead ==
  ASSUME NEW p \in Seq(Packet), NEW q \in Seq(Packet), q # <<>>
  PROVE  /\ <<Head(q)>> \in Seq(Packet)
         /\ <<Head(q)>> \o Tail(q) = q
         /\ (p \o <<Head(q)>>) \o Tail(q) = p \o q
         /\ Append(p, Head(q)) \o Tail(q) = p \o q
<1>1. Head(q) \in Packet /\ Tail(q) \in Seq(Packet)
  BY HeadTailProperties
<1>2. <<Head(q)>> \in Seq(Packet) /\ Len(<<Head(q)>>) = 1 /\ <<Head(q)>>[1] = Head(q)
  BY <1>1
<1>3. <<Head(q)>> \o Tail(q) = q
  <2>1. Len(q) \in Nat /\ Len(q) >= 1 /\ Len(Tail(q)) = Len(q) - 1
    BY EmptySeq, HeadTailProperties
  <2>2. <<Head(q)>> \o Tail(q) \in Seq(Packet)
        /\ Len(<<Head(q)>> \o Tail(q)) = 1 + Len(Tail(q))
        /\ \A i \in 1 .. 1 + Len(Tail(q)) :
             (<<Head(q)>> \o Tail(q))[i] =
               IF i <= 1 THEN <<Head(q)>>[i] ELSE Tail(q)[i - 1]
    BY <1>1, <1>2, ConcatProperties
  <2>3. Head(q) = q[1] /\ \A i \in 1 .. Len(Tail(q)) : Tail(q)[i] = q[i + 1]
    BY HeadTailProperties
  <2>4. \A i \in 1 .. Len(q) : (<<Head(q)>> \o Tail(q))[i] = q[i]
    BY <1>2, <2>1, <2>2, <2>3
  <2> QED BY <2>1, <2>2, <2>4, SeqEqual
<1>4. (p \o <<Head(q)>>) \o Tail(q) = p \o q
  BY <1>1, <1>2, <1>3, Associative
<1>5. Append(p, Head(q)) = p \o <<Head(q)>>
  BY <1>1, AppendIsConcat
<1> QED BY <1>2, <1>3, <1>4, <1>5

\* Appending to the last of two sequences appends to both of them together.
LEMMA AppendLast ==
  ASSUME NEW p \in Seq(Packet), NEW q \in Seq(Packet), NEW e \in Packet
  PROVE  Append(p \o q, e) = p \o Append(q, e)
<1>1. p \o q \in Seq(Packet) /\ <<e>> \in Seq(Packet)
  BY ConcatProperties
<1>2. Append(p \o q, e) = (p \o q) \o <<e>> /\ Append(q, e) = q \o <<e>>
  BY <1>1, AppendIsConcat
<1>3. (p \o q) \o <<e>> = p \o (q \o <<e>>)
  BY <1>1, Associative
<1> QED BY <1>2, <1>3, Zenon
-----------------------------------------------------------------------------
(* Types.                                                                  *)

\* Appending to a queue that is not full leaves it within its size.
LEMMA AppendToQueue ==
  ASSUME NEW queue \in Seq(Packet), ~Full(queue), NEW p \in Packet
  PROVE  Append(queue, p) \in Seq(Packet) /\ Len(Append(queue, p)) <= QueueSize
<1>1. Len(queue) \in Nat
  BY LenProperties
<1>2. Append(queue, p) \in Seq(Packet) /\ Len(Append(queue, p)) = Len(queue) + 1
  BY AppendProperties
<1>3. Len(queue) < QueueSize
  BY <1>1, SrpcAssumption DEF Full
<1> QED BY <1>1, <1>2, <1>3, SrpcAssumption

\* Removing the head of a queue keeps its type and its size.
LEMMA TailOfQueue ==
  ASSUME NEW queue \in Seq(Packet), queue # <<>>, Len(queue) <= QueueSize
  PROVE  /\ Head(queue) \in Packet
         /\ Tail(queue) \in Seq(Packet)
         /\ Len(Tail(queue)) <= QueueSize
<1>1. Len(queue) \in Nat /\ Len(Tail(queue)) = Len(queue) - 1
  BY LenProperties, HeadTailProperties
<1> QED BY <1>1, HeadTailProperties, SrpcAssumption

\* A packet of the queues fits the scratch packet.
LEMMA PacketFits ==
  Packet \subseteq [rr_id : 0 .. RRMax, call_type : CallType \cup {NoCall}]
BY SrpcAssumption DEF Packet

LEMMA NextRRidType ==
  ASSUME TypeOK
  PROVE  NextRRid \in 1 .. RRMax
BY SrpcAssumption DEF TypeOK, NextRRid

\* What a call puts into the out queue is a packet with an rr_id of its own.
LEMMA PushedPacket ==
  ASSUME TypeOK, NEW t \in Threads, PushCall(t)
  PROVE  sdp' \in Packet
<1>1. next_rr_id' \in 1 .. RRMax /\ call[t] \in CallType
  BY NextRRidType DEF PushCall, InitPacket, TypeOK
<1> QED BY <1>1 DEF PushCall, InitPacket, Packet

LEMMA FramesType ==
  ASSUME TypeOK, NEW frames \in Frames
  PROVE  frames \in Seq(Packet)
<1>1. PICK n \in 0 .. MaxRead, c \in CallType :
        frames = [i \in 1 .. n |-> ServerPacket(Len(received) + i, c)]
  BY DEF Frames
<1>2. Len(received) \in Nat
  BY LenProperties DEF TypeOK
<1>3. \A m \in Nat : (m % RRMax) \in 0 .. RRMax - 1
  BY SrpcAssumption
<1>4. \A i \in 1 .. n : ServerPacket(Len(received) + i, c) \in Packet
  <2> TAKE i \in 1 .. n
  <2>1. (Len(received) + i) - 1 \in Nat
    BY <1>2
  <2>2. \A k \in 0 .. RRMax - 1 : k + 1 \in 1 .. RRMax
    BY SrpcAssumption
  <2>3. (((Len(received) + i) - 1) % RRMax) + 1 \in 1 .. RRMax
    BY <1>3, <2>1, <2>2
  <2> QED BY <2>3 DEF ServerPacket, Packet
<1>5. n \in Nat
  BY SrpcAssumption
<1> QED BY <1>1, <1>4, <1>5

\* The variables of srpc keep their types and its queues their sizes.
LEMMA TypeStep == TypeOK /\ [Next]_vars => TypeOK'
<1> SUFFICES ASSUME TypeOK, [Next]_vars PROVE TypeOK'
  OBVIOUS
<1> USE DEF TypeOK
<1>c. Conn \in Threads
  BY DEF Threads
<1>1. ASSUME NEW t \in Threads, NEW c \in CallType, StartCall(t, c) PROVE TypeOK'
  BY <1>1 DEF StartCall, inVars, outVars
<1>2. ASSUME NEW t \in Threads, PushCall(t) PROVE TypeOK'
  <2>1. next_rr_id' \in 1 .. RRMax
    BY <1>2, NextRRidType DEF PushCall, InitPacket
  <2>2. sdp' \in Packet
    BY <1>2, PushedPacket
  <2>3. out_queue' \in Seq(Packet) /\ Len(out_queue') <= QueueSize
    BY <1>2, <2>2, AppendToQueue DEF PushCall
  <2> QED BY <1>2, <2>1, <2>2, <2>3 DEF PushCall, InitPacket, inVars, Packet
<1>3. ASSUME NEW t \in Threads, RefuseCall(t) PROVE TypeOK'
  <2>1. next_rr_id' \in 1 .. RRMax /\ call[t] \in CallType
    BY <1>3, NextRRidType DEF RefuseCall, InitPacket
  <2> QED BY <1>3, <2>1 DEF RefuseCall, InitPacket, inVars, outVars
<1>4. ASSUME NEW frames \in Frames, Read(frames) PROVE TypeOK'
  <2>1. frames \in Seq(Packet)
    BY FramesType
  <2>2. received' \in Seq(Packet)
    BY <1>4, <2>1, ConcatProperties DEF Read
  <2> QED BY <1>4, <2>1, <2>2 DEF Read, connVars, outVars, ConnStates
<1>5. CASE PopFrame
  <2>1. in_buffer \o got \in Seq(Packet)
    BY ConcatProperties
  <2>2. sdp' \in Packet /\ in_buffer' \in Seq(Packet)
    BY <1>5, <2>1, HeadTailProperties DEF PopFrame
  <2>3. in_queue' \in Seq(Packet) /\ Len(in_queue') <= QueueSize
    BY <1>5, <2>2, AppendToQueue DEF PopFrame
  <2>4. raise_event' \in BOOLEAN /\ pc' \in ConnStates /\ got' \in Seq(Packet)
    BY <1>5, EmptySeq DEF PopFrame, ConnStates
  <2>5. UNCHANGED <<connVars, event, received, handled, outVars>>
    BY <1>5 DEF PopFrame
  <2> QED BY <2>2, <2>3, <2>4, <2>5, PacketFits DEF connVars, outVars
<1>6. CASE NoFrame \/ HandlerReturns
  <2>1. CASE PopCall
    <3>1. Head(out_queue) \in Packet /\ out_queue' \in Seq(Packet)
          /\ Len(out_queue') <= QueueSize
      BY <2>1, TailOfQueue DEF PopCall
    <3>2. sdp' = Head(out_queue) /\ chunk' = <<Head(out_queue)>>
          /\ chunk' \in Seq(Packet) /\ pc' \in ConnStates /\ UNCHANGED event
      BY <2>1, <3>1 DEF PopCall, ConnStates
    <3>3. UNCHANGED <<connVars, raise_event, inVars, wire, written, accepted>>
      BY <1>6 DEF NoFrame, HandlerReturns
    <3> QED BY <3>1, <3>2, <3>3, PacketFits DEF connVars, inVars
  <2>2. CASE NothingToSend
    BY <1>6, <2>2
    DEF NoFrame, HandlerReturns, NothingToSend, connVars, inVars, ConnStates
  <2> QED BY <1>6, <2>1, <2>2 DEF NoFrame, HandlerReturns, OutSection
<1>7. CASE GetData
  <2>1. Head(in_queue) \in Packet /\ in_queue' \in Seq(Packet)
        /\ Len(in_queue') <= QueueSize
    BY <1>7, TailOfQueue DEF GetData
  <2>2. handled' \in Seq(Packet)
    BY <1>7, <2>1, AppendProperties DEF GetData
  <2>3. sdp' = Head(in_queue) /\ pc' \in ConnStates
    BY <1>7 DEF GetData, ConnStates
  <2>4. UNCHANGED <<connVars, raise_event, event, in_buffer, got, received, outVars>>
    BY <1>7 DEF GetData
  <2> QED BY <2>1, <2>2, <2>3, <2>4, PacketFits DEF connVars, outVars
<1>8. CASE Write
  <2>1. /\ wire \o chunk \in Seq(Packet) /\ written \o chunk \in Seq(Packet)
        /\ <<>> \in Seq(Packet)
    BY ConcatProperties, EmptySeq
  <2> QED BY <1>8, <2>1 DEF Write, connVars, inVars, ConnStates
<1>9. CASE RaiseIfMore
  BY <1>9 DEF RaiseIfMore, connVars, inVars, outVars, ConnStates
<1>10. CASE Wake \/ ClearEvent \/ WaitTimeout
  BY <1>10 DEF Wake, ClearEvent, WaitTimeout, connVars, inVars, outVars, ConnStates
<1>11. CASE ConnFails
  BY <1>11 DEF ConnFails, ReadEof, InOverflow, DropConnection, connVars,
               inVars, outVars, ConnStates
<1>12. CASE UNCHANGED vars
  BY <1>12 DEF vars, inVars, outVars
<1> QED BY <1>1, <1>2, <1>3, <1>4, <1>5, <1>6, <1>7, <1>8, <1>9, <1>10, <1>11,
           <1>12 DEF Next, ConnStep

LEMMA TypeInit == Init => TypeOK
<1>1. <<>> \in Seq(Packet) /\ Len(<<>>) = 0
  BY EmptySeq
<1>2. 0 \in 0 .. RRMax /\ 0 <= QueueSize
  BY SrpcAssumption
<1> SUFFICES ASSUME Init PROVE TypeOK
  OBVIOUS
<1>3. pc \in ConnStates /\ call \in [Threads -> CallType \cup {NoCall}]
  BY DEF Init, ConnStates
<1>4. sdp \in [rr_id : 0 .. RRMax, call_type : CallType \cup {NoCall}]
      /\ next_rr_id \in 0 .. RRMax
  BY <1>2 DEF Init
<1>5. raise_event \in BOOLEAN /\ event \in BOOLEAN
  BY DEF Init
<1>6. /\ in_queue = <<>> /\ in_buffer = <<>> /\ got = <<>>
      /\ received = <<>> /\ handled = <<>>
      /\ out_queue = <<>> /\ chunk = <<>> /\ wire = <<>>
      /\ written = <<>> /\ accepted = <<>>
  BY DEF Init
<1> QED BY <1>1, <1>2, <1>3, <1>4, <1>5, <1>6 DEF TypeOK

\* Every variable of srpc has its type, and a queue never holds more than
\* SRPC_QUEUE_SIZE packets, whatever the number of threads.
THEOREM TypeCorrect == Spec => []TypeOK
<1>1. Init => TypeOK
  BY TypeInit
<1>2. TypeOK /\ [Next]_vars => TypeOK'
  BY TypeStep
<1> QED BY <1>1, <1>2, PTL DEF Spec
-----------------------------------------------------------------------------
(* The calls.                                                              *)

LEMMA OutStep == TypeOK /\ OutInv /\ [Next]_vars => OutInv'
<1> SUFFICES ASSUME TypeOK, OutInv, [Next]_vars PROVE OutInv'
  OBVIOUS
<1> USE DEF OutInv, AcceptedInOrder
<1>t. /\ written \in Seq(Packet) /\ chunk \in Seq(Packet)
      /\ out_queue \in Seq(Packet) /\ accepted \in Seq(Packet)
      /\ written \o chunk \in Seq(Packet)
  BY ConcatProperties DEF TypeOK
<1>e. \A q \in Seq(Packet) : Len(q) = 0 <=> q = <<>>
  BY EmptySeq
<1>1. ASSUME NEW t \in Threads, PushCall(t) PROVE OutInv'
  <2>1. sdp' \in Packet
    BY <1>1, PushedPacket
  <2>2. Append((written \o chunk) \o out_queue, sdp')
          = (written \o chunk) \o Append(out_queue, sdp')
    <3> DEFINE sent == written \o chunk
    <3>1. sent \in Seq(Packet)
      BY <1>t
    <3> HIDE DEF sent
    <3>2. Append(sent \o out_queue, sdp') = sent \o Append(out_queue, sdp')
      BY <1>t, <2>1, <3>1, AppendLast
    <3> QED BY <3>2 DEF sent
  <2> QED BY <1>1, <2>2 DEF PushCall
<1>2. CASE PopCall /\ UNCHANGED <<written, accepted>> /\ chunk = <<>>
  <2>1. written \o <<>> = written /\ Len(<<Head(out_queue)>>) = 1
    BY <1>t, ConcatEmptySeq
  <2>2. (written \o <<Head(out_queue)>>) \o Tail(out_queue) = written \o out_queue
    BY <1>2, <1>t, MoveHead DEF PopCall
  <2> QED BY <1>2, <2>1, <2>2 DEF PopCall
<1>3. CASE NoFrame \/ HandlerReturns
  <2>1. UNCHANGED <<written, accepted>> /\ chunk = <<>>
    BY <1>3, <1>e DEF NoFrame, HandlerReturns, At
  <2>2. CASE PopCall
    BY <1>2, <2>1, <2>2
  <2>3. CASE NothingToSend
    BY <2>1, <2>3 DEF NothingToSend
  <2> QED BY <1>3, <2>2, <2>3 DEF NoFrame, HandlerReturns, OutSection
<1>4. CASE Write
  <2>1. (written \o chunk) \o <<>> = written \o chunk
    BY <1>t, ConcatEmptySeq
  <2> QED BY <1>4, <2>1 DEF Write
<1>5. ASSUME NEW t \in Threads, NEW c \in CallType, StartCall(t, c) PROVE OutInv'
  BY <1>5 DEF StartCall, outVars
<1>6. ASSUME NEW t \in Threads, RefuseCall(t) PROVE OutInv'
  BY <1>6 DEF RefuseCall, outVars
<1>7. ASSUME NEW frames \in Frames, Read(frames) PROVE OutInv'
  BY <1>7 DEF Read, At, outVars
<1>8. CASE PopFrame \/ GetData \/ RaiseIfMore \/ Wake \/ ClearEvent \/ WaitTimeout
  BY <1>8 DEF PopFrame, GetData, RaiseIfMore, Wake, ClearEvent, WaitTimeout, At,
              outVars
<1>9. CASE ConnFails
  BY <1>9 DEF ConnFails, ReadEof, InOverflow, DropConnection, At, outVars
<1>10. CASE UNCHANGED vars
  BY <1>10 DEF vars, outVars
<1> QED BY <1>1, <1>3, <1>4, <1>5, <1>6, <1>7, <1>8, <1>9, <1>10 DEF Next, ConnStep

(* The frames.                                                             *)

LEMMA InStep == TypeOK /\ InInv /\ [Next]_vars => InInv'
<1> SUFFICES ASSUME TypeOK, InInv, [Next]_vars PROVE InInv'
  OBVIOUS
<1> USE DEF InInv, ReceivedInOrder
<1>t. /\ handled \in Seq(Packet) /\ in_queue \in Seq(Packet)
      /\ in_buffer \in Seq(Packet) /\ got \in Seq(Packet)
      /\ handled \o in_queue \in Seq(Packet)
      /\ (handled \o in_queue) \o in_buffer \in Seq(Packet)
  BY ConcatProperties DEF TypeOK
<1>e. \A q \in Seq(Packet) : Len(q) = 0 <=> q = <<>>
  BY EmptySeq
<1>1. ASSUME NEW frames \in Frames, Read(frames) PROVE InInv'
  <2>1. got = <<>> /\ pc = "loop"
    BY <1>1 DEF Read, At
  <2>2. ((handled \o in_queue) \o in_buffer) \o <<>>
          = (handled \o in_queue) \o in_buffer
    BY <1>t, ConcatEmptySeq
  <2> QED BY <1>1, <2>1, <2>2 DEF Read
<1>2. CASE PopFrame
  <2> DEFINE frames == in_buffer \o got
  <2>1. in_queue = <<>> /\ frames \in Seq(Packet) /\ frames # <<>>
    BY <1>2, <1>t, <1>e, ConcatProperties DEF PopFrame, At
  <2>2. received = handled \o frames
    <3>1. handled \o <<>> = handled
      BY <1>t, ConcatEmptySeq
    <3>2. (handled \o in_buffer) \o got = handled \o frames
      <4>1. /\ handled \in Seq(Packet) /\ in_buffer \in Seq(Packet)
            /\ got \in Seq(Packet)
        BY <1>t
      <4> QED BY ONLY <4>1, Associative
    <3> QED BY <2>1, <3>1, <3>2
  <2>3. in_queue' = <<Head(frames)>> /\ in_buffer' = Tail(frames) /\ got' = <<>>
    BY <1>2, <2>1, <1>t DEF PopFrame
  <2>4. /\ <<Head(frames)>> \in Seq(Packet) /\ Tail(frames) \in Seq(Packet)
        /\ (handled \o <<Head(frames)>>) \o Tail(frames) = handled \o frames
    <3> HIDE DEF frames
    <3>1. handled \in Seq(Packet)
      BY <1>t
    <3> QED BY <2>1, <3>1, MoveHead, HeadTailProperties
  <2>5. handled \o <<Head(frames)>> \in Seq(Packet)
    BY <1>t, <2>4, ConcatProperties
  <2>6. (handled \o <<Head(frames)>>) \o Tail(frames) \in Seq(Packet)
    BY <2>4, <2>5, ConcatProperties
  <2>7. ((handled \o <<Head(frames)>>) \o Tail(frames)) \o <<>>
          = (handled \o <<Head(frames)>>) \o Tail(frames)
    BY <2>6, ConcatEmptySeq
  <2>8. received' = received /\ handled' = handled /\ pc' = "callback"
    BY <1>2 DEF PopFrame
  <2>9. Len(in_queue') = 1
    BY <2>3
  <2> QED BY <2>2, <2>3, <2>4, <2>7, <2>8, <2>9
<1>3. CASE GetData
  <2>1. in_queue # <<>> /\ Len(in_queue) = 1 /\ pc' = "handler"
    BY <1>3 DEF GetData, At
  <2>2. Append(handled, Head(in_queue)) \o Tail(in_queue) = handled \o in_queue
    BY <1>t, <2>1, MoveHead
  <2>3. Len(Tail(in_queue)) = 0
    BY <1>t, <2>1, HeadTailProperties
  <2>4. /\ handled' = Append(handled, Head(in_queue)) /\ in_queue' = Tail(in_queue)
        /\ UNCHANGED <<in_buffer, got, received>> /\ pc = "callback"
    BY <1>3 DEF GetData, At
  <2> QED BY <2>1, <2>2, <2>3, <2>4
<1>4. CASE NoFrame \/ HandlerReturns
  <2>1. UNCHANGED inVars /\ pc \in {"append", "handler"}
        /\ pc' \in {"write", "wait"}
    BY <1>4 DEF NoFrame, HandlerReturns, OutSection, PopCall, NothingToSend, At
  <2>2. got = <<>>
    <3>1. CASE NoFrame
      BY <3>1, <1>t, ConcatEqualIffEmpty, ConcatProperties, <1>e DEF NoFrame
    <3>2. CASE HandlerReturns
      BY <3>2 DEF HandlerReturns, At
    <3> QED BY <1>4, <3>1, <3>2
  <2> QED BY <2>1, <2>2 DEF inVars
<1>5. ASSUME NEW t \in Threads, NEW c \in CallType, StartCall(t, c) PROVE InInv'
  BY <1>5 DEF StartCall, inVars
<1>6. ASSUME NEW t \in Threads, PushCall(t) \/ RefuseCall(t) PROVE InInv'
  BY <1>6 DEF PushCall, RefuseCall, inVars
<1>7. CASE Write \/ RaiseIfMore \/ Wake \/ ClearEvent \/ WaitTimeout
  BY <1>7 DEF Write, RaiseIfMore, Wake, ClearEvent, WaitTimeout, At, inVars
<1>8. CASE ConnFails
  BY <1>8 DEF ConnFails, ReadEof, InOverflow, DropConnection, At, inVars
<1>9. CASE UNCHANGED vars
  BY <1>9 DEF vars, inVars
<1> QED BY <1>1, <1>2, <1>3, <1>4, <1>5, <1>6, <1>7, <1>8, <1>9 DEF Next, ConnStep
-----------------------------------------------------------------------------
(* The wake-up.                                                            *)

LEMMA WakeStep == TypeOK /\ WakeInv /\ [Next]_vars => WakeInv'
<1> SUFFICES ASSUME TypeOK, WakeInv, [Next]_vars PROVE WakeInv'
  OBVIOUS
<1> USE DEF WakeInv, NoLostWakeup
<1>1. ASSUME NEW t \in Threads, PushCall(t) PROVE WakeInv'
  BY <1>1 DEF PushCall, inVars
<1>2. ASSUME NEW t \in Threads, RefuseCall(t) PROVE WakeInv'
  BY <1>2 DEF RefuseCall, inVars, outVars
<1>3. ASSUME NEW t \in Threads, NEW c \in CallType, StartCall(t, c) PROVE WakeInv'
  BY <1>3 DEF StartCall, inVars, outVars
<1>4. ASSUME NEW frames \in Frames, Read(frames) PROVE WakeInv'
  BY <1>4 DEF Read, outVars
<1>5. CASE PopFrame
  BY <1>5 DEF PopFrame, outVars
<1>6. CASE NoFrame \/ HandlerReturns
  <2>1. raise_event \in BOOLEAN /\ raise_event = (in_buffer # <<>>)
    <3>1. CASE NoFrame
      <4>1. in_buffer \in Seq(Packet) /\ got \in Seq(Packet)
        BY DEF TypeOK
      <4>2. in_buffer \o got = <<>> /\ ~raise_event
        BY <3>1 DEF NoFrame, At
      <4>3. in_buffer = <<>>
        BY <4>1, <4>2, ConcatEqualIffEmpty, EmptySeq, ConcatProperties
      <4> QED BY <4>2, <4>3 DEF TypeOK
    <3>2. CASE HandlerReturns
      BY <3>2 DEF HandlerReturns, At, TypeOK
    <3> QED BY <1>6, <3>1, <3>2
  <2>2. UNCHANGED <<raise_event, in_buffer>>
    BY <1>6 DEF NoFrame, HandlerReturns, inVars
  <2>3. CASE PopCall
    BY <2>1, <2>2, <2>3 DEF PopCall
  <2>4. CASE NothingToSend
    BY <2>1, <2>2, <2>4 DEF NothingToSend
  <2> QED BY <1>6, <2>3, <2>4 DEF NoFrame, HandlerReturns, OutSection
<1>7. CASE GetData
  BY <1>7 DEF GetData, At, outVars
<1>8. CASE Write
  BY <1>8 DEF Write, At, inVars
<1>9. CASE RaiseIfMore
  BY <1>9 DEF RaiseIfMore, At, inVars, outVars
<1>10. CASE Wake \/ ClearEvent \/ WaitTimeout
  BY <1>10 DEF Wake, ClearEvent, WaitTimeout, At, inVars, outVars
<1>11. CASE ConnFails
  BY <1>11 DEF ConnFails, ReadEof, InOverflow, DropConnection, At, inVars, outVars
<1>12. CASE UNCHANGED vars
  BY <1>12 DEF vars, inVars, outVars
<1> QED BY <1>1, <1>2, <1>3, <1>4, <1>5, <1>6, <1>7, <1>8, <1>9, <1>10, <1>11,
           <1>12 DEF Next, ConnStep
-----------------------------------------------------------------------------
(* The invariants.                                                         *)

LEMMA IInvInit == Init => IInv
<1> SUFFICES ASSUME Init PROVE IInv
  OBVIOUS
<1>1. <<>> \in Seq(Packet) /\ Len(<<>>) = 0 /\ <<>> \o <<>> = <<>>
  BY EmptySeq, ConcatEmptySeq
<1>2. TypeOK
  BY TypeInit
<1>3. OutInv
  BY <1>1 DEF Init, OutInv, AcceptedInOrder
<1>4. InInv
  BY <1>1 DEF Init, InInv, ReceivedInOrder
<1>5. WakeInv
  BY DEF Init, WakeInv, NoLostWakeup
<1> QED BY <1>2, <1>3, <1>4, <1>5 DEF IInv

\* The inductive invariant holds in every reachable state.
THEOREM Invariance == Spec => []IInv
<1>1. IInv /\ [Next]_vars => IInv'
  BY TypeStep, OutStep, InStep, WakeStep DEF IInv
<1> QED BY <1>1, IInvInit, PTL DEF Spec

\* Over a socket that takes what it is given, every call for which
\* srpc_async__call returned an rr_id is written once, in the order in which
\* the calls were accepted, whatever the number of threads that call.
THEOREM CallsInOrder == Spec => []AcceptedInOrder
<1>1. IInv => AcceptedInOrder
  BY DEF IInv, OutInv
<1> QED BY <1>1, Invariance, PTL

\* Every frame read from the socket reaches the handler once, in order and before
\* the next iteration, so that the in queue refuses none.
THEOREM FramesInOrder == Spec => []HandledInOrder
<1>1. IInv => ReceivedInOrder
  BY DEF IInv, InInv
<1>2. IInv => InQueueDrained
  BY EmptySeq DEF IInv, InInv, InQueueDrained, TypeOK
<1>3. IInv => HandledInOrder
  BY <1>1, <1>2 DEF HandledInOrder
<1> QED BY <1>3, Invariance, PTL

\* The connection's thread never goes to sleep on a queued call or on a frame
\* left in the in buffer without the eventfd being readable.
THEOREM WakeupIsKept == Spec => []NoLostWakeup
<1>1. IInv => NoLostWakeup
  BY DEF IInv, WakeInv
<1> QED BY <1>1, Invariance, PTL
-----------------------------------------------------------------------------
(* The refinement.                                                         *)

LEMMA QueueInit == Init => Queue!Init
<1>1. <<>> \o <<>> = <<>>
  BY ConcatEmptySeq, EmptySeq
<1> QED BY <1>1 DEF Init, Queue!Init

LEMMA QueueStep == IInv /\ [Next]_vars => [Queue!Next]_(Queue!vars)
<1> SUFFICES ASSUME IInv, [Next]_vars PROVE [Queue!Next]_(Queue!vars)
  OBVIOUS
<1>t. /\ wire \in Seq(Packet) /\ chunk \in Seq(Packet)
      /\ out_queue \in Seq(Packet) /\ Len(out_queue) <= QueueSize
      /\ Len(chunk) = IF pc = "write" THEN 1 ELSE 0
  BY DEF IInv, TypeOK, OutInv
<1>s. SUFFICES ASSUME ~UNCHANGED <<chunk, out_queue, wire>>
               PROVE  Queue!Next \/ UNCHANGED <<chunk \o out_queue, wire>>
  BY DEF Queue!vars
<1>1. ASSUME NEW t \in Threads, PushCall(t) PROVE Queue!Next
  <2>1. sdp' \in Packet
    BY <1>1, PushedPacket DEF IInv
  <2>2. Append(chunk \o out_queue, sdp') = chunk \o Append(out_queue, sdp')
    BY <1>t, <2>1, AppendLast
  <2>3. Len(chunk \o out_queue) < QueueSize + 1
    <3>1. Len(chunk \o out_queue) = Len(chunk) + Len(out_queue)
      BY <1>t, ConcatProperties
    <3>2. Len(out_queue) \in Nat /\ Len(out_queue) < QueueSize /\ Len(chunk) <= 1
      BY <1>t, <1>1, LenProperties, SrpcAssumption DEF PushCall, Full
    <3> QED BY <1>t, <3>1, <3>2, SrpcAssumption
  <2>4. Queue!Accept(sdp')
    BY <1>1, <2>2, <2>3 DEF PushCall, Queue!Accept
  <2> QED BY <2>1, <2>4 DEF Queue!Next
<1>2. CASE NoFrame \/ HandlerReturns
  <2>1. chunk = <<>> /\ UNCHANGED wire
    BY <1>2, <1>t, EmptySeq DEF NoFrame, HandlerReturns, At
  <2>2. PopCall
    BY <1>2, <1>s, <2>1 DEF NoFrame, HandlerReturns, OutSection, NothingToSend
  <2>3. <<Head(out_queue)>> \o Tail(out_queue) = <<>> \o out_queue
    <3>1. <<Head(out_queue)>> \o Tail(out_queue) = out_queue
      BY <1>t, <2>2, MoveHead DEF PopCall
    <3>2. <<>> \o out_queue = out_queue
      BY <1>t, ConcatEmptySeq
    <3> QED BY <3>1, <3>2
  <2> QED BY <2>1, <2>2, <2>3 DEF PopCall
<1>3. CASE Write
  <2>1. Len(chunk) = 1 /\ chunk # <<>>
    <3>1. Len(chunk) = 1
      BY <1>3, <1>t DEF Write, At
    <3>2. Len(<<>>) = 0
      BY EmptySeq
    <3> QED BY <3>1, <3>2
  <2>2. /\ Head(chunk) \in Packet /\ Tail(chunk) = <<>>
        /\ chunk = <<Head(chunk)>>
    <3>1. Head(chunk) \in Packet /\ Tail(chunk) \in Seq(Packet) /\ Len(Tail(chunk)) = 0
      BY <1>t, <2>1, HeadTailProperties
    <3>2. Tail(chunk) = <<>>
      BY <3>1, EmptySeq
    <3>3. <<Head(chunk)>> \o <<>> = chunk
      BY <1>t, <2>1, <3>2, MoveHead
    <3>4. <<Head(chunk)>> \in Seq(Packet)
      BY <3>1
    <3> QED BY <3>1, <3>2, <3>3, <3>4, ConcatEmptySeq
  <2> DEFINE pending == chunk \o out_queue
  <2>3. pending # <<>> /\ Head(pending) = Head(chunk) /\ Tail(pending) = out_queue
    <3>1. pending \in Seq(Packet) /\ Len(pending) = 1 + Len(out_queue)
      <4>1. chunk \in Seq(Packet) /\ out_queue \in Seq(Packet)
        BY <1>t
      <4>2. pending \in Seq(Packet) /\ Len(pending) = Len(chunk) + Len(out_queue)
        BY ONLY <4>1, ConcatProperties
      <4> QED BY <2>1, <4>2
    <3> QED BY <1>t, <2>1, <2>2, <3>1
  <2>4. <<>> \o out_queue = out_queue /\ wire \o chunk = Append(wire, Head(chunk))
    BY <1>t, <2>2, ConcatEmptySeq, AppendIsConcat
  <2>5. CASE wire' = wire \o chunk
    <3>1. Queue!Deliver
      BY <1>3, <2>3, <2>4, <2>5 DEF Write, Queue!Deliver
    <3> QED BY <3>1 DEF Queue!Next
  <2>6. CASE Lossy /\ UNCHANGED wire
    <3>1. Queue!Lose
      BY <1>3, <2>3, <2>4, <2>6 DEF Write, Queue!Lose
    <3> QED BY <3>1 DEF Queue!Next
  <2> QED BY <1>3, <2>5, <2>6 DEF Write
<1>4. CASE \E t \in Threads, c \in CallType : StartCall(t, c)
  BY <1>4, <1>s DEF StartCall, outVars
<1>5. CASE \E t \in Threads : RefuseCall(t)
  BY <1>5, <1>s DEF RefuseCall, outVars
<1>6. CASE \E frames \in Frames : Read(frames)
  BY <1>6, <1>s DEF Read, outVars
<1>7. CASE PopFrame \/ GetData \/ RaiseIfMore \/ Wake \/ ClearEvent \/ WaitTimeout
  BY <1>7, <1>s DEF PopFrame, GetData, RaiseIfMore, Wake, ClearEvent, WaitTimeout,
                    outVars
<1>8. CASE ConnFails
  BY <1>8, <1>s DEF ConnFails, ReadEof, InOverflow, DropConnection, outVars
<1>9. CASE UNCHANGED vars
  BY <1>9, <1>s DEF vars, outVars
<1> QED BY <1>1, <1>2, <1>3, <1>4, <1>5, <1>6, <1>7, <1>8, <1>9 DEF Next, ConnStep

\* The object, with its bounded queue, its shared scratch packet and the
\* packet in the hand of srpc_iterate, implements one FIFO of calls.
THEOREM Refinement == Spec => ImplementsQueue
<1> QED BY QueueInit, QueueStep, Invariance, PTL
        DEF Spec, ImplementsQueue, Queue!Spec
==============================================================================
