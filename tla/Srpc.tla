-------------------------------- MODULE Srpc --------------------------------
(***************************************************************************)
(* One srpc object (supla-common/srpc.c) as the device uses it.  Any       *)
(* thread makes calls with srpc_async__call; one thread, Conn, runs        *)
(* srpc_iterate and eh_wait in turn (devconnection_execute), and the       *)
(* handler it calls fetches the packet with srpc_getdata(_srpc, &rd, 0).   *)
(*                                                                         *)
(* The lock srpc->lck makes atomic every stretch of code between a         *)
(* lck_lock and the next lck_unlock; each action below is one such stretch *)
(* or one step outside of the lock.  srpc->sdp is a single scratch packet  *)
(* that all of them overwrite.                                             *)
(*                                                                         *)
(* A packet stands for its header; a packet (at most 10263 bytes) is       *)
(* always smaller than the 32768 bytes sproto_pop_out_data takes at once,  *)
(* so the out buffer of sproto is empty between two iterations and is      *)
(* represented by the packet in hand.  Bytes of a frame that is not yet    *)
(* complete are not represented.                                           *)
(***************************************************************************)
EXTENDS Naturals, Sequences, FiniteSets

CONSTANTS Callers,    \* the other threads that make calls (w1, MQTT)
          Conn,       \* the connection's thread
          CallType,   \* call types, all allowed by the protocol version
          NoCall,     \* not a call type
          QueueSize,  \* SRPC_QUEUE_SIZE
          RRMax,      \* the largest rr_id, 2^32 - 1 in the code
          InCap,      \* frames the in buffer of sproto has room for
          Lossy,      \* can data_write take less than it is given?
          MaxCalls,   \* bound: accepted calls after which none is started
          MaxIn,      \* bound: frames the server sends
          MaxRead     \* bound: complete frames one data_read returns

ASSUME SrpcAssumption ==
  /\ Conn \notin Callers
  /\ NoCall \notin CallType
  /\ QueueSize \in Nat \ {0}
  /\ RRMax \in Nat \ {0}
  /\ InCap \in Nat
  /\ Lossy \in BOOLEAN
  /\ MaxCalls \in Nat
  /\ MaxIn \in Nat
  /\ MaxRead \in Nat

Threads == Callers \cup {Conn}
Packet == [rr_id : 1 .. RRMax, call_type : CallType]

VARIABLES
  pc,          \* where Conn is in srpc_iterate and eh_wait
  call,        \* call[t]: the call t has yet to queue, or NoCall
  sdp,         \* srpc->sdp
  next_rr_id,  \* of sproto
  in_queue, out_queue,
  in_buffer,   \* complete frames in the in buffer of sproto
  got,         \* what data_read returned and is not yet appended
  chunk,       \* the packet popped for data_write, as a sequence
  raise_event, \* the local of srpc_iterate
  event,       \* is the eventfd of eh readable?
  wire,        \* what the socket took
  written,     \* history: what data_write was given
  accepted,    \* history: calls for which srpc_async__call returned an rr_id
  received,    \* history: frames read from the socket
  handled      \* history: frames the handler fetched

inVars  == <<in_queue, in_buffer, got, received, handled>>
outVars == <<out_queue, chunk, wire, written, accepted>>
vars    == <<pc, call, sdp, next_rr_id, raise_event, event, inVars, outVars>>

ConnStates == {"loop", "append", "callback", "handler", "write", "post",
               "wait", "woken", "dead"}

Init ==
  /\ pc = "loop"
  /\ call = [t \in Threads |-> NoCall]
  /\ sdp = [rr_id |-> 0, call_type |-> NoCall]
  /\ next_rr_id = 0
  /\ raise_event = FALSE
  /\ event = FALSE
  /\ in_queue = <<>> /\ in_buffer = <<>> /\ got = <<>>
  /\ received = <<>> /\ handled = <<>>
  /\ out_queue = <<>> /\ chunk = <<>> /\ wire = <<>>
  /\ written = <<>> /\ accepted = <<>>
-----------------------------------------------------------------------------
(* Queues.                                                                 *)

Full(queue) == Len(queue) >= QueueSize

\* Mutant: the numbers do not wrap.
NextRRidNoWrap == next_rr_id + 1

\* sproto_sdp_init: 0 is skipped, it would mean "any" to srpc_queue_pop.
NextRRid == IF next_rr_id = RRMax THEN 1 ELSE next_rr_id + 1
-----------------------------------------------------------------------------
(* srpc_async__call, by any thread.                                        *)

\* The version check and before_async_call, outside of the lock.
StartCall(t, c) ==
  /\ call[t] = NoCall
  /\ Len(accepted) < MaxCalls
  /\ t = Conn => pc \in {"loop", "handler"}
  /\ call' = [call EXCEPT ![t] = c]
  /\ UNCHANGED <<pc, sdp, next_rr_id, raise_event, event, inVars, outVars>>

\* The locked part up to the push: the packet gets its rr_id in the scratch.
InitPacket(t) ==
  /\ call[t] # NoCall
  /\ next_rr_id' = NextRRid
  /\ sdp' = [rr_id |-> next_rr_id', call_type |-> call[t]]
  /\ call' = [call EXCEPT ![t] = NoCall]

\* Mutant: the size of the queue is not checked.
PushCallUnchecked(t) ==
  /\ InitPacket(t)
  /\ out_queue' = Append(out_queue, sdp')
  /\ accepted' = Append(accepted, sdp')
  /\ event' = TRUE
  /\ UNCHANGED <<pc, raise_event, chunk, wire, written, inVars>>

PushCall(t) ==
  /\ InitPacket(t)
  /\ ~Full(out_queue)
  /\ out_queue' = Append(out_queue, sdp')
  /\ accepted' = Append(accepted, sdp')
  /\ event' = TRUE
  /\ UNCHANGED <<pc, raise_event, chunk, wire, written, inVars>>

\* Mutant: the result of the push is not looked at.
RefuseCallUnseen(t) ==
  /\ InitPacket(t)
  /\ Full(out_queue)
  /\ accepted' = Append(accepted, sdp')
  /\ UNCHANGED <<pc, raise_event, event, inVars, out_queue, chunk, wire, written>>

\* A full queue refuses the call: srpc_async__call returns FALSE.
RefuseCall(t) ==
  /\ InitPacket(t)
  /\ Full(out_queue)
  /\ UNCHANGED <<pc, raise_event, event, inVars, outVars>>
-----------------------------------------------------------------------------
(* srpc_iterate, by Conn.                                                  *)

At(state) == pc = state /\ call[Conn] = NoCall
connVars == <<call, next_rr_id>>

\* data_read, outside of the lock.  No data (-1) is frames = <<>>.
Read(frames) ==
  /\ At("loop")
  /\ Len(received) + Len(frames) <= MaxIn
  /\ got' = frames
  /\ received' = received \o frames
  /\ raise_event' = FALSE
  /\ pc' = "append"
  /\ UNCHANGED <<connVars, sdp, event, in_queue, in_buffer, handled, outVars>>

\* data_read returned 0: the server closed the connection.
ReadEof ==
  /\ At("loop")
  /\ pc' = "dead"
  /\ UNCHANGED <<connVars, sdp, raise_event, event, inVars, outVars>>

\* sproto_in_buffer_append: BUFFER_MAX_SIZE reached.
InOverflow ==
  /\ At("append")
  /\ Len(in_buffer) + Len(got) > InCap
  /\ pc' = "dead"
  /\ UNCHANGED <<connVars, sdp, raise_event, event, inVars, outVars>>

\* A complete frame is popped and queued; the lock is left for the callback.
PopFrame ==
  /\ At("append")
  /\ Len(in_buffer) + Len(got) <= InCap
  /\ in_buffer \o got # <<>>
  /\ ~Full(in_queue)
  /\ sdp' = Head(in_buffer \o got)
  /\ in_buffer' = Tail(in_buffer \o got)
  /\ got' = <<>>
  /\ in_queue' = Append(in_queue, sdp')
  /\ raise_event' = (in_buffer' # <<>>)
  /\ pc' = "callback"
  /\ UNCHANGED <<connVars, event, received, handled, outVars>>

\* The frame is malformed, of an unknown version, or cannot be queued.
DropConnection ==
  /\ At("append")
  /\ in_buffer \o got # <<>>
  /\ pc' = "dead"
  /\ UNCHANGED <<connVars, sdp, raise_event, event, inVars, outVars>>

\* Mutant: the packet is taken from the scratch.
GetDataScratch ==
  /\ At("callback")
  /\ in_queue # <<>>
  /\ in_queue' = Tail(in_queue)
  /\ handled' = Append(handled, sdp)
  /\ pc' = "handler"
  /\ UNCHANGED <<connVars, sdp, raise_event, event, in_buffer, got, received,
                 outVars>>

\* srpc_getdata(_srpc, &rd, 0): the oldest packet, whatever the arguments of
\* the callback, which were read from srpc->sdp outside of the lock, say.
GetData ==
  /\ At("callback")
  /\ in_queue # <<>>
  /\ sdp' = Head(in_queue)
  /\ in_queue' = Tail(in_queue)
  /\ handled' = Append(handled, Head(in_queue))
  /\ pc' = "handler"
  /\ UNCHANGED <<connVars, raise_event, event, in_buffer, got, received,
                 outVars>>

\* The OUT part, with the lock: one call leaves the queue per iteration.
PopCall ==
  /\ out_queue # <<>>
  /\ sdp' = Head(out_queue)
  /\ chunk' = <<Head(out_queue)>>
  /\ out_queue' = Tail(out_queue)
  /\ pc' = "write"
  /\ UNCHANGED event

NothingToSend ==
  /\ out_queue = <<>>
  /\ pc' = "wait"
  /\ event' = (event \/ raise_event)
  /\ UNCHANGED <<sdp, chunk, out_queue>>

OutSection == PopCall \/ NothingToSend

\* No complete frame: IN goes on to OUT without leaving the lock.
NoFrame ==
  /\ At("append")
  /\ in_buffer \o got = <<>>
  /\ OutSection
  /\ UNCHANGED <<connVars, raise_event, inVars, wire, written, accepted>>

HandlerReturns ==
  /\ At("handler")
  /\ OutSection
  /\ UNCHANGED <<connVars, raise_event, inVars, wire, written, accepted>>

\* data_write, outside of the lock; its result is ignored.
Write ==
  /\ At("write")
  /\ \/ wire' = wire \o chunk
     \/ Lossy /\ UNCHANGED wire
  /\ written' = written \o chunk
  /\ chunk' = <<>>
  /\ pc' = "post"
  /\ UNCHANGED <<connVars, sdp, raise_event, event, inVars, out_queue, accepted>>

\* Mutant: only the in buffer is looked at.
RaiseIfMoreIn ==
  /\ At("post")
  /\ event' = (event \/ raise_event)
  /\ pc' = "wait"
  /\ UNCHANGED <<connVars, sdp, raise_event, inVars, outVars>>

\* With the lock again: raise the event when there is more to do.
RaiseIfMore ==
  /\ At("post")
  /\ event' = (event \/ out_queue # <<>> \/ raise_event)
  /\ pc' = "wait"
  /\ UNCHANGED <<connVars, sdp, raise_event, inVars, outVars>>
-----------------------------------------------------------------------------
(* eh_wait(eh, 1000000), by Conn.                                          *)

\* epoll_wait returns an event: the eventfd's or the socket's.
Wake ==
  /\ At("wait")
  /\ pc' = "woken"
  /\ UNCHANGED <<connVars, sdp, raise_event, event, inVars, outVars>>

\* The eventfd is read, so that it no longer is readable.
ClearEvent ==
  /\ At("woken")
  /\ event' = FALSE
  /\ pc' = "loop"
  /\ UNCHANGED <<connVars, sdp, raise_event, inVars, outVars>>

\* One second passes without any event.
WaitTimeout ==
  /\ At("wait")
  /\ ~event
  /\ pc' = "loop"
  /\ UNCHANGED <<connVars, sdp, raise_event, event, inVars, outVars>>
-----------------------------------------------------------------------------
\* The server numbers its packets the way the device does.
ServerPacket(n, c) == [rr_id |-> ((n - 1) % RRMax) + 1, call_type |-> c]

Frames == {[i \in 1 .. n |-> ServerPacket(Len(received) + i, c)] :
             n \in 0 .. MaxRead, c \in CallType}

\* What Conn does by itself when the server neither closes nor misbehaves.
ConnStep ==
  \/ \E frames \in Frames : Read(frames)
  \/ PopFrame \/ NoFrame \/ GetData \/ HandlerReturns
  \/ Write \/ RaiseIfMore \/ Wake \/ ClearEvent \/ WaitTimeout

ConnFails == ReadEof \/ InOverflow \/ DropConnection

Next ==
  \/ \E t \in Threads, c \in CallType : StartCall(t, c)
  \/ \E t \in Threads : PushCall(t) \/ RefuseCall(t)
  \/ ConnStep
  \/ ConnFails

Spec == Init /\ [][Next]_vars

\* The thread runs on, a call it has begun it finishes, and its handler makes
\* only so many calls before it returns.
LiveSpec ==
  /\ Spec
  /\ SF_vars(ConnStep \/ InOverflow)
  /\ WF_vars(PushCall(Conn) \/ RefuseCall(Conn))
-----------------------------------------------------------------------------
TypeOK ==
  /\ pc \in ConnStates
  /\ call \in [Threads -> CallType \cup {NoCall}]
  /\ sdp \in [rr_id : 0 .. RRMax, call_type : CallType \cup {NoCall}]
  /\ next_rr_id \in 0 .. RRMax
  /\ raise_event \in BOOLEAN /\ event \in BOOLEAN
  /\ in_queue \in Seq(Packet) /\ in_buffer \in Seq(Packet)
  /\ got \in Seq(Packet) /\ received \in Seq(Packet) /\ handled \in Seq(Packet)
  /\ out_queue \in Seq(Packet) /\ chunk \in Seq(Packet)
  /\ wire \in Seq(Packet) /\ written \in Seq(Packet) /\ accepted \in Seq(Packet)
  /\ Len(out_queue) <= QueueSize /\ Len(in_queue) <= QueueSize

\* Every accepted call is given to data_write exactly once and in the order in
\* which the calls were accepted, whichever threads made them and although all
\* of them build their packets in the one srpc->sdp (srpc_async__call and
\* srpc_iterate).
AcceptedInOrder == accepted = written \o chunk \o out_queue

\* Every frame that is read is fetched by the handler exactly once, in the
\* order of the socket, although srpc->sdp may already hold another thread's
\* packet when the callback runs, and before the next iteration begins: the in
\* queue never refuses a packet, which would drop the connection (srpc_iterate,
\* srpc_getdata).
ReceivedInOrder == received = handled \o in_queue \o in_buffer \o got
InQueueDrained == pc \in {"loop", "append", "wait", "woken"} => in_queue = <<>>
HandledInOrder == ReceivedInOrder /\ InQueueDrained

\* Conn never sleeps on work: while it waits, a call in the out queue or a
\* frame left in the in buffer has made the eventfd readable (eh_raise_event
\* in srpc_async__call and at the end of srpc_iterate).
NoLostWakeup ==
  pc = "wait" /\ (out_queue # <<>> \/ in_buffer # <<>>) => event

\* An accepted call is written in the end, unless the connection is dropped.
AcceptedIsWritten ==
  \A n \in 1 .. MaxCalls :
    Len(accepted) >= n ~> (Len(written) >= n \/ pc = "dead")

\* The object implements the queue its callers count on.
Queue == INSTANCE CallQueue WITH
           pending <- chunk \o out_queue,
           Packet <- Packet, Capacity <- QueueSize + 1
ImplementsQueue == Queue!Spec
==============================================================================
