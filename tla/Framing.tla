------------------------------- MODULE Framing -------------------------------
(***************************************************************************)
(* The frames of supla-common/proto.c.  One peer, the sender, puts packets *)
(* into the out buffer of its sproto object and writes it to a stream of   *)
(* bytes; the other reads the stream in pieces of any length into its in   *)
(* buffer and takes at most one packet out of it per srpc_iterate.         *)
(*                                                                         *)
(* A frame is the tag, the rest of the header, the data and the tag again. *)
(* Each field of the header is one byte here and call_type, which nothing  *)
(* in proto.c looks at, is left out.  The peers may be different builds:   *)
(* the sender's SUPLA_PROTO_VERSION and SUPLA_MAX_DATA_SIZE may be larger  *)
(* than the receiver's.  BUFFER_MIN_SIZE is 0, as on Linux, so that a      *)
(* buffer is as large as its data: in.size and out.size are the lengths.   *)
(* The sender is an sproto object too, so that a data_size never comes     *)
(* near 2^32: data fits the byte that counts it.  The number of a packet   *)
(* fills its byte too and starts again at 1.                               *)
(***************************************************************************)
EXTENDS Naturals, SequencesExt

CONSTANTS SUPLA_TAG_SIZE,
          Payloads,            \* what the sender's packets carry
          SUPLA_MAX_DATA_SIZE, \* the receiver's
          SenderVersion,       \* the sender's SUPLA_PROTO_VERSION
          SUPLA_PROTO_VERSION, \* the receiver's
          BUFFER_MAX_SIZE,
          SRPC_BUFFER_SIZE,    \* what one read or write takes at most
          Lossy,               \* may data_write once take less than it is given?
          MaxFrames            \* bound: frames that are sent

ASSUME FramingAssumption ==
  /\ SUPLA_TAG_SIZE \in 1 .. 5
  /\ Payloads \subseteq {data \in Seq(0 .. 255) : Len(data) <= 255}
  /\ SenderVersion \in 1 .. 255 /\ SUPLA_PROTO_VERSION \in 1 .. 255
  /\ {SUPLA_MAX_DATA_SIZE, BUFFER_MAX_SIZE, SRPC_BUFFER_SIZE} \subseteq Nat \ {0}
  /\ Lossy \in BOOLEAN
  /\ MaxFrames \in Nat

sproto_tag == SubSeq(<<83, 85, 80, 76, 65>>, 1, SUPLA_TAG_SIZE)
SUPLA_PROTO_VERSION_MIN == 1

VARIABLES
  open,        \* has the sender not given up?
  version,     \* of the sender's sproto
  out_buffer,  \* of the sender's sproto
  stream,      \* bytes written and not yet read
  torn,        \* history: has data_write taken less than it was given?
  in_buffer,   \* of the receiver's sproto
  begin_tag,   \* has the tag at the head of in_buffer been seen?
  result,      \* of the receiver's last srpc_iterate
  sent,        \* history: packets appended to the out buffer
  received     \* history: packets popped from the in buffer

senderVars == <<open, version, out_buffer, sent>>
vars == <<senderVars, stream, torn, in_buffer, begin_tag, result, received>>

Init ==
  /\ open = TRUE
  /\ version = SenderVersion
  /\ out_buffer = <<>> /\ stream = <<>> /\ in_buffer = <<>>
  /\ torn = FALSE
  /\ begin_tag = FALSE
  /\ result = "false"
  /\ sent = <<>> /\ received = <<>>
-----------------------------------------------------------------------------
(* TSuplaDataPacket.                                                       *)

VersionAt == SUPLA_TAG_SIZE + 1
RRidAt    == SUPLA_TAG_SIZE + 2
SizeAt    == SUPLA_TAG_SIZE + 3
header_size == SUPLA_TAG_SIZE + 3

Frame(p) ==
  sproto_tag \o <<p.version, p.rr_id, Len(p.data)>> \o p.data \o sproto_tag
-----------------------------------------------------------------------------
(* The sender.                                                             *)

\* sproto_set_version, before or after some packets were sent.
SetVersion(v) ==
  /\ version' = IF v \in SUPLA_PROTO_VERSION_MIN .. SenderVersion
                THEN v ELSE SenderVersion
  /\ UNCHANGED <<open, out_buffer, sent, stream, torn, in_buffer, begin_tag,
                 result, received>>

\* What data_write takes of the bytes; srpc_iterate ignores its result.
Write(bytes) ==
  \E n \in IF Lossy /\ ~torn THEN 0 .. Len(bytes) ELSE {Len(bytes)} :
    /\ stream' = stream \o SubSeq(bytes, 1, n)
    /\ torn' = (torn \/ n < Len(bytes))

Taken(buffer) == Min({Len(buffer), SRPC_BUFFER_SIZE})

\* Mutant: the bytes that did not fit into the write are dropped.
PopOutAll(buffer) ==
  /\ Write(SubSeq(buffer, 1, Taken(buffer)))
  /\ out_buffer' = <<>>

\* sproto_pop_out_data and data_write.
PopOut(buffer) ==
  /\ Write(SubSeq(buffer, 1, Taken(buffer)))
  /\ out_buffer' = SubSeq(buffer, Taken(buffer) + 1, Len(buffer))

\* What sproto_sdp_init and sproto_set_data build; 0 is not a number.
NewPacket(data) ==
  [version |-> version, rr_id |-> (Len(sent) % 255) + 1, data |-> data]
Room == BUFFER_MAX_SIZE - 1 - Len(out_buffer)

\* The OUT part of srpc_iterate with a packet: sproto_out_buffer_append puts it
\* and the tag into the buffer.
Send(data) ==
  /\ open
  /\ Len(sent) < MaxFrames
  /\ Len(Frame(NewPacket(data))) <= Room
  /\ PopOut(out_buffer \o Frame(NewPacket(data)))
  /\ sent' = Append(sent, NewPacket(data))
  /\ UNCHANGED <<open, version, in_buffer, begin_tag, result, received>>

\* There is room for the packet and not for the tag: BUFFER_OVERFLOW.
SendFails(data) ==
  /\ open
  /\ Len(sent) < MaxFrames
  /\ Len(Frame(NewPacket(data))) \in Room + 1 .. Room + SUPLA_TAG_SIZE
  /\ open' = FALSE
  /\ UNCHANGED <<version, out_buffer, sent, stream, torn, in_buffer, begin_tag,
                 result, received>>

\* The OUT part without a packet, or with one there is no room for, which
\* sproto_out_buffer_append drops with SUPLA_RESULT_FALSE.
Flush ==
  /\ open
  /\ out_buffer # <<>>
  /\ PopOut(out_buffer)
  /\ UNCHANGED <<open, version, sent, in_buffer, begin_tag, result, received>>
-----------------------------------------------------------------------------
(* The receiver: the IN part of srpc_iterate, under the lock.              *)

TagAt(buffer, i) == SubSeq(buffer, i, i + SUPLA_TAG_SIZE - 1) = sproto_tag

\* Mutant: the flag outlives the packet.
ShrinkKeepsTag(buffer, size) ==
  /\ in_buffer' = SubSeq(buffer, size + 1, Len(buffer))
  /\ UNCHANGED begin_tag

\* sproto_shrink_in_buffer
Shrink(buffer, size) ==
  /\ in_buffer' = SubSeq(buffer, size + 1, Len(buffer))
  /\ begin_tag' = FALSE

\* The buffer is given up, and with it the connection.
Fail(buffer, error) ==
  /\ Shrink(buffer, Len(buffer))
  /\ result' = error
  /\ UNCHANGED received

Incomplete(buffer, tag) ==
  /\ in_buffer' = buffer
  /\ begin_tag' = tag
  /\ result' = "false"
  /\ UNCHANGED received

Complete(buffer) ==
  Len(buffer) >= header_size + buffer[SizeAt] + SUPLA_TAG_SIZE

\* Mutant: a newer version is accepted.
VersionAcceptedNewer(buffer) == buffer[VersionAt] >= SUPLA_PROTO_VERSION_MIN

VersionAccepted(buffer) ==
  buffer[VersionAt] \in SUPLA_PROTO_VERSION_MIN .. SUPLA_PROTO_VERSION

\* Mutant: the largest packet is refused.
TooLargeOffByOne(buffer) == buffer[SizeAt] >= SUPLA_MAX_DATA_SIZE

TooLarge(buffer) == buffer[SizeAt] > SUPLA_MAX_DATA_SIZE

TakePacket(buffer) ==
  LET end == header_size + buffer[SizeAt] IN
  /\ received' = Append(received, [version |-> buffer[VersionAt],
                                   rr_id |-> buffer[RRidAt],
                                   data |-> SubSeq(buffer, header_size + 1, end)])
  /\ Shrink(buffer, end + SUPLA_TAG_SIZE)
  /\ result' = "true"

\* The header is there: sproto_pop_in_sdp from its version check on.
PopHeaded(buffer) ==
  \/ ~VersionAccepted(buffer) /\ Fail(buffer, "version_error")
  \/ VersionAccepted(buffer) /\ TooLarge(buffer) /\ Fail(buffer, "data_error")
  \/ /\ VersionAccepted(buffer) /\ ~TooLarge(buffer)
     /\ \/ ~Complete(buffer) /\ Incomplete(buffer, TRUE)
        \/ /\ Complete(buffer)
           /\ IF TagAt(buffer, header_size + buffer[SizeAt] + 1)
              THEN TakePacket(buffer) ELSE Fail(buffer, "data_error")

\* sproto_pop_in_sdp
Pop(buffer) ==
  LET tagged == begin_tag \/ (Len(buffer) >= SUPLA_TAG_SIZE /\ TagAt(buffer, 1))
  IN \/ ~tagged /\ Len(buffer) >= SUPLA_TAG_SIZE /\ Fail(buffer, "data_error")
     \/ ~tagged /\ Len(buffer) < SUPLA_TAG_SIZE /\ Incomplete(buffer, FALSE)
     \/ /\ tagged /\ Len(buffer) < header_size + SUPLA_TAG_SIZE
        /\ Incomplete(buffer, TRUE)
     \/ tagged /\ Len(buffer) >= header_size + SUPLA_TAG_SIZE /\ PopHeaded(buffer)

Running == result \in {"true", "false"}

\* Mutant: no packet is looked for without new data.
IterateWithData(n) ==
  /\ Running
  /\ n \in 1 .. Len(stream)
  /\ stream' = SubSeq(stream, n + 1, Len(stream))
  /\ Len(in_buffer) + n < BUFFER_MAX_SIZE
  /\ Pop(in_buffer \o SubSeq(stream, 1, n))
  /\ UNCHANGED <<senderVars, torn>>

\* n bytes are read; 0 when data_read returns -1.
Iterate(n) ==
  /\ Running
  /\ n <= Len(stream)
  /\ stream' = SubSeq(stream, n + 1, Len(stream))
  /\ n > 0 => Len(in_buffer) + n < BUFFER_MAX_SIZE
  /\ Pop(in_buffer \o SubSeq(stream, 1, n))
  /\ UNCHANGED <<senderVars, torn>>

\* sproto_buffer_append refuses the data.
Overflow(n) ==
  /\ Running
  /\ n \in 1 .. Len(stream)
  /\ Len(in_buffer) + n >= BUFFER_MAX_SIZE
  /\ stream' = SubSeq(stream, n + 1, Len(stream))
  /\ result' = "overflow"
  /\ UNCHANGED <<senderVars, torn, in_buffer, begin_tag, received>>
-----------------------------------------------------------------------------
Receive == \E n \in 0 .. SRPC_BUFFER_SIZE : Iterate(n) \/ Overflow(n)

Next ==
  \/ \E v \in 0 .. SenderVersion : SetVersion(v)
  \/ \E data \in Payloads : Send(data) \/ SendFails(data)
  \/ Flush
  \/ Receive

Spec == Init /\ [][Next]_vars

\* Both peers iterate on; a read takes what there is.
LiveSpec ==
  /\ Spec
  /\ WF_vars(Flush)
  /\ WF_vars(\E n \in 1 .. SRPC_BUFFER_SIZE : Iterate(n) \/ Overflow(n))
  /\ WF_vars(Iterate(0))
-----------------------------------------------------------------------------
Packet == [version : 1 .. SenderVersion, rr_id : 1 .. 255, data : Payloads]
PoppedPacket == [version : SUPLA_PROTO_VERSION_MIN .. SUPLA_PROTO_VERSION,
                 rr_id : 0 .. 255, data : Seq(0 .. 255)]

TypeOK ==
  /\ open \in BOOLEAN /\ version \in 1 .. SenderVersion
  /\ {out_buffer, stream, in_buffer} \subseteq Seq(0 .. 255)
  /\ Len(in_buffer) < BUFFER_MAX_SIZE /\ Len(out_buffer) < BUFFER_MAX_SIZE
  /\ begin_tag \in BOOLEAN /\ torn \in BOOLEAN
  /\ result \in {"true", "false", "version_error", "data_error", "overflow"}
  /\ sent \in Seq(Packet) /\ received \in Seq(PoppedPacket)

\* As long as the connection stands and no write was cut short, the packets
\* received and the frames on their way, in the three buffers together, are the
\* packets sent: none is lost, repeated, changed or torn by the pieces the
\* stream is read in, nor by data that contains the tag (sproto_pop_in_sdp,
\* sproto_pop_out_data).
Unread == in_buffer \o stream \o out_buffer
FramesKept ==
  Running /\ ~torn =>
    /\ IsPrefix(received, sent)
    /\ Unread = FlattenSeq([i \in 1 .. Len(sent) - Len(received) |->
                              Frame(sent[Len(received) + i])])

\* The flag that saves looking at the tag again is never older than the tag at
\* the head of the buffer (begin_tag, sproto_shrink_in_buffer).
BeginTagIsCurrent ==
  begin_tag => Len(in_buffer) >= SUPLA_TAG_SIZE /\ TagAt(in_buffer, 1)

\* The receiver gives up on a packet only for its version or its size, on the
\* first such packet, and has received all those before it, unless a write was
\* cut short.
ErrorIsDeserved ==
  result \in {"version_error", "data_error"} /\ ~torn =>
    /\ Len(sent) > Len(received)
    /\ IsPrefix(received, sent)
    /\ LET p == sent[Len(received) + 1] IN
       result = IF p.version > SUPLA_PROTO_VERSION THEN "version_error"
                ELSE IF Len(p.data) > SUPLA_MAX_DATA_SIZE THEN "data_error"
                ELSE "true"

\* A packet that is sent is received in the end, unless one of the peers gives
\* the connection up or a write was cut short (srpc_iterate, which raises the
\* event for a rest of data).
AllReceived ==
  \A n \in 1 .. MaxFrames :
    Len(sent) >= n ~> (Len(received) >= n \/ ~Running \/ ~open \/ torn)

\* The two sproto objects and the stream between them as the queue that srpc
\* promises, if no write can be cut short (~Lossy): a packet waits from
\* sproto_out_buffer_append to sproto_pop_in_sdp and is handed over once, in order.
Peers == INSTANCE CallQueue WITH
  Capacity <- MaxFrames,
  pending <- SubSeq(sent, Len(received) + 1, Len(sent)),
  wire <- received
ImplementsQueue == Peers!Spec
==============================================================================
