------------------------------ MODULE CallQueue ------------------------------
(***************************************************************************)
(* What srpc promises to a thread of the device that makes a remote call:  *)
(* a call that is accepted is handed to the socket once, after every call  *)
(* accepted before it and before every call accepted after it.  Only the   *)
(* socket may lose it, and only when the transport is lossy: the result of *)
(* the write callback is ignored by srpc.                                  *)
(***************************************************************************)
EXTENDS Naturals, Sequences

CONSTANTS Packet,    \* what may be sent
          Capacity,  \* calls that may wait at the same time
          Lossy      \* may the socket drop what it is given?

VARIABLES pending,   \* accepted and not yet given to the socket, oldest first
          wire       \* what the socket took, oldest first

vars == <<pending, wire>>

Init ==
  /\ pending = <<>>
  /\ wire = <<>>

Accept(p) ==
  /\ Len(pending) < Capacity
  /\ pending' = Append(pending, p)
  /\ UNCHANGED wire

Deliver ==
  /\ pending # <<>>
  /\ wire' = Append(wire, Head(pending))
  /\ pending' = Tail(pending)

Lose ==
  /\ Lossy
  /\ pending # <<>>
  /\ pending' = Tail(pending)
  /\ UNCHANGED wire

Next == Deliver \/ Lose \/ \E p \in Packet : Accept(p)

Spec == Init /\ [][Next]_vars
==============================================================================
