------------------------------ MODULE Connections ------------------------------
(***************************************************************************)
(* The server's connections with devices and the container of one user's   *)
(* devices (supla-server: accept_loop.cpp, serverconnection.cpp, user.cpp, *)
(* cdcontainer.cpp, cdbase.cpp).  Each connection has a thread; it makes   *)
(* an object for its device, puts it into the list, and at its end moves   *)
(* it to the trash and deletes it when nobody uses it.  Other threads      *)
(* (holders: those of clients, of the IPC, of the scheduler) find a device *)
(* in the list and use it, and its connection, while they hold it.         *)
(*                                                                         *)
(* The arrays of devices are sets; their locks make a step of what is done *)
(* under them.  A device is named by its connection, as each connection    *)
(* makes one at most.  What is done to a freed object is a fault, after    *)
(* which nothing is said of the program.                                   *)
(***************************************************************************)
EXTENDS Naturals, FiniteSets

CONSTANTS
  MaxConnections, \* connections accepted (bound)
  Holder,       \* threads that use devices of other threads
  GUID,         \* devices
  Limit,        \* CFG_LIMIT_CONCURRENT_REGISTRATIONS
  Nobody        \* NULL

ASSUME ConnectionsAssumption ==
  /\ MaxConnections \in Nat /\ Limit \in Nat \ {0}
  /\ Nobody \notin 1..MaxConnections \cup GUID

\* A connection is named by its place in the order in which their threads start.
Connection == 1..MaxConnections

VARIABLES
  pc,           \* pc[c]: where the thread of c is
  guid,         \* guid[c]: cdptr's GUID, Nobody while cdptr is NULL
  device,       \* device[c]: "none", "live" or "deleted"
  user,         \* connections whose device has a user: those registered
  ptr_counter,  \* ptr_counter[c]: of the device of c
  found,        \* found[c]: the device that c's registration replaces
  arr,          \* the list
  trash_arr,    \* the trash
  terminated,   \* connections whose thread is told to end
  reg_pending_arr, \* connections with a slot to register in
  held,         \* held[h]: the device that h has found
  fault,        \* "none", or what a thread stumbled on
  hist          \* history: gave_up: connections that did not wait for their
                \* device; crowded: GUIDs that registered with several others
                \* of their connections there, or while another one registered

objects == <<guid, device, ptr_counter, user>>
lists   == <<arr, trash_arr>>
vars == <<pc, objects, found, lists, terminated, reg_pending_arr, held, fault, hist>>

Init ==
  /\ pc = [c \in Connection |-> "none"]
  /\ guid = [c \in Connection |-> Nobody]
  /\ device = [c \in Connection |-> "none"] /\ user = {}
  /\ ptr_counter = [c \in Connection |-> 0]
  /\ found = [c \in Connection |-> Nobody]
  /\ arr = {} /\ trash_arr = {}
  /\ terminated = {} /\ reg_pending_arr = {}
  /\ held = [h \in Holder |-> Nobody]
  /\ fault = "none"
  /\ hist = [gave_up |-> {}, crowded |-> {}]

Running == fault = "none"
At(c, s) == Running /\ pc[c] = s
Goto(c, s) == pc' = [pc EXCEPT ![c] = s]
Retain(d) == ptr_counter' = [ptr_counter EXCEPT ![d] = @ + 1]
\* releasePtr
Release(d) ==
  ptr_counter' = [ptr_counter EXCEPT ![d] = IF @ > 0 THEN @ - 1 ELSE 0]
\* serverconnection::terminate of the connection of d
TerminateOf(d) ==
  /\ fault' = IF pc[d] = "finished" THEN "connection" ELSE fault
  /\ terminated' = terminated \cup {d}
-----------------------------------------------------------------------------
(* A connection begins.                                                    *)

\* Threads of connections start in the order of their names.
Begins(c) == At(c, "none") /\ \A d \in 1..c - 1 : pc[d] # "none"

\* One of the limited slots is taken.
TakeSlot(c) ==
  /\ Begins(c) /\ Cardinality(reg_pending_arr) < Limit
  /\ reg_pending_arr' = reg_pending_arr \cup {c}
  /\ Goto(c, "open")
  /\ UNCHANGED <<objects, found, lists, terminated, held, fault, hist>>

\* Without one only a connection from the server's own addresses goes on.
NoSlot(c, local) ==
  /\ Begins(c) /\ Cardinality(reg_pending_arr) >= Limit
  /\ Goto(c, IF local THEN "open" ELSE "finish")
  /\ terminated' = IF local THEN terminated ELSE terminated \cup {c}
  /\ UNCHANGED <<objects, found, lists, reg_pending_arr, held, fault, hist>>
-----------------------------------------------------------------------------
(* A device registers: register_device, supla_user::add_device.            *)

\* The object is made and retained, whether the server takes it or not; there is
\* one attempt for each connection.
Register(c, g, accepted) ==
  /\ At(c, "open") /\ guid[c] = Nobody
  /\ guid' = [guid EXCEPT ![c] = g]
  /\ device' = [device EXCEPT ![c] = "live"]
  /\ Retain(c)
  /\ Goto(c, IF accepted THEN "lookup" ELSE "open")
  /\ UNCHANGED <<user, found, lists, terminated, reg_pending_arr, held, fault, hist>>

\* findByGUID retains the first that is in the list, which may be any of them, as a
\* removal changes the order of an array.
Same(c) == {d \in arr : guid[d] = guid[c]}
Crowded(c, when) ==
  hist' = [hist EXCEPT !.crowded = IF when THEN @ \cup {guid[c]} ELSE @]
LookUp(c) ==
  /\ At(c, "lookup")
  /\ Crowded(c, Cardinality(Same(c)) > 1)
  /\ IF Same(c) = {}
     THEN UNCHANGED <<found, ptr_counter>>
     ELSE \E d \in Same(c) : found' = [found EXCEPT ![c] = d] /\ Retain(d)
  /\ Goto(c, "add")
  /\ UNCHANGED <<guid, device, user, lists, terminated, reg_pending_arr, held, fault>>

\* addToList
AddToList(c) ==
  /\ At(c, "add")
  /\ trash_arr' = trash_arr \ {c}
  /\ arr' = arr \cup {c}
  /\ Crowded(c, \E d \in Connection \ {c} : pc[d] = "add" /\ guid[d] = guid[c])
  /\ Goto(c, "replace")
  /\ UNCHANGED <<objects, found, terminated, reg_pending_arr, held, fault>>

\* Mutant: the one that is replaced is not told.
ReplaceUntold(c) ==
  /\ At(c, "replace")
  /\ Goto(c, "release")
  /\ UNCHANGED <<objects, found, lists, terminated, reg_pending_arr, held, fault, hist>>

\* The connection that is replaced is told to end ...
Replace(c) ==
  /\ At(c, "replace")
  /\ IF found[c] = Nobody THEN UNCHANGED <<terminated, fault>>
                          ELSE TerminateOf(found[c])
  /\ Goto(c, "release")
  /\ UNCHANGED <<objects, found, lists, reg_pending_arr, held, hist>>

\* ... and its device released: the connection is registered.
ReleaseOld(c) ==
  /\ At(c, "release")
  /\ IF found[c] = Nobody THEN UNCHANGED ptr_counter ELSE Release(found[c])
  /\ found' = [found EXCEPT ![c] = Nobody]
  /\ user' = user \cup {c}
  /\ reg_pending_arr' = reg_pending_arr \ {c}
  /\ Goto(c, "online")
  /\ UNCHANGED <<guid, device, lists, terminated, held, fault, hist>>

RegisterStep(c) == LookUp(c) \/ AddToList(c) \/ Replace(c) \/ ReleaseOld(c)
-----------------------------------------------------------------------------
(* A connection ends: serverconnection::execute after its loop.            *)

\* It is told to, its peer is gone or silent, or it has not registered in time.
Leave(c) ==
  /\ Running /\ pc[c] \in {"open", "online"}
  /\ Goto(c, IF guid[c] = Nobody THEN "finish"
             ELSE IF c \in user THEN "retire" ELSE "wait")
  /\ UNCHANGED <<objects, found, lists, terminated, reg_pending_arr, held, fault, hist>>

\* moveToTrash
MoveToTrash(c) ==
  /\ At(c, "retire")
  /\ trash_arr' = trash_arr \cup {c}
  /\ arr' = arr \ {c}
  /\ Goto(c, "empty")
  /\ UNCHANGED <<objects, found, terminated, reg_pending_arr, held, fault, hist>>

\* emptyTrash deletes what nobody uses.
\* Mutant: the thread's own pointer is not waited for.
UnusedButOne == {d \in trash_arr : ptr_counter[d] <= 1}
Unused == {d \in trash_arr : ptr_counter[d] = 0}
EmptyTrash ==
  /\ device' = [d \in Connection |-> IF d \in Unused THEN "deleted" ELSE device[d]]
  /\ trash_arr' = trash_arr \ Unused
  /\ fault' = IF \E d \in Unused : device[d] = "deleted" THEN "twice" ELSE fault
  /\ UNCHANGED <<guid, user, arr>>

EmptyBefore(c) ==
  /\ At(c, "empty")
  /\ EmptyTrash
  /\ Goto(c, "wait")
  /\ UNCHANGED <<ptr_counter, found, terminated, reg_pending_arr, held, hist>>

\* Mutant: the pointer of another is taken for the own one.
WaitedForTwo(c) ==
  /\ At(c, "wait") /\ ptr_counter[c] <= 2
  /\ Goto(c, "unref")
  /\ UNCHANGED <<objects, found, lists, terminated, reg_pending_arr, held, fault, hist>>

\* The device is waited for until only its connection has it ...
Waited(c) ==
  /\ At(c, "wait") /\ ptr_counter[c] <= 1
  /\ Goto(c, "unref")
  /\ UNCHANGED <<objects, found, lists, terminated, reg_pending_arr, held, fault, hist>>

\* ... or for ten seconds.
GiveUp(c) ==
  /\ At(c, "wait") /\ ptr_counter[c] > 1
  /\ hist' = [hist EXCEPT !.gave_up = @ \cup {c}]
  /\ Goto(c, "unref")
  /\ UNCHANGED <<objects, found, lists, terminated, reg_pending_arr, held, fault>>

Unref(c) ==
  /\ At(c, "unref")
  /\ Release(c)
  /\ Goto(c, IF c \in user THEN "empty2" ELSE "delete")
  /\ UNCHANGED <<guid, device, user, found, lists, terminated, reg_pending_arr, held, fault, hist>>

\* Mutant: the trash is not emptied again.
EmptyAfterNot(c) ==
  /\ At(c, "empty2")
  /\ Goto(c, "finish")
  /\ UNCHANGED <<objects, found, lists, terminated, reg_pending_arr, held, fault, hist>>

EmptyAfter(c) ==
  /\ At(c, "empty2")
  /\ EmptyTrash
  /\ Goto(c, "finish")
  /\ UNCHANGED <<ptr_counter, found, terminated, reg_pending_arr, held, hist>>

\* A device that was not accepted has no user, and is deleted directly, through
\* the pointer to a client that shares its place (the destructor is virtual).
DeleteRefused(c) ==
  /\ At(c, "delete")
  /\ device' = [device EXCEPT ![c] = "deleted"]
  /\ fault' = IF device[c] = "deleted" THEN "twice" ELSE fault
  /\ Goto(c, "finish")
  /\ UNCHANGED <<guid, ptr_counter, user, found, lists, terminated, reg_pending_arr,
                 held, hist>>

\* Mutant: the slot is not returned.
FinishKeepingSlot(c) ==
  /\ At(c, "finish")
  /\ terminated' = terminated \ {c}
  /\ guid' = [guid EXCEPT ![c] = Nobody]
  /\ user' = user \ {c}
  /\ Goto(c, "finished")
  /\ UNCHANGED <<device, ptr_counter, found, lists, reg_pending_arr, held, fault, hist>>

\* The serverconnection is deleted, with what it knew.
Finish(c) ==
  /\ At(c, "finish")
  /\ reg_pending_arr' = reg_pending_arr \ {c}
  /\ terminated' = terminated \ {c}
  /\ guid' = [guid EXCEPT ![c] = Nobody]
  /\ user' = user \ {c}
  /\ Goto(c, "finished")
  /\ UNCHANGED <<device, ptr_counter, found, lists, held, fault, hist>>

EndStep(c) ==
  MoveToTrash(c) \/ EmptyBefore(c) \/ Waited(c) \/ Unref(c) \/ EmptyAfter(c)
    \/ DeleteRefused(c) \/ Finish(c)
-----------------------------------------------------------------------------
(* Holders.                                                                *)

\* find and get retain a device under the lock of the list.
Find(h) ==
  /\ Running /\ held[h] = Nobody
  /\ \E d \in arr : held' = [held EXCEPT ![h] = d] /\ Retain(d)
  /\ UNCHANGED <<pc, guid, device, user, found, lists, terminated, reg_pending_arr, fault, hist>>

\* It is used, and so is its connection, which it may be asked to end.
Use(h) ==
  /\ Running /\ held[h] # Nobody
  /\ fault' = IF device[held[h]] = "deleted" THEN "device"
              ELSE IF pc[held[h]] = "finished" THEN "connection" ELSE fault
  /\ UNCHANGED <<pc, objects, found, lists, terminated, reg_pending_arr, held, hist>>

Reconnect(h) ==
  /\ Running /\ held[h] # Nobody
  /\ TerminateOf(held[h])
  /\ UNCHANGED <<pc, objects, found, lists, reg_pending_arr, held, hist>>

Drop(h) ==
  /\ Running /\ held[h] # Nobody
  /\ Release(held[h])
  /\ held' = [held EXCEPT ![h] = Nobody]
  /\ UNCHANGED <<pc, guid, device, user, found, lists, terminated, reg_pending_arr, fault, hist>>
-----------------------------------------------------------------------------
Next ==
  \/ \E c \in Connection :
       \/ TakeSlot(c) \/ (\E local \in BOOLEAN : NoSlot(c, local))
       \/ \E g \in GUID, accepted \in BOOLEAN : Register(c, g, accepted)
       \/ RegisterStep(c) \/ Leave(c) \/ GiveUp(c) \/ EndStep(c)
  \/ \E h \in Holder : Find(h) \/ Use(h) \/ Reconnect(h) \/ Drop(h)

Spec == Init /\ [][Next]_vars

\* The threads of connections run on; one that was told to end leaves its loop, and so
\* does one that has not registered in time.  Nothing is asked of holders.
ThreadStep(c) ==
  \/ RegisterStep(c) \/ EndStep(c) \/ GiveUp(c)
  \/ (c \in terminated \/ pc[c] = "open") /\ Leave(c)

LiveSpec == Spec /\ \A c \in Connection : WF_vars(ThreadStep(c))
-----------------------------------------------------------------------------
Place == {"none", "open", "lookup", "add", "replace", "release",
          "online", "retire", "empty", "wait", "unref", "empty2", "delete",
          "finish", "finished"}

TypeOK ==
  /\ pc \in [Connection -> Place]
  /\ guid \in [Connection -> GUID \cup {Nobody}]
  /\ device \in [Connection -> {"none", "live", "deleted"}]
  /\ ptr_counter \in [Connection -> Nat]
  /\ found \in [Connection -> Connection \cup {Nobody}]
  /\ {arr, trash_arr, user, terminated, reg_pending_arr} \subseteq SUBSET Connection
  /\ held \in [Holder -> Connection \cup {Nobody}]
  /\ fault \in {"none", "device", "connection", "twice"}
  /\ hist \in [gave_up : SUBSET Connection, crowded : SUBSET GUID]
  /\ Cardinality(reg_pending_arr) <= Limit

\* Who has found a device may use it: it is deleted once, and not before it has
\* been let go, although threads that empty the trash do not ask who holds it
\* (cdcontainer.cpp:33-57, 81-111).
HeldIsLive ==
  /\ \A h \in Holder : held[h] # Nobody => device[held[h]] = "live"
  /\ \A c \in Connection : found[c] # Nobody => device[found[c]] = "live"
  /\ fault \notin {"device", "twice"}

\* The connection of a device that somebody holds exists, too, unless it got
\* tired of waiting (serverconnection.cpp:903-917).
ConnectionOutlivesUse ==
  /\ \A h \in Holder :
       held[h] # Nobody /\ pc[held[h]] = "finished" => held[h] \in hist.gave_up
  /\ fault = "connection" => hist.gave_up # {}

\* Of the online connections of one device all but one are told to end, unless it
\* registered with several others of its connections in the list, of which only
\* one is found, or twice at a time: each then looks for an older one before the
\* other is in the list (user.cpp:260-271).
OneOnline ==
  \A c, d \in Connection :
    /\ c # d /\ guid[c] = guid[d]
    /\ pc[c] = "online" /\ pc[d] = "online"
    /\ {c, d} \cap terminated = {}
    => guid[c] \in hist.crowded

\* A slot to register in is free again and again, whether devices register, are
\* refused or say nothing (serverconnection.cpp:152, 175-178, 826-836).
SlotsReturned == []<>(Cardinality(reg_pending_arr) < Limit \/ fault # "none")

\* A device whose connection has ended is deleted, unless the connection did not
\* wait for it (serverconnection.cpp:892-930).
RetiredIsDeleted ==
  \A c \in Connection :
    pc[c] = "finished" /\ c \notin hist.gave_up => device[c] # "live"
==============================================================================
