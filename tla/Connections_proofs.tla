-------------------------- MODULE Connections_proofs --------------------------
(***************************************************************************)
(* Proofs about Connections: the devices of a server, for any number of    *)
(* connections and threads that use their devices.                         *)
(***************************************************************************)
EXTENDS Connections, FiniteSetTheorems, TLAPS

\* Who has retained the device of d: its connection, threads that hold it and
\* registrations that replace it.
Owns(d) == guid[d] # Nobody /\ pc[d] \notin {"empty2", "delete", "finish", "finished"}
Agents == ({"own", "found"} \X Connection) \cup ({"held"} \X Holder)
Users(d) ==
  {a \in Agents : \/ a[1] = "own" /\ a[2] = d /\ Owns(d)
                  \/ a[1] = "found" /\ found[a[2]] = d
                  \/ a[1] = "held" /\ held[a[2]] = d}

\* The counter counts them.
RefInv ==
  \A d \in Connection : IsFiniteSet(Users(d)) /\ ptr_counter[d] = Cardinality(Users(d))

\* Where a connection is and what there is of it.
PlaceInv ==
  \A c \in Connection :
    /\ c \in arr <=> pc[c] \in {"replace", "release", "online", "retire"}
    /\ c \in trash_arr => /\ device[c] = "live" /\ c \notin arr
                          /\ pc[c] \in {"empty", "wait", "unref", "empty2", "finish", "finished"}
    /\ guid[c] = Nobody => /\ pc[c] \in {"none", "open", "finish", "finished"}
                           /\ device[c] = "none" \/ pc[c] = "finished"
    /\ pc[c] = "none" => guid[c] = Nobody
    /\ guid[c] # Nobody /\ pc[c] \notin {"empty2", "finish", "finished"} => device[c] = "live"
    /\ found[c] # Nobody => pc[c] \in {"add", "replace", "release"}

\* Connections that are registered.
UserInv ==
  \A c \in Connection :
    /\ c \in user =>
         pc[c] \in {"online", "retire", "empty", "wait", "unref", "empty2", "finish"}
    /\ pc[c] \in {"online", "retire", "empty", "empty2"} => c \in user
    /\ c \in user /\ pc[c] \in {"empty", "wait", "unref"} => c \in trash_arr
    /\ pc[c] = "empty2" => c \in trash_arr \/ device[c] # "live"
    /\ c \in trash_arr => c \in user \/ pc[c] = "finished"

Taken(d) ==
  (\E h \in Holder : held[h] = d) \/ (\E c \in Connection : found[c] = d)

\* A device that others use exists and was in the list; its connection, once it does
\* not wait any longer, has given up.
TakenInv ==
  \A d \in Connection : Taken(d) =>
    /\ device[d] = "live"
    /\ pc[d] \in {"replace", "release", "finished"} \/ d \in user
    /\ pc[d] \in {"unref", "empty2", "delete", "finish", "finished"} => d \in hist.gave_up

\* What a connection leaves behind.
EndInv ==
  \A c \in Connection :
    pc[c] \in {"finish", "finished"} /\ c \notin hist.gave_up => device[c] # "live"

\* Who stumbled.
FaultInv ==
  /\ fault \notin {"device", "twice"}
  /\ fault = "connection" => hist.gave_up # {}

\* Of two connections of a device that are in the list one is told, or about to be.
InList == {"replace", "release", "online"}
PairInv ==
  \A c, d \in Connection :
    c # d /\ guid[c] = guid[d] /\ guid[c] \notin hist.crowded =>
      /\ pc[c] = "add" /\ pc[d] \in InList => found[c] = d
      /\ pc[c] \in InList /\ pc[d] \in InList =>
           \/ pc[c] = "replace" /\ found[c] = d
           \/ pc[d] = "replace" /\ found[d] = c
           \/ c \in terminated \/ d \in terminated

\* A slot belongs to a connection that has not registered yet: it is on its way to,
\* or it was refused or gave up and is about to end.
SlotInv ==
  \A c \in reg_pending_arr :
    /\ c \notin user
    /\ pc[c] \in {"open", "lookup", "add", "replace", "release",
                  "wait", "unref", "delete", "finish"}

IInv ==
  /\ TypeOK /\ RefInv /\ PlaceInv /\ UserInv /\ TakenInv /\ EndInv /\ FaultInv /\ PairInv
  /\ SlotInv
-----------------------------------------------------------------------------
LEMMA Initial == Init => IInv
<1> SUFFICES ASSUME Init PROVE IInv
  OBVIOUS
<1> USE ConnectionsAssumption DEF Init, Connection
<1>1. TypeOK
  BY FS_EmptySet DEF TypeOK, Place
<1>2. RefInv
  <2>1. ASSUME NEW d \in Connection PROVE Users(d) = {}
    BY DEF Users, Agents, Owns
  <2> QED BY <2>1, FS_EmptySet DEF RefInv
<1>3. PlaceInv /\ UserInv /\ EndInv /\ FaultInv
  BY DEF PlaceInv, UserInv, EndInv, FaultInv
<1>4. TakenInv
  BY DEF TakenInv, Taken
<1>5. PairInv /\ SlotInv
  BY DEF PairInv, InList, SlotInv
<1> QED BY <1>1, <1>2, <1>3, <1>4, <1>5 DEF IInv

\* There are finitely many connections.
LEMMA ConnectionsFinite == IsFiniteSet(Connection) /\ Nobody \notin Connection
<1>1. 1 \in Int /\ MaxConnections \in Int
  BY ConnectionsAssumption
<1>2. IsFiniteSet(1..MaxConnections)
  BY <1>1, FS_Interval
<1> QED BY <1>2, ConnectionsAssumption DEF Connection

\* A slot more, or less, of a set that is as small as the connections are few.
LEMMA SlotsBounded ==
  ASSUME NEW S \in SUBSET Connection, NEW c \in Connection
  PROVE  /\ Cardinality(S) < Limit => Cardinality(S \cup {c}) <= Limit
         /\ Cardinality(S) <= Limit => Cardinality(S \ {c}) <= Limit
<1>1. IsFiniteSet(S)
  BY ConnectionsFinite, FS_Subset
<1>2. Cardinality(S) \in Nat
  BY <1>1, FS_CardinalityType
<1>3. Cardinality(S \cup {c}) \in {Cardinality(S), Cardinality(S) + 1}
  BY <1>1, FS_AddElement
<1>4. Cardinality(S \ {c}) \in {Cardinality(S), Cardinality(S) - 1}
  BY <1>1, FS_RemoveElement
<1> QED BY <1>2, <1>3, <1>4, ConnectionsAssumption

\* What nobody uses is free for deletion.
LEMMA UnusedIsFree ==
  ASSUME TypeOK, RefInv, NEW d \in Connection, ptr_counter[d] = 0
  PROVE  ~Owns(d) /\ ~Taken(d)
<1>1. Users(d) = {}
  BY FS_EmptySet DEF RefInv
<1>2. ~Owns(d)
  <2>1. Owns(d) => <<"own", d>> \in Users(d)
    BY DEF Users, Agents
  <2> QED BY <1>1, <2>1
<1>3. ASSUME NEW c \in Connection, found[c] = d PROVE FALSE
  <2>1. <<"found", c>> \in Users(d)
    BY <1>3 DEF Users, Agents
  <2> QED BY <1>1, <2>1
<1>4. ASSUME NEW h \in Holder, held[h] = d PROVE FALSE
  <2>1. <<"held", h>> \in Users(d)
    BY <1>4 DEF Users, Agents
  <2> QED BY <1>1, <2>1
<1> QED BY <1>2, <1>3, <1>4 DEF Taken

\* A device that its connection waits for in vain has another user; without one it is
\* the connection's alone.
LEMMA WaitedIsFree ==
  ASSUME TypeOK, RefInv, NEW d \in Connection, Owns(d), ptr_counter[d] <= 1
  PROVE  ~Taken(d)
<1> DEFINE own == <<"own", d>>
<1>1. own \in Users(d)
  BY DEF Users, Agents
<1>2. IsFiniteSet(Users(d)) /\ Cardinality(Users(d)) <= 1
  BY DEF RefInv
<1>3. IsFiniteSet(Users(d) \ {own}) /\ Cardinality(Users(d) \ {own}) = Cardinality(Users(d)) - 1
  BY <1>1, <1>2, FS_RemoveElement
<1>4. Users(d) \ {own} = {}
  <2>1. Cardinality(Users(d) \ {own}) \in Nat /\ Cardinality(Users(d)) \in Nat
    BY <1>2, <1>3, FS_CardinalityType
  <2>2. Cardinality(Users(d) \ {own}) = 0
    BY <1>2, <1>3, <2>1
  <2> QED BY <1>3, <2>2, FS_EmptySet
<1>5. ASSUME NEW c \in Connection, found[c] = d PROVE FALSE
  <2>1. <<"found", c>> \in Users(d) /\ <<"found", c>> # own
    BY <1>5 DEF Users, Agents
  <2> QED BY <1>4, <2>1
<1>6. ASSUME NEW h \in Holder, held[h] = d PROVE FALSE
  <2>1. <<"held", h>> \in Users(d) /\ <<"held", h>> # own
    BY <1>6 DEF Users, Agents
  <2> QED BY <1>4, <2>1
<1> QED BY <1>5, <1>6 DEF Taken

\* A counter that is raised when a user comes, and lowered when one goes, counts.
LEMMA RetainCounts ==
  ASSUME TypeOK, RefInv, NEW d \in Connection, NEW a, Retain(d),
         a \notin Users(d), Users(d)' = Users(d) \cup {a},
         \A e \in Connection \ {d} : Users(e)' = Users(e)
  PROVE  RefInv'
<1>1. IsFiniteSet(Users(d)') /\ Cardinality(Users(d)') = Cardinality(Users(d)) + 1
  BY FS_AddElement DEF RefInv
<1>2. ptr_counter'[d] = ptr_counter[d] + 1
  BY DEF Retain, TypeOK
<1>3. \A e \in Connection \ {d} : ptr_counter'[e] = ptr_counter[e]
  BY DEF Retain, TypeOK
<1> QED BY <1>1, <1>2, <1>3 DEF RefInv, Connection

LEMMA ReleaseCounts ==
  ASSUME TypeOK, RefInv, NEW d \in Connection, NEW a, Release(d),
         a \in Users(d), Users(d)' = Users(d) \ {a},
         \A e \in Connection \ {d} : Users(e)' = Users(e)
  PROVE  RefInv'
<1>1. IsFiniteSet(Users(d)') /\ Cardinality(Users(d)') = Cardinality(Users(d)) - 1
  BY FS_RemoveElement DEF RefInv
<1>2. ptr_counter[d] > 0
  <2>1. Cardinality(Users(d)) # 0
    BY FS_EmptySet DEF RefInv
  <2> QED BY <2>1 DEF RefInv, TypeOK
<1>3. ptr_counter'[d] = ptr_counter[d] - 1
  BY <1>2 DEF Release, TypeOK
<1>4. \A e \in Connection \ {d} : ptr_counter'[e] = ptr_counter[e]
  BY DEF Release, TypeOK
<1> QED BY <1>1, <1>3, <1>4 DEF RefInv, Connection

LEMMA SameUsers ==
  ASSUME RefInv, UNCHANGED <<found, held, ptr_counter>>,
         \A d \in Connection : Owns(d)' = Owns(d)
  PROVE  RefInv'
<1>1. \A d \in Connection : Users(d)' = Users(d)
  BY DEF Users, Agents
<1> QED BY <1>1 DEF RefInv
-----------------------------------------------------------------------------
\* The types.
LEMMA TypeStep ==
  ASSUME TypeOK, PlaceInv, [Next]_vars
  PROVE  TypeOK'
<1> USE ConnectionsAssumption DEF TypeOK, Place, Retain, Release, TerminateOf, Crowded, At, Running, Goto, objects, lists, Begins
<1>1. ASSUME NEW c \in Connection, TakeSlot(c)
       PROVE  TypeOK'
  BY <1>1, SlotsBounded DEF TakeSlot
<1>2. ASSUME NEW c \in Connection, NEW local \in BOOLEAN, NoSlot(c, local)
       PROVE  TypeOK'
  BY <1>2 DEF NoSlot
<1>3. ASSUME NEW c \in Connection, NEW g \in GUID, NEW accepted \in BOOLEAN, Register(c, g, accepted)
       PROVE  TypeOK'
  BY <1>3 DEF Register
<1>4. ASSUME NEW c \in Connection, LookUp(c)
       PROVE  TypeOK'
  <2>1. hist' \in [gave_up : SUBSET Connection, crowded : SUBSET GUID]
    BY <1>4 DEF LookUp, PlaceInv
  <2>2. found' \in [Connection -> Connection \cup {Nobody}] /\ ptr_counter' \in [Connection -> Nat]
    BY <1>4 DEF LookUp, Same
  <2> QED BY <1>4, <2>1, <2>2 DEF LookUp
<1>5. ASSUME NEW c \in Connection, AddToList(c)
       PROVE  TypeOK'
  <2>1. hist' \in [gave_up : SUBSET Connection, crowded : SUBSET GUID]
    BY <1>5 DEF AddToList, PlaceInv
  <2> QED BY <1>5, <2>1 DEF AddToList
<1>6. ASSUME NEW c \in Connection, Replace(c)
       PROVE  TypeOK'
  BY <1>6 DEF Replace
<1>7. ASSUME NEW c \in Connection, ReleaseOld(c)
       PROVE  TypeOK'
  <2>1. ptr_counter' \in [Connection -> Nat]
    BY <1>7 DEF ReleaseOld
  <2>2. reg_pending_arr' \subseteq Connection /\ Cardinality(reg_pending_arr') <= Limit
    BY <1>7, SlotsBounded DEF ReleaseOld
  <2> QED BY ZenonT(40), <1>7, <2>1, <2>2 DEF ReleaseOld
<1>8. ASSUME NEW c \in Connection, Leave(c)
       PROVE  TypeOK'
  BY <1>8 DEF Leave
<1>9. ASSUME NEW c \in Connection, GiveUp(c)
       PROVE  TypeOK'
  BY <1>9 DEF GiveUp
<1>10. ASSUME NEW c \in Connection, MoveToTrash(c)
       PROVE  TypeOK'
  BY <1>10 DEF MoveToTrash
<1>11. ASSUME NEW c \in Connection, EmptyBefore(c)
       PROVE  TypeOK'
  BY <1>11 DEF EmptyBefore, EmptyTrash, Unused
<1>12. ASSUME NEW c \in Connection, Waited(c)
       PROVE  TypeOK'
  BY <1>12 DEF Waited
<1>13. ASSUME NEW c \in Connection, Unref(c)
       PROVE  TypeOK'
  BY <1>13 DEF Unref
<1>14. ASSUME NEW c \in Connection, EmptyAfter(c)
       PROVE  TypeOK'
  BY <1>14 DEF EmptyAfter, EmptyTrash, Unused
<1>15. ASSUME NEW c \in Connection, DeleteRefused(c)
       PROVE  TypeOK'
  BY <1>15 DEF DeleteRefused
<1>16. ASSUME NEW c \in Connection, Finish(c)
       PROVE  TypeOK'
  BY ZenonT(40), <1>16, SlotsBounded DEF Finish
<1>17. ASSUME NEW h \in Holder, Find(h)
       PROVE  TypeOK'
  BY <1>17 DEF Find
<1>18. ASSUME NEW h \in Holder, Use(h)
       PROVE  TypeOK'
  BY <1>18 DEF Use
<1>19. ASSUME NEW h \in Holder, Reconnect(h)
       PROVE  TypeOK'
  BY <1>19 DEF Reconnect
<1>20. ASSUME NEW h \in Holder, Drop(h)
       PROVE  TypeOK'
  BY <1>20 DEF Drop
<1>21. CASE UNCHANGED vars
  BY <1>21 DEF vars
<1> QED BY <1>1, <1>2, <1>3, <1>4, <1>5, <1>6, <1>7, <1>8, <1>9,
           <1>10, <1>11, <1>12, <1>13, <1>14, <1>15, <1>16, <1>17, <1>18,
           <1>19, <1>20, <1>21
        DEF Next, RegisterStep, EndStep
\* The counters.
LEMMA RefStep ==
  ASSUME TypeOK, PlaceInv, RefInv, [Next]_vars
  PROVE  RefInv'
<1> USE ConnectionsAssumption DEF At, Running, Goto, objects, lists, Begins
<1>1. ASSUME NEW c \in Connection, TakeSlot(c)
       PROVE  RefInv'
  <2>1. \A d \in Connection : Owns(d)' = Owns(d)
    BY <1>1 DEF TakeSlot, TypeOK, Owns
  <2> QED BY <1>1, <2>1, SameUsers DEF TakeSlot
<1>2. ASSUME NEW c \in Connection, NEW local \in BOOLEAN, NoSlot(c, local)
       PROVE  RefInv'
  <2>1. \A d \in Connection : Owns(d)' = Owns(d)
    BY <1>2 DEF NoSlot, TypeOK, Owns, PlaceInv
  <2> QED BY <1>2, <2>1, SameUsers DEF NoSlot, PlaceInv
<1>3. ASSUME NEW c \in Connection, NEW g \in GUID, NEW accepted \in BOOLEAN, Register(c, g, accepted)
       PROVE  RefInv'
  <2>2. <<"own", c>> \notin Users(c) /\ Users(c)' = Users(c) \cup {<<"own", c>>}
    BY <1>3 DEF Register, TypeOK, Owns, Users, Agents
  <2>3. \A e \in Connection \ {c} : Users(e)' = Users(e)
    BY <1>3 DEF Register, TypeOK, Owns, Users, Agents
  <2> QED BY <1>3, <2>2, <2>3, RetainCounts DEF Register
<1>4. ASSUME NEW c \in Connection, LookUp(c)
       PROVE  RefInv'
  <2>1. CASE Same(c) = {}
    <3>1. \A d \in Connection : Owns(d)' = Owns(d)
      BY <1>4, <2>1 DEF LookUp, TypeOK, Owns
    <3> QED BY <1>4, <2>1, <3>1, SameUsers DEF LookUp
  <2>2. CASE Same(c) # {}
    <3>1. PICK d \in Same(c) : found' = [found EXCEPT ![c] = d] /\ Retain(d)
      BY <1>4, <2>2 DEF LookUp
    <3>2. d \in Connection /\ found[c] = Nobody
      BY <1>4 DEF LookUp, Same, TypeOK, PlaceInv
    <3>3. <<"found", c>> \notin Users(d) /\ Users(d)' = Users(d) \cup {<<"found", c>>}
      BY <1>4, <3>1, <3>2 DEF LookUp, TypeOK, Owns, Users, Agents, Connection
    <3>4. \A e \in Connection \ {d} : Users(e)' = Users(e)
      BY <1>4, <3>1, <3>2 DEF LookUp, TypeOK, Owns, Users, Agents, Connection
    <3> QED BY <3>1, <3>2, <3>3, <3>4, RetainCounts
  <2> QED BY <2>1, <2>2
<1>5. ASSUME NEW c \in Connection, AddToList(c)
       PROVE  RefInv'
  <2>1. \A d \in Connection : Owns(d)' = Owns(d)
    BY <1>5 DEF AddToList, TypeOK, Owns
  <2> QED BY <1>5, <2>1, SameUsers DEF AddToList
<1>6. ASSUME NEW c \in Connection, Replace(c)
       PROVE  RefInv'
  <2>1. \A d \in Connection : Owns(d)' = Owns(d)
    BY <1>6 DEF Replace, TypeOK, Owns
  <2> QED BY <1>6, <2>1, SameUsers DEF Replace
<1>7. ASSUME NEW c \in Connection, ReleaseOld(c)
       PROVE  RefInv'
  <2>1. CASE found[c] = Nobody
    <3>1. \A d \in Connection : Owns(d)' = Owns(d)
      BY <1>7 DEF ReleaseOld, TypeOK, Owns
    <3>2. UNCHANGED <<found, held, ptr_counter>>
      BY <1>7, <2>1 DEF ReleaseOld, TypeOK
    <3> QED BY <3>1, <3>2, SameUsers
  <2>2. CASE found[c] # Nobody
    <3>1. PICK d \in Connection : found[c] = d /\ Release(d)
      BY <1>7, <2>2 DEF ReleaseOld, TypeOK
    <3>2. <<"found", c>> \in Users(d) /\ Users(d)' = Users(d) \ {<<"found", c>>}
      BY <1>7, <3>1, ConnectionsFinite DEF ReleaseOld, TypeOK, Owns, Users, Agents
    <3>3. \A e \in Connection \ {d} : Users(e)' = Users(e)
      BY <1>7, <3>1, ConnectionsFinite DEF ReleaseOld, TypeOK, Owns, Users, Agents
    <3> QED BY <3>1, <3>2, <3>3, ReleaseCounts
  <2> QED BY <2>1, <2>2
<1>8. ASSUME NEW c \in Connection, Leave(c)
       PROVE  RefInv'
  <2>1. \A d \in Connection : Owns(d)' = Owns(d)
    BY <1>8 DEF Leave, TypeOK, Owns, PlaceInv
  <2> QED BY <1>8, <2>1, SameUsers DEF Leave, PlaceInv
<1>9. ASSUME NEW c \in Connection, GiveUp(c)
       PROVE  RefInv'
  <2>1. \A d \in Connection : Owns(d)' = Owns(d)
    BY <1>9 DEF GiveUp, TypeOK, Owns
  <2> QED BY <1>9, <2>1, SameUsers DEF GiveUp
<1>10. ASSUME NEW c \in Connection, MoveToTrash(c)
       PROVE  RefInv'
  <2>1. \A d \in Connection : Owns(d)' = Owns(d)
    BY <1>10 DEF MoveToTrash, TypeOK, Owns
  <2> QED BY <1>10, <2>1, SameUsers DEF MoveToTrash
<1>11. ASSUME NEW c \in Connection, EmptyBefore(c)
       PROVE  RefInv'
  <2>1. \A d \in Connection : Owns(d)' = Owns(d)
    BY <1>11 DEF EmptyBefore, TypeOK, Owns, EmptyTrash
  <2> QED BY <1>11, <2>1, SameUsers DEF EmptyBefore, EmptyTrash
<1>12. ASSUME NEW c \in Connection, Waited(c)
       PROVE  RefInv'
  <2>1. \A d \in Connection : Owns(d)' = Owns(d)
    BY <1>12 DEF Waited, TypeOK, Owns
  <2> QED BY <1>12, <2>1, SameUsers DEF Waited
<1>13. ASSUME NEW c \in Connection, Unref(c)
       PROVE  RefInv'
  <2>1. guid[c] # Nobody
    BY <1>13 DEF Unref, PlaceInv
  <2>2. <<"own", c>> \in Users(c) /\ Users(c)' = Users(c) \ {<<"own", c>>}
    BY <1>13, <2>1 DEF Unref, TypeOK, Owns, Users, Agents
  <2>3. \A e \in Connection \ {c} : Users(e)' = Users(e)
    BY <1>13, <2>1 DEF Unref, TypeOK, Owns, Users, Agents
  <2> QED BY <1>13, <2>1, <2>2, <2>3, ReleaseCounts DEF Unref
<1>14. ASSUME NEW c \in Connection, EmptyAfter(c)
       PROVE  RefInv'
  <2>1. \A d \in Connection : Owns(d)' = Owns(d)
    BY <1>14 DEF EmptyAfter, TypeOK, Owns, EmptyTrash
  <2> QED BY <1>14, <2>1, SameUsers DEF EmptyAfter, EmptyTrash
<1>15. ASSUME NEW c \in Connection, DeleteRefused(c)
       PROVE  RefInv'
  <2>1. \A d \in Connection : Owns(d)' = Owns(d)
    BY <1>15 DEF DeleteRefused, TypeOK, Owns
  <2> QED BY <1>15, <2>1, SameUsers DEF DeleteRefused
<1>16. ASSUME NEW c \in Connection, Finish(c)
       PROVE  RefInv'
  <2>1. \A d \in Connection : Owns(d)' = Owns(d)
    BY <1>16 DEF Finish, TypeOK, Owns
  <2> QED BY <1>16, <2>1, SameUsers DEF Finish
<1>17. ASSUME NEW h \in Holder, Find(h)
       PROVE  RefInv'
  <2>1. PICK d \in arr : held' = [held EXCEPT ![h] = d] /\ Retain(d)
    BY <1>17 DEF Find
  <2>2. d \in Connection
    BY DEF TypeOK
  <2>3. <<"held", h>> \notin Users(d) /\ Users(d)' = Users(d) \cup {<<"held", h>>}
    BY <1>17, <2>1, <2>2 DEF Find, TypeOK, Owns, Users, Agents, Connection
  <2>4. \A e \in Connection \ {d} : Users(e)' = Users(e)
    BY <1>17, <2>1, <2>2 DEF Find, TypeOK, Owns, Users, Agents, Connection
  <2> QED BY <2>1, <2>2, <2>3, <2>4, RetainCounts
<1>18. ASSUME NEW h \in Holder, Use(h)
       PROVE  RefInv'
  <2>1. \A d \in Connection : Owns(d)' = Owns(d)
    BY <1>18 DEF Use, TypeOK, Owns
  <2> QED BY <1>18, <2>1, SameUsers DEF Use
<1>19. ASSUME NEW h \in Holder, Reconnect(h)
       PROVE  RefInv'
  <2>1. \A d \in Connection : Owns(d)' = Owns(d)
    BY <1>19 DEF Reconnect, TypeOK, Owns
  <2> QED BY <1>19, <2>1, SameUsers DEF Reconnect
<1>20. ASSUME NEW h \in Holder, Drop(h)
       PROVE  RefInv'
  <2>1. PICK d \in Connection : held[h] = d /\ Release(d)
    BY <1>20 DEF Drop, TypeOK
  <2>2. <<"held", h>> \in Users(d) /\ Users(d)' = Users(d) \ {<<"held", h>>}
    BY <1>20, <2>1, ConnectionsFinite DEF Drop, TypeOK, Owns, Users, Agents
  <2>3. \A e \in Connection \ {d} : Users(e)' = Users(e)
    BY <1>20, <2>1, ConnectionsFinite DEF Drop, TypeOK, Owns, Users, Agents
  <2> QED BY <2>1, <2>2, <2>3, ReleaseCounts
<1>21. CASE UNCHANGED vars
  BY <1>21, SameUsers DEF vars, Owns
<1> QED BY <1>1, <1>2, <1>3, <1>4, <1>5, <1>6, <1>7, <1>8, <1>9,
           <1>10, <1>11, <1>12, <1>13, <1>14, <1>15, <1>16, <1>17, <1>18,
           <1>19, <1>20, <1>21
        DEF Next, RegisterStep, EndStep
\* Where connections are.
LEMMA PlaceStep ==
  ASSUME TypeOK, RefInv, PlaceInv, UserInv, [Next]_vars
  PROVE  PlaceInv'
<1> USE ConnectionsAssumption DEF PlaceInv, UserInv, TypeOK, At, Running, Goto, objects, lists, Begins
<1>1. ASSUME NEW c \in Connection, TakeSlot(c)
       PROVE  PlaceInv'
  BY <1>1 DEF TakeSlot
<1>2. ASSUME NEW c \in Connection, NEW local \in BOOLEAN, NoSlot(c, local)
       PROVE  PlaceInv'
  BY <1>2 DEF NoSlot
<1>3. ASSUME NEW c \in Connection, NEW g \in GUID, NEW accepted \in BOOLEAN, Register(c, g, accepted)
       PROVE  PlaceInv'
  BY <1>3 DEF Register
<1>4. ASSUME NEW c \in Connection, LookUp(c)
       PROVE  PlaceInv'
  BY <1>4 DEF LookUp, Same
<1>5. ASSUME NEW c \in Connection, AddToList(c)
       PROVE  PlaceInv'
  BY <1>5 DEF AddToList
<1>6. ASSUME NEW c \in Connection, Replace(c)
       PROVE  PlaceInv'
  BY <1>6 DEF Replace
<1>7. ASSUME NEW c \in Connection, ReleaseOld(c)
       PROVE  PlaceInv'
  BY <1>7 DEF ReleaseOld
<1>8. ASSUME NEW c \in Connection, Leave(c)
       PROVE  PlaceInv'
  BY <1>8 DEF Leave
<1>9. ASSUME NEW c \in Connection, GiveUp(c)
       PROVE  PlaceInv'
  BY <1>9 DEF GiveUp
<1>10. ASSUME NEW c \in Connection, MoveToTrash(c)
       PROVE  PlaceInv'
  BY <1>10 DEF MoveToTrash
<1>11. ASSUME NEW c \in Connection, EmptyBefore(c)
       PROVE  PlaceInv'
  <2>1. \A d \in Unused : ~Owns(d) /\ ~Taken(d)
    BY UnusedIsFree DEF Unused, TypeOK
  <2> QED BY <1>11, <2>1 DEF EmptyBefore, EmptyTrash, Owns, Unused
<1>12. ASSUME NEW c \in Connection, Waited(c)
       PROVE  PlaceInv'
  BY <1>12 DEF Waited
<1>13. ASSUME NEW c \in Connection, Unref(c)
       PROVE  PlaceInv'
  BY <1>13 DEF Unref
<1>14. ASSUME NEW c \in Connection, EmptyAfter(c)
       PROVE  PlaceInv'
  <2>1. \A d \in Unused : ~Owns(d) /\ ~Taken(d)
    BY UnusedIsFree DEF Unused, TypeOK
  <2> QED BY <1>14, <2>1 DEF EmptyAfter, EmptyTrash, Owns, Unused
<1>15. ASSUME NEW c \in Connection, DeleteRefused(c)
       PROVE  PlaceInv'
  BY <1>15 DEF DeleteRefused
<1>16. ASSUME NEW c \in Connection, Finish(c)
       PROVE  PlaceInv'
  BY <1>16 DEF Finish
<1>17. ASSUME NEW h \in Holder, Find(h)
       PROVE  PlaceInv'
  BY <1>17 DEF Find
<1>18. ASSUME NEW h \in Holder, Use(h)
       PROVE  PlaceInv'
  BY <1>18 DEF Use
<1>19. ASSUME NEW h \in Holder, Reconnect(h)
       PROVE  PlaceInv'
  BY <1>19 DEF Reconnect
<1>20. ASSUME NEW h \in Holder, Drop(h)
       PROVE  PlaceInv'
  BY <1>20 DEF Drop
<1>21. CASE UNCHANGED vars
  BY <1>21 DEF vars
<1> QED BY <1>1, <1>2, <1>3, <1>4, <1>5, <1>6, <1>7, <1>8, <1>9,
           <1>10, <1>11, <1>12, <1>13, <1>14, <1>15, <1>16, <1>17, <1>18,
           <1>19, <1>20, <1>21
        DEF Next, RegisterStep, EndStep
\* Who is registered.
LEMMA UserStep ==
  ASSUME TypeOK, RefInv, PlaceInv, UserInv, [Next]_vars
  PROVE  UserInv'
<1> USE ConnectionsAssumption DEF PlaceInv, UserInv, TypeOK, At, Running, Goto, objects, lists, Begins
<1>1. ASSUME NEW c \in Connection, TakeSlot(c)
       PROVE  UserInv'
  BY <1>1 DEF TakeSlot
<1>2. ASSUME NEW c \in Connection, NEW local \in BOOLEAN, NoSlot(c, local)
       PROVE  UserInv'
  BY <1>2 DEF NoSlot
<1>3. ASSUME NEW c \in Connection, NEW g \in GUID, NEW accepted \in BOOLEAN, Register(c, g, accepted)
       PROVE  UserInv'
  BY <1>3 DEF Register
<1>4. ASSUME NEW c \in Connection, LookUp(c)
       PROVE  UserInv'
  BY <1>4 DEF LookUp, Same
<1>5. ASSUME NEW c \in Connection, AddToList(c)
       PROVE  UserInv'
  BY <1>5 DEF AddToList
<1>6. ASSUME NEW c \in Connection, Replace(c)
       PROVE  UserInv'
  BY <1>6 DEF Replace
<1>7. ASSUME NEW c \in Connection, ReleaseOld(c)
       PROVE  UserInv'
  BY <1>7 DEF ReleaseOld
<1>8. ASSUME NEW c \in Connection, Leave(c)
       PROVE  UserInv'
  BY <1>8 DEF Leave
<1>9. ASSUME NEW c \in Connection, GiveUp(c)
       PROVE  UserInv'
  BY <1>9 DEF GiveUp
<1>10. ASSUME NEW c \in Connection, MoveToTrash(c)
       PROVE  UserInv'
  BY <1>10 DEF MoveToTrash
<1>11. ASSUME NEW c \in Connection, EmptyBefore(c)
       PROVE  UserInv'
  <2>1. \A d \in Unused : ~Owns(d) /\ ~Taken(d)
    BY UnusedIsFree DEF Unused, TypeOK
  <2> QED BY <1>11, <2>1 DEF EmptyBefore, EmptyTrash, Owns, Unused
<1>12. ASSUME NEW c \in Connection, Waited(c)
       PROVE  UserInv'
  BY <1>12 DEF Waited
<1>13. ASSUME NEW c \in Connection, Unref(c)
       PROVE  UserInv'
  BY <1>13 DEF Unref
<1>14. ASSUME NEW c \in Connection, EmptyAfter(c)
       PROVE  UserInv'
  <2>1. \A d \in Unused : ~Owns(d) /\ ~Taken(d)
    BY UnusedIsFree DEF Unused, TypeOK
  <2> QED BY <1>14, <2>1 DEF EmptyAfter, EmptyTrash, Owns, Unused
<1>15. ASSUME NEW c \in Connection, DeleteRefused(c)
       PROVE  UserInv'
  BY <1>15 DEF DeleteRefused
<1>16. ASSUME NEW c \in Connection, Finish(c)
       PROVE  UserInv'
  BY <1>16 DEF Finish
<1>17. ASSUME NEW h \in Holder, Find(h)
       PROVE  UserInv'
  BY <1>17 DEF Find
<1>18. ASSUME NEW h \in Holder, Use(h)
       PROVE  UserInv'
  BY <1>18 DEF Use
<1>19. ASSUME NEW h \in Holder, Reconnect(h)
       PROVE  UserInv'
  BY <1>19 DEF Reconnect
<1>20. ASSUME NEW h \in Holder, Drop(h)
       PROVE  UserInv'
  BY <1>20 DEF Drop
<1>21. CASE UNCHANGED vars
  BY <1>21 DEF vars
<1> QED BY <1>1, <1>2, <1>3, <1>4, <1>5, <1>6, <1>7, <1>8, <1>9,
           <1>10, <1>11, <1>12, <1>13, <1>14, <1>15, <1>16, <1>17, <1>18,
           <1>19, <1>20, <1>21
        DEF Next, RegisterStep, EndStep
\* What others use.
LEMMA TakenStep ==
  ASSUME TypeOK, RefInv, PlaceInv, UserInv, TakenInv, [Next]_vars
  PROVE  TakenInv'
<1> USE ConnectionsAssumption DEF PlaceInv, UserInv, TakenInv, TypeOK, At, Running, Goto, objects, lists, Begins
<1>1. ASSUME NEW c \in Connection, TakeSlot(c)
       PROVE  TakenInv'
  BY <1>1 DEF TakeSlot, Taken
<1>2. ASSUME NEW c \in Connection, NEW local \in BOOLEAN, NoSlot(c, local)
       PROVE  TakenInv'
  BY <1>2 DEF NoSlot, Taken
<1>3. ASSUME NEW c \in Connection, NEW g \in GUID, NEW accepted \in BOOLEAN, Register(c, g, accepted)
       PROVE  TakenInv'
  BY <1>3 DEF Register, Taken
<1>4. ASSUME NEW c \in Connection, LookUp(c)
       PROVE  TakenInv'
  <2>1. hist'.gave_up = hist.gave_up /\ UNCHANGED <<device, user, held>>
    BY <1>4 DEF LookUp, Crowded
  <2>2. \A d \in Connection : Taken(d)' => Taken(d) \/ d \in arr
    <3>1. CASE Same(c) = {}
      BY <1>4, <3>1 DEF LookUp, Taken
    <3>2. CASE Same(c) # {}
      <4>1. PICK d \in Same(c) : found' = [found EXCEPT ![c] = d]
        BY <1>4, <3>2 DEF LookUp
      <4> QED BY <1>4, <4>1 DEF LookUp, Taken, Same
    <3> QED BY <3>1, <3>2
  <2>3. c \notin user /\ pc[c] = "lookup" /\ pc' = [pc EXCEPT ![c] = "add"]
    BY <1>4 DEF LookUp
  <2>4. \A d \in arr : pc[d] \in {"replace", "release"} \/ d \in user
    OBVIOUS
  <2>5. \A d \in arr : device[d] = "live" /\ pc[d] \notin {"unref", "empty2", "delete", "finish", "finished"}
    OBVIOUS
  <2> QED BY <2>1, <2>2, <2>3, <2>4, <2>5
<1>5. ASSUME NEW c \in Connection, AddToList(c)
       PROVE  TakenInv'
  <2>1. hist'.gave_up = hist.gave_up /\ UNCHANGED <<device, user, held, found>>
    BY <1>5 DEF AddToList, Crowded
  <2> QED BY <1>5, <2>1 DEF AddToList, Taken
<1>6. ASSUME NEW c \in Connection, Replace(c)
       PROVE  TakenInv'
  BY <1>6 DEF Replace, Taken
<1>7. ASSUME NEW c \in Connection, ReleaseOld(c)
       PROVE  TakenInv'
  <2>1. \A d \in Connection : Taken(d)' => Taken(d)
    BY <1>7, ConnectionsFinite DEF ReleaseOld, Taken
  <2>2. pc' = [pc EXCEPT ![c] = "online"] /\ user' = user \cup {c} /\ UNCHANGED <<device, hist>>
    BY <1>7 DEF ReleaseOld
  <2> QED BY <2>1, <2>2
<1>8. ASSUME NEW c \in Connection, Leave(c)
       PROVE  TakenInv'
  BY <1>8 DEF Leave, Taken
<1>9. ASSUME NEW c \in Connection, GiveUp(c)
       PROVE  TakenInv'
  BY <1>9 DEF GiveUp, Taken
<1>10. ASSUME NEW c \in Connection, MoveToTrash(c)
       PROVE  TakenInv'
  BY <1>10 DEF MoveToTrash, Taken
<1>11. ASSUME NEW c \in Connection, EmptyBefore(c)
       PROVE  TakenInv'
  <2>1. \A d \in Unused : ~Owns(d) /\ ~Taken(d)
    BY UnusedIsFree DEF Unused, TypeOK
  <2> QED BY <1>11, <2>1 DEF EmptyBefore, EmptyTrash, Owns, Unused, Taken
<1>12. ASSUME NEW c \in Connection, Waited(c)
       PROVE  TakenInv'
  <2>1. Owns(c) /\ ptr_counter[c] <= 1
    BY <1>12 DEF Waited, Owns
  <2>2. ~Taken(c)
    BY <2>1, WaitedIsFree
  <2> QED BY <1>12, <2>2 DEF Waited, Taken
<1>13. ASSUME NEW c \in Connection, Unref(c)
       PROVE  TakenInv'
  BY <1>13 DEF Unref, Taken
<1>14. ASSUME NEW c \in Connection, EmptyAfter(c)
       PROVE  TakenInv'
  <2>1. \A d \in Unused : ~Owns(d) /\ ~Taken(d)
    BY UnusedIsFree DEF Unused, TypeOK
  <2> QED BY <1>14, <2>1 DEF EmptyAfter, EmptyTrash, Owns, Unused, Taken
<1>15. ASSUME NEW c \in Connection, DeleteRefused(c)
       PROVE  TakenInv'
  BY <1>15 DEF DeleteRefused, Taken
<1>16. ASSUME NEW c \in Connection, Finish(c)
       PROVE  TakenInv'
  BY <1>16 DEF Finish, Taken
<1>17. ASSUME NEW h \in Holder, Find(h)
       PROVE  TakenInv'
  BY <1>17 DEF Find, Taken
<1>18. ASSUME NEW h \in Holder, Use(h)
       PROVE  TakenInv'
  BY <1>18 DEF Use, Taken
<1>19. ASSUME NEW h \in Holder, Reconnect(h)
       PROVE  TakenInv'
  BY <1>19 DEF Reconnect, Taken
<1>20. ASSUME NEW h \in Holder, Drop(h)
       PROVE  TakenInv'
  <2>1. \A d \in Connection : Taken(d)' => Taken(d)
    BY <1>20, ConnectionsFinite DEF Drop, Taken
  <2> QED BY <1>20, <2>1 DEF Drop
<1>21. CASE UNCHANGED vars
  BY <1>21 DEF vars, Taken
<1> QED BY <1>1, <1>2, <1>3, <1>4, <1>5, <1>6, <1>7, <1>8, <1>9,
           <1>10, <1>11, <1>12, <1>13, <1>14, <1>15, <1>16, <1>17, <1>18,
           <1>19, <1>20, <1>21
        DEF Next, RegisterStep, EndStep
\* What connections leave behind.
LEMMA EndStepKeeps ==
  ASSUME TypeOK, RefInv, PlaceInv, UserInv, TakenInv, EndInv, [Next]_vars
  PROVE  EndInv'
<1> USE ConnectionsAssumption DEF PlaceInv, UserInv, TakenInv, EndInv, TypeOK, At, Running, Goto, objects, lists, Begins
<1>1. ASSUME NEW c \in Connection, TakeSlot(c)
       PROVE  EndInv'
  BY <1>1 DEF TakeSlot
<1>2. ASSUME NEW c \in Connection, NEW local \in BOOLEAN, NoSlot(c, local)
       PROVE  EndInv'
  BY <1>2 DEF NoSlot
<1>3. ASSUME NEW c \in Connection, NEW g \in GUID, NEW accepted \in BOOLEAN, Register(c, g, accepted)
       PROVE  EndInv'
  BY <1>3 DEF Register
<1>4. ASSUME NEW c \in Connection, LookUp(c)
       PROVE  EndInv'
  BY <1>4 DEF LookUp, Crowded
<1>5. ASSUME NEW c \in Connection, AddToList(c)
       PROVE  EndInv'
  BY <1>5 DEF AddToList, Crowded
<1>6. ASSUME NEW c \in Connection, Replace(c)
       PROVE  EndInv'
  BY <1>6 DEF Replace
<1>7. ASSUME NEW c \in Connection, ReleaseOld(c)
       PROVE  EndInv'
  BY <1>7 DEF ReleaseOld
<1>8. ASSUME NEW c \in Connection, Leave(c)
       PROVE  EndInv'
  BY <1>8 DEF Leave
<1>9. ASSUME NEW c \in Connection, GiveUp(c)
       PROVE  EndInv'
  BY <1>9 DEF GiveUp
<1>10. ASSUME NEW c \in Connection, MoveToTrash(c)
       PROVE  EndInv'
  BY <1>10 DEF MoveToTrash
<1>11. ASSUME NEW c \in Connection, EmptyBefore(c)
       PROVE  EndInv'
  BY <1>11 DEF EmptyBefore, EmptyTrash
<1>12. ASSUME NEW c \in Connection, Waited(c)
       PROVE  EndInv'
  BY <1>12 DEF Waited
<1>13. ASSUME NEW c \in Connection, Unref(c)
       PROVE  EndInv'
  BY <1>13 DEF Unref
<1>14. ASSUME NEW c \in Connection, EmptyAfter(c)
       PROVE  EndInv'
  <2>1. CASE c \in hist.gave_up
    BY <1>14, <2>1 DEF EmptyAfter, EmptyTrash
  <2>2. CASE c \notin hist.gave_up
    <3>1. Users(c) = {}
      BY <1>14, <2>2 DEF EmptyAfter, Users, Agents, Owns, Taken
    <3>2. ptr_counter[c] = 0
      BY <3>1, FS_EmptySet DEF RefInv
    <3>3. device'[c] # "live"
      BY <1>14, <3>2 DEF EmptyAfter, EmptyTrash, Unused
    <3> QED BY <1>14, <3>3 DEF EmptyAfter, EmptyTrash
  <2> QED BY <2>1, <2>2
<1>15. ASSUME NEW c \in Connection, DeleteRefused(c)
       PROVE  EndInv'
  BY <1>15 DEF DeleteRefused
<1>16. ASSUME NEW c \in Connection, Finish(c)
       PROVE  EndInv'
  BY <1>16 DEF Finish
<1>17. ASSUME NEW h \in Holder, Find(h)
       PROVE  EndInv'
  BY <1>17 DEF Find
<1>18. ASSUME NEW h \in Holder, Use(h)
       PROVE  EndInv'
  BY <1>18 DEF Use
<1>19. ASSUME NEW h \in Holder, Reconnect(h)
       PROVE  EndInv'
  BY <1>19 DEF Reconnect
<1>20. ASSUME NEW h \in Holder, Drop(h)
       PROVE  EndInv'
  BY <1>20 DEF Drop
<1>21. CASE UNCHANGED vars
  BY <1>21 DEF vars
<1> QED BY <1>1, <1>2, <1>3, <1>4, <1>5, <1>6, <1>7, <1>8, <1>9,
           <1>10, <1>11, <1>12, <1>13, <1>14, <1>15, <1>16, <1>17, <1>18,
           <1>19, <1>20, <1>21
        DEF Next, RegisterStep, EndStep
\* Nobody stumbles but over a connection that gave up.
LEMMA FaultStep ==
  ASSUME TypeOK, PlaceInv, UserInv, TakenInv, FaultInv, [Next]_vars
  PROVE  FaultInv'
<1> USE ConnectionsAssumption DEF PlaceInv, TakenInv, FaultInv, Taken, TerminateOf, TypeOK, At, Running, Goto, objects, lists, Begins
<1>1. ASSUME NEW c \in Connection, TakeSlot(c)
       PROVE  FaultInv'
  BY <1>1 DEF TakeSlot
<1>2. ASSUME NEW c \in Connection, NEW local \in BOOLEAN, NoSlot(c, local)
       PROVE  FaultInv'
  BY <1>2 DEF NoSlot
<1>3. ASSUME NEW c \in Connection, NEW g \in GUID, NEW accepted \in BOOLEAN, Register(c, g, accepted)
       PROVE  FaultInv'
  BY <1>3 DEF Register
<1>4. ASSUME NEW c \in Connection, LookUp(c)
       PROVE  FaultInv'
  BY <1>4 DEF LookUp
<1>5. ASSUME NEW c \in Connection, AddToList(c)
       PROVE  FaultInv'
  BY <1>5 DEF AddToList
<1>6. ASSUME NEW c \in Connection, Replace(c)
       PROVE  FaultInv'
  BY <1>6 DEF Replace
<1>7. ASSUME NEW c \in Connection, ReleaseOld(c)
       PROVE  FaultInv'
  BY <1>7 DEF ReleaseOld
<1>8. ASSUME NEW c \in Connection, Leave(c)
       PROVE  FaultInv'
  BY <1>8 DEF Leave
<1>9. ASSUME NEW c \in Connection, GiveUp(c)
       PROVE  FaultInv'
  BY <1>9 DEF GiveUp
<1>10. ASSUME NEW c \in Connection, MoveToTrash(c)
       PROVE  FaultInv'
  BY <1>10 DEF MoveToTrash
<1>11. ASSUME NEW c \in Connection, EmptyBefore(c)
       PROVE  FaultInv'
  BY <1>11 DEF EmptyBefore, EmptyTrash, Unused
<1>12. ASSUME NEW c \in Connection, Waited(c)
       PROVE  FaultInv'
  BY <1>12 DEF Waited
<1>13. ASSUME NEW c \in Connection, Unref(c)
       PROVE  FaultInv'
  BY <1>13 DEF Unref
<1>14. ASSUME NEW c \in Connection, EmptyAfter(c)
       PROVE  FaultInv'
  BY <1>14 DEF EmptyAfter, EmptyTrash, Unused
<1>15. ASSUME NEW c \in Connection, DeleteRefused(c)
       PROVE  FaultInv'
  BY <1>15 DEF DeleteRefused
<1>16. ASSUME NEW c \in Connection, Finish(c)
       PROVE  FaultInv'
  BY <1>16 DEF Finish
<1>17. ASSUME NEW h \in Holder, Find(h)
       PROVE  FaultInv'
  BY <1>17 DEF Find
<1>18. ASSUME NEW h \in Holder, Use(h)
       PROVE  FaultInv'
  BY <1>18 DEF Use
<1>19. ASSUME NEW h \in Holder, Reconnect(h)
       PROVE  FaultInv'
  BY <1>19 DEF Reconnect
<1>20. ASSUME NEW h \in Holder, Drop(h)
       PROVE  FaultInv'
  BY <1>20 DEF Drop
<1>21. CASE UNCHANGED vars
  BY <1>21 DEF vars
<1> QED BY <1>1, <1>2, <1>3, <1>4, <1>5, <1>6, <1>7, <1>8, <1>9,
           <1>10, <1>11, <1>12, <1>13, <1>14, <1>15, <1>16, <1>17, <1>18,
           <1>19, <1>20, <1>21
        DEF Next, RegisterStep, EndStep
\* Two connections of a device.
LEMMA PairStep ==
  ASSUME TypeOK, PlaceInv, PairInv, [Next]_vars
  PROVE  PairInv'
<1> USE ConnectionsAssumption DEF PlaceInv, PairInv, InList, TypeOK, At, Running, Goto, objects, lists, Begins
<1>1. ASSUME NEW c \in Connection, TakeSlot(c)
       PROVE  PairInv'
  BY <1>1 DEF TakeSlot
<1>2. ASSUME NEW c \in Connection, NEW local \in BOOLEAN, NoSlot(c, local)
       PROVE  PairInv'
  BY <1>2 DEF NoSlot
<1>3. ASSUME NEW c \in Connection, NEW g \in GUID, NEW accepted \in BOOLEAN, Register(c, g, accepted)
       PROVE  PairInv'
  BY <1>3 DEF Register
<1>4. ASSUME NEW c \in Connection, LookUp(c)
       PROVE  PairInv'
  <2>1. Same(c) \subseteq Connection /\ IsFiniteSet(Same(c))
    BY ConnectionsFinite, FS_Subset DEF Same, TypeOK
  <2>2. ASSUME NEW d \in Connection, d # c, guid[d] = guid[c], pc[d] \in InList,
               guid[c] \notin hist'.crowded
        PROVE  found'[c] = d
    <3>1. d \in Same(c)
      BY <2>2 DEF Same
    <3>2. ~(Cardinality(Same(c)) > 1)
      BY <1>4, <2>2 DEF LookUp, Crowded
    <3>3. Same(c) = {d}
      <4>1. Cardinality(Same(c)) \in Nat /\ Cardinality(Same(c)) # 0
        BY <2>1, <3>1, FS_EmptySet, FS_CardinalityType
      <4>2. Cardinality(Same(c)) = 1
        BY <3>2, <4>1
      <4> QED BY <2>1, <3>1, <4>2, FS_Singleton
    <3> QED BY <1>4, <3>3 DEF LookUp
  <2>3. hist.crowded \subseteq hist'.crowded
    BY <1>4 DEF LookUp, Crowded
  <2>4. \A d \in Connection \ {c} : found'[d] = found[d] /\ pc'[d] = pc[d]
    BY <1>4 DEF LookUp
  <2>5. pc'[c] = "add" /\ guid' = guid /\ terminated' = terminated
    BY <1>4 DEF LookUp
  <2> QED BY <2>2, <2>3, <2>4, <2>5
<1>5. ASSUME NEW c \in Connection, AddToList(c)
       PROVE  PairInv'
  <2>1. hist.crowded \subseteq hist'.crowded
    BY <1>5 DEF AddToList, Crowded
  <2>2. ASSUME NEW d \in Connection, d # c, guid[d] = guid[c], pc[d] = "add"
        PROVE  guid[c] \in hist'.crowded
    BY <1>5, <2>2 DEF AddToList, Crowded
  <2>3. \A d \in Connection \ {c} : pc'[d] = pc[d]
    BY <1>5 DEF AddToList
  <2>4. pc[c] = "add" /\ pc'[c] = "replace" /\ UNCHANGED <<guid, found, terminated>>
    BY <1>5 DEF AddToList
  <2> QED BY <2>1, <2>2, <2>3, <2>4
<1>6. ASSUME NEW c \in Connection, Replace(c)
       PROVE  PairInv'
  <2>1. pc[c] = "replace" /\ pc' = [pc EXCEPT ![c] = "release"]
    BY <1>6 DEF Replace
  <2>2. UNCHANGED <<guid, found, hist>> /\ terminated \subseteq terminated'
    BY <1>6 DEF Replace, TerminateOf
  <2>3. \A d \in Connection : found[c] = d => d \in terminated'
    BY <1>6, ConnectionsFinite DEF Replace, TerminateOf
  <2> QED BY <2>1, <2>2, <2>3
<1>7. ASSUME NEW c \in Connection, ReleaseOld(c)
       PROVE  PairInv'
  BY <1>7 DEF ReleaseOld
<1>8. ASSUME NEW c \in Connection, Leave(c)
       PROVE  PairInv'
  BY <1>8 DEF Leave
<1>9. ASSUME NEW c \in Connection, GiveUp(c)
       PROVE  PairInv'
  BY <1>9 DEF GiveUp
<1>10. ASSUME NEW c \in Connection, MoveToTrash(c)
       PROVE  PairInv'
  BY <1>10 DEF MoveToTrash
<1>11. ASSUME NEW c \in Connection, EmptyBefore(c)
       PROVE  PairInv'
  BY <1>11 DEF EmptyBefore, EmptyTrash
<1>12. ASSUME NEW c \in Connection, Waited(c)
       PROVE  PairInv'
  BY <1>12 DEF Waited
<1>13. ASSUME NEW c \in Connection, Unref(c)
       PROVE  PairInv'
  BY <1>13 DEF Unref
<1>14. ASSUME NEW c \in Connection, EmptyAfter(c)
       PROVE  PairInv'
  BY <1>14 DEF EmptyAfter, EmptyTrash
<1>15. ASSUME NEW c \in Connection, DeleteRefused(c)
       PROVE  PairInv'
  BY <1>15 DEF DeleteRefused
<1>16. ASSUME NEW c \in Connection, Finish(c)
       PROVE  PairInv'
  BY <1>16 DEF Finish
<1>17. ASSUME NEW h \in Holder, Find(h)
       PROVE  PairInv'
  BY <1>17 DEF Find
<1>18. ASSUME NEW h \in Holder, Use(h)
       PROVE  PairInv'
  BY <1>18 DEF Use
<1>19. ASSUME NEW h \in Holder, Reconnect(h)
       PROVE  PairInv'
  BY <1>19 DEF Reconnect, TerminateOf
<1>20. ASSUME NEW h \in Holder, Drop(h)
       PROVE  PairInv'
  BY <1>20 DEF Drop
<1>21. CASE UNCHANGED vars
  BY <1>21 DEF vars
<1> QED BY <1>1, <1>2, <1>3, <1>4, <1>5, <1>6, <1>7, <1>8, <1>9,
           <1>10, <1>11, <1>12, <1>13, <1>14, <1>15, <1>16, <1>17, <1>18,
           <1>19, <1>20, <1>21
        DEF Next, RegisterStep, EndStep
\* Who has a slot.
LEMMA SlotStep ==
  ASSUME TypeOK, UserInv, SlotInv, [Next]_vars
  PROVE  SlotInv'
<1> USE DEF SlotInv, TypeOK, At, Running, Goto, objects, lists, Begins
<1>1. ASSUME NEW c \in Connection, TakeSlot(c)
      PROVE  SlotInv'
  BY <1>1 DEF TakeSlot, UserInv
<1>2. ASSUME NEW c \in Connection, NEW local \in BOOLEAN, NoSlot(c, local)
      PROVE  SlotInv'
  BY <1>2 DEF NoSlot
<1>3. ASSUME NEW c \in Connection, NEW g \in GUID, NEW accepted \in BOOLEAN,
             Register(c, g, accepted)
      PROVE  SlotInv'
  BY <1>3 DEF Register
<1>4. ASSUME NEW c \in Connection, LookUp(c)
      PROVE  SlotInv'
  BY <1>4 DEF LookUp
<1>5. ASSUME NEW c \in Connection, AddToList(c)
      PROVE  SlotInv'
  BY <1>5 DEF AddToList
<1>6. ASSUME NEW c \in Connection, Replace(c)
      PROVE  SlotInv'
  BY <1>6 DEF Replace
<1>7. ASSUME NEW c \in Connection, ReleaseOld(c)
      PROVE  SlotInv'
  BY <1>7 DEF ReleaseOld
<1>8. ASSUME NEW c \in Connection, Leave(c)
      PROVE  SlotInv'
  BY <1>8 DEF Leave
<1>9. ASSUME NEW c \in Connection, GiveUp(c)
      PROVE  SlotInv'
  BY <1>9 DEF GiveUp
<1>10. ASSUME NEW c \in Connection, MoveToTrash(c)
      PROVE  SlotInv'
  BY <1>10 DEF MoveToTrash
<1>11. ASSUME NEW c \in Connection, EmptyBefore(c)
      PROVE  SlotInv'
  BY <1>11 DEF EmptyBefore, EmptyTrash
<1>12. ASSUME NEW c \in Connection, Waited(c)
      PROVE  SlotInv'
  BY <1>12 DEF Waited
<1>13. ASSUME NEW c \in Connection, Unref(c)
      PROVE  SlotInv'
  BY <1>13 DEF Unref
<1>14. ASSUME NEW c \in Connection, EmptyAfter(c)
      PROVE  SlotInv'
  BY <1>14 DEF EmptyAfter, EmptyTrash
<1>15. ASSUME NEW c \in Connection, DeleteRefused(c)
      PROVE  SlotInv'
  BY <1>15 DEF DeleteRefused
<1>16. ASSUME NEW c \in Connection, Finish(c)
      PROVE  SlotInv'
  BY <1>16 DEF Finish
<1>17. ASSUME NEW h \in Holder, Find(h)
      PROVE  SlotInv'
  BY <1>17 DEF Find
<1>18. ASSUME NEW h \in Holder, Use(h)
      PROVE  SlotInv'
  BY <1>18 DEF Use
<1>19. ASSUME NEW h \in Holder, Reconnect(h)
      PROVE  SlotInv'
  BY <1>19 DEF Reconnect, TerminateOf
<1>20. ASSUME NEW h \in Holder, Drop(h)
      PROVE  SlotInv'
  BY <1>20 DEF Drop
<1>21. CASE UNCHANGED vars
  BY <1>21 DEF vars
<1> QED BY <1>1, <1>2, <1>3, <1>4, <1>5, <1>6, <1>7, <1>8, <1>9, 
           <1>10, <1>11, <1>12, <1>13, <1>14, <1>15, <1>16, <1>17, <1>18,
           <1>19, <1>20, <1>21
        DEF Next, RegisterStep, EndStep

LEMMA StepKeeps == IInv /\ [Next]_vars => IInv'
<1> SUFFICES ASSUME IInv, [Next]_vars PROVE IInv'
  OBVIOUS
<1>1. TypeOK' /\ RefInv' /\ PlaceInv'
  BY TypeStep, RefStep, PlaceStep DEF IInv
<1>2. UserInv' /\ TakenInv' /\ EndInv'
  BY UserStep, TakenStep, EndStepKeeps DEF IInv
<1>3. FaultInv' /\ PairInv' /\ SlotInv'
  BY FaultStep, PairStep, SlotStep DEF IInv
<1> QED BY <1>1, <1>2, <1>3 DEF IInv
-----------------------------------------------------------------------------
\* The inductive invariant.
THEOREM Invariance == Spec => []IInv
<1> QED BY Initial, StepKeeps, PTL DEF Spec

\* The types hold in every reachable state, and slots are not exceeded.
THEOREM TypeCorrect == Spec => []TypeOK
<1>1. IInv => TypeOK
  BY DEF IInv
<1> QED BY <1>1, Invariance, PTL

\* A device that a thread has found is there while the thread holds it.
THEOREM HeldDevicesLive == Spec => []HeldIsLive
<1>1. IInv => HeldIsLive
  BY DEF IInv, TypeOK, TakenInv, Taken, FaultInv, HeldIsLive
<1> QED BY <1>1, Invariance, PTL

\* So is its connection, unless it gave up waiting for the thread.
THEOREM ConnectionsWait == Spec => []ConnectionOutlivesUse
<1>1. IInv => ConnectionOutlivesUse
  BY DEF IInv, TypeOK, TakenInv, Taken, FaultInv, ConnectionOutlivesUse
<1> QED BY <1>1, Invariance, PTL

\* A device has one connection online that is not told to end, unless its
\* connections registered in a crowd.
THEOREM OneIsOnline == Spec => []OneOnline
<1>1. IInv => OneOnline
  BY DEF IInv, PairInv, InList, OneOnline
<1> QED BY <1>1, Invariance, PTL

\* Nothing is left of a connection that ended in order.
THEOREM RetiredAreDeleted == Spec => []RetiredIsDeleted
<1>1. IInv => RetiredIsDeleted
  BY DEF IInv, EndInv, RetiredIsDeleted
<1> QED BY <1>1, Invariance, PTL

\* The safety behind SlotsReturned: no slot is left with a connection that has
\* registered or ended, so that as many connections as there are slots taken are
\* between their start and their registration or end, all of them steps with an
\* end (serverconnection.cpp:152, 175-178, 826-836).
NoSlotLost ==
  \A c \in reg_pending_arr : c \notin user /\ pc[c] \notin {"none", "online", "finished"}
THEOREM SlotsAreKept == Spec => []NoSlotLost
<1>1. IInv => NoSlotLost
  BY DEF IInv, SlotInv, NoSlotLost
<1> QED BY <1>1, Invariance, PTL
==============================================================================
