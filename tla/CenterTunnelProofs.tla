------------------------- MODULE CenterTunnelProofs -------------------------
(***************************************************************************)
(* Proofs about CenterTunnel for any number of hosts, proxies and streams, *)
(* and for a database that is absent, sound or failing.                    *)
(***************************************************************************)
EXTENDS CenterTunnel, TLAPS

USE TunnelAssumption

-----------------------------------------------------------------------------
(* What a record of the registry is, and that None is none. *)
LEMMA RecordType ==
  /\ \A s \in Stream : [stream |-> s, status |-> "online"] \in Record
  /\ \A r \in Record, st \in {"online", "offline"} :
       WithStatus(r, st) \in Record /\ WithStatus(r, st).stream = r.stream
  /\ None \notin Record
  BY DEF Record, WithStatus

(* Register, UpdateHeartbeat and the removals keep the types. *)
LEMMA RegisterType ==
  ASSUME TypeOK, NEW h \in Host, NEW s \in Stream, Register(h, s)
  PROVE  /\ rec' \in [Host -> Record \union {None}]
         /\ aged' \in [Host -> BOOLEAN]
  BY RecordType DEF Register, TypeOK

LEMMA UpdateHeartbeatType ==
  ASSUME TypeOK, NEW h \in Host, UpdateHeartbeat(h)
  PROVE  /\ rec' \in [Host -> Record \union {None}]
         /\ aged' \in [Host -> BOOLEAN]
         /\ \A g \in Host : rec'[g] = None <=> rec[g] = None
         /\ \A g \in Host : rec[g] # None => rec'[g].stream = rec[g].stream
<1>1. CASE rec[h] = None
  BY <1>1 DEF UpdateHeartbeat, TypeOK
<1>2. CASE rec[h] # None
  <2>1. rec[h] \in Record
    BY <1>2 DEF TypeOK
  <2>2. WithStatus(rec[h], "online") \in Record
        /\ WithStatus(rec[h], "online").stream = rec[h].stream
    BY <2>1, RecordType
  <2>3. /\ rec' = [rec EXCEPT ![h] = WithStatus(rec[h], "online")]
        /\ aged' = [aged EXCEPT ![h] = FALSE]
    BY <1>2 DEF UpdateHeartbeat
  <2> DEFINE r == WithStatus(rec[h], "online")
  <2>4. r \in Record /\ r # None /\ r.stream = rec[h].stream
    BY <2>2, RecordType
  <2> HIDE DEF r
  <2>5. rec' = [rec EXCEPT ![h] = r]
    BY <2>3 DEF r
  <2> QED
    BY <1>2, <2>3, <2>4, <2>5 DEF TypeOK
<1> QED
  BY <1>1, <1>2

LEMMA WithoutType ==
  ASSUME TypeOK, NEW hosts
  PROVE  Without(hosts) \in [Host -> Record \union {None}]
  BY DEF Without, TypeOK

LEMMA WritingType ==
  ASSUME TypeOK, NEW op \in {"heartbeat", "offline"}, NEW hosts \in SUBSET Host,
         NEW s \in Stream
  PROVE  Writing(op, hosts, s) \in SUBSET Write
  BY DEF Writing, Write, TypeOK

LEMMA WrittenType ==
  ASSUME TypeOK, NEW h \in Host, NEW status \in {"online", "offline"}
  PROVE  /\ Written(h, status) \in [Host -> {"absent", "online", "offline"}]
         /\ \A g \in Host : row[g] # "absent" => Written(h, status)[g] # "absent"
  BY DEF Written, TypeOK

(* The type invariant holds initially. *)
LEMMA InitTypeOK == Init => TypeOK
  BY DEF Init, TypeOK, HandlerPCs

(* No step of a client breaks the type invariant. *)
LEMMA ClientStepTypeOK == TypeOK /\ ClientStep => TypeOK'
<1> SUFFICES ASSUME TypeOK, ClientStep PROVE TypeOK'
  OBVIOUS
<1> USE DEF handlerVars, clientVars
<1>a. \A p \in Proxy, h \in Host : Announced(p, h) \in [Stream -> SUBSET Host]
  BY DEF Announced, TypeOK
<1>1. ASSUME NEW s \in Stream, Open(s) \/ Drop(s) PROVE TypeOK'
  BY <1>1 DEF Open, Drop, TypeOK
<1>2. ASSUME NEW s \in Stream, Beat(s) PROVE TypeOK'
  BY <1>2 DEF Beat, TypeOK
<1>3. ASSUME NEW h \in Host, Detach(h) PROVE TypeOK'
  BY <1>3 DEF Detach, TypeOK
<1>4. ASSUME NEW h \in Host, BeatViaProxy(h) PROVE TypeOK'
  <2>1. via[h] \in Proxy
    BY <1>4 DEF BeatViaProxy, TypeOK
  <2> QED
    BY <1>4, <1>a, <2>1 DEF BeatViaProxy, TypeOK
<1>5. ASSUME NEW h \in Host, NEW p \in Proxy, Attach(h, p) PROVE TypeOK'
  BY <1>5, <1>a DEF Attach, TypeOK
<1> QED
  BY <1>1, <1>2, <1>3, <1>4, <1>5 DEF ClientStep

(* A handler that works on a forwarded registration knows its host. *)
CurIsHost ==
  \A s \in Stream : pc[s] \in {"found", "missing", "upserting"} => cur[s] \in Host

(* No step of a handler breaks the type invariant. *)
LEMMA HandlerStepTypeOK ==
  ASSUME TypeOK, CurIsHost, NEW s \in Stream, HandlerStep(s)
  PROVE  TypeOK'
<1> USE DEF handlerVars, clientVars, HandlerPCs, Serving, Registering
<1>h. HostOf[s] \in Host
  OBVIOUS
<1>c. pc[s] \in {"found", "missing", "upserting"} => cur[s] \in Host
  BY DEF CurIsHost
<1>1. CASE Accept(s)
  BY <1>1 DEF Accept, TypeOK
<1>2. CASE Reject(s)
  BY <1>2 DEF Reject, Nack, TypeOK
<1>3. CASE Persist(s)
  BY <1>3, <1>h DEF Persist, TypeOK
<1>4. CASE PersistFails(s)
  BY <1>4, <1>h DEF PersistFails, Nack, TypeOK
<1>5. CASE RegisterSelf(s)
  <2>1. /\ rec' \in [Host -> Record \union {None}]
        /\ aged' \in [Host -> BOOLEAN]
    BY <1>5, <1>h, RegisterType DEF RegisterSelf
  <2> QED
    BY <1>5, <2>1 DEF RegisterSelf, TypeOK
<1>6. CASE SendAck(s)
  BY <1>6 DEF SendAck, TypeOK
<1>7. CASE AckFails(s)
  BY <1>7, WithoutType DEF AckFails, TypeOK
<1>8. CASE ReadHeartbeat(s)
  <2>1. rec' \in [Host -> Record \union {None}] /\ aged' \in [Host -> BOOLEAN]
    BY <1>8, <1>h, UpdateHeartbeatType DEF ReadHeartbeat
  <2>2. writes' \in SUBSET Write
    BY <1>8, <1>h, WritingType DEF ReadHeartbeat
  <2> QED
    BY <1>8, <2>1, <2>2 DEF ReadHeartbeat, TypeOK
<1>9. CASE \E h \in Host : LookupForwarded(s, h)
  BY <1>9 DEF LookupForwarded, TypeOK
<1>10. CASE RefreshForwarded(s)
  <2>1. cur[s] \in Host
    BY <1>10, <1>c DEF RefreshForwarded
  <2>2. rec' \in [Host -> Record \union {None}] /\ aged' \in [Host -> BOOLEAN]
    BY <1>10, <2>1, UpdateHeartbeatType DEF RefreshForwarded
  <2>3. writes' \in SUBSET Write
    BY <1>10, <2>1, WritingType DEF RefreshForwarded
  <2> QED
    BY <1>10, <2>2, <2>3 DEF RefreshForwarded, BackToReading, TypeOK
<1>11. CASE RegisterForwarded(s)
  <2>1. cur[s] \in Host
    BY <1>11, <1>c DEF RegisterForwarded
  <2>2. /\ rec' \in [Host -> Record \union {None}]
        /\ aged' \in [Host -> BOOLEAN]
    BY <1>11, <2>1, RegisterType DEF RegisterForwarded
  <2> QED
    BY <1>11, <2>2 DEF RegisterForwarded, BackToReading, TypeOK
<1>12. CASE UpsertForwarded(s)
  BY <1>12, <1>c DEF UpsertForwarded, BackToReading, TypeOK
<1>13. CASE UpsertForwardedFails(s)
  BY <1>13, <1>c, WithoutType DEF UpsertForwardedFails, BackToReading, TypeOK
<1>14. CASE Close(s)
  <2>1. writes' \in SUBSET Write
    BY <1>14, WritingType DEF Close, RoutedOver
  <2> QED
    BY <1>14, <2>1, WithoutType DEF Close, TypeOK
<1> QED
  BY <1>1, <1>2, <1>3, <1>4, <1>5, <1>6, <1>7, <1>8, <1>9, <1>10, <1>11, <1>12,
     <1>13, <1>14 DEF HandlerStep

(* What the offline checker makes of the records: no record comes or goes, *)
(* and none changes its stream.                                            *)
LEMMA CheckType ==
  ASSUME TypeOK, Check
  PROVE  /\ rec' \in [Host -> Record \union {None}]
         /\ todo' \subseteq Host
         /\ \A g \in Host : rec'[g] = None <=> rec[g] = None
         /\ \A g \in Host : rec[g] # None => rec'[g].stream = rec[g].stream
<1> DEFINE stale == {h \in Host : rec[h] # None /\ rec[h].status = "online" /\ aged[h]}
<1>1. /\ rec' = [h \in Host |->
                   IF h \in stale THEN WithStatus(rec[h], "offline") ELSE rec[h]]
      /\ todo' = IF DB = "none" THEN {} ELSE stale
  BY DEF Check
<1>2. \A h \in Host : rec[h] # None => rec[h] \in Record
  BY DEF TypeOK
<1>3. stale \subseteq Host
  OBVIOUS
<1>4. \A h \in stale : h \in Host /\ rec[h] # None
  OBVIOUS
<1> HIDE DEF stale
<1> QED
  BY <1>1, <1>2, <1>3, <1>4, RecordType DEF TypeOK

(* No step of the center's other goroutines breaks the type invariant. *)
LEMMA CenterStepTypeOK == TypeOK /\ CenterStep => TypeOK'
<1> SUFFICES ASSUME TypeOK, CenterStep PROVE TypeOK'
  OBVIOUS
<1> USE DEF handlerVars, clientVars
<1>1. ASSUME NEW h \in Host, RequestBeforeAck(h) PROVE TypeOK'
  BY <1>1 DEF RequestBeforeAck, TypeOK
<1>2. ASSUME NEW h \in Host, Age(h) PROVE TypeOK'
  BY <1>2 DEF Age, TypeOK
<1>3. ASSUME NEW h \in Host, CheckCallback(h) PROVE TypeOK'
  <2>1. row' \in [Host -> {"absent", "online", "offline"}]
    BY <1>3, WrittenType DEF CheckCallback, TypeOK
  <2> QED
    BY <1>3, <2>1 DEF CheckCallback, TypeOK
<1>4. ASSUME NEW w \in writes, RunWrite(w) PROVE TypeOK'
  <2>1. w.host \in Host
    BY DEF TypeOK, Write
  <2>2. row' \in [Host -> {"absent", "online", "offline"}]
    BY <1>4, <2>1, WrittenType DEF RunWrite
  <2> QED
    BY <1>4, <2>2 DEF RunWrite, TypeOK
<1>5. ASSUME NEW w \in writes, WriteFails(w) PROVE TypeOK'
  BY <1>5 DEF WriteFails, TypeOK
<1>6. CASE Check
  BY <1>6, CheckType DEF Check, TypeOK
<1> QED
  BY <1>1, <1>2, <1>3, <1>4, <1>5, <1>6 DEF CenterStep


-----------------------------------------------------------------------------
(* The inductive invariant.  RegisteredIsPersisted follows from the last   *)
(* two parts: a record routes over a serving handler, and a handler serves *)
(* only after the row of its host was written.                             *)
PersistedBeforeSeen ==
  \A s \in Stream :
    DB # "none" /\ pc[s] \in {"persisted"} \union Serving => row[HostOf[s]] # "absent"

IInv == TypeOK /\ CurIsHost /\ NoDanglingRoute /\ PersistedBeforeSeen

LEMMA InitIInv == Init => IInv
  BY InitTypeOK DEF Init, IInv, CurIsHost, NoDanglingRoute, PersistedBeforeSeen, Serving

(* A step that moves no handler, neither adds a record nor changes the     *)
(* stream of one, and deletes no row, keeps the invariant.                 *)
LEMMA QuietStep ==
  ASSUME IInv, TypeOK', UNCHANGED handlerVars,
         \A h \in Host : rec'[h] # None => rec[h] # None /\ rec'[h].stream = rec[h].stream,
         \A h \in Host : row[h] # "absent" => row'[h] # "absent"
  PROVE  IInv'
  BY DEF IInv, CurIsHost, NoDanglingRoute, PersistedBeforeSeen, handlerVars, TypeOK

LEMMA ClientStepIInv == IInv /\ ClientStep => IInv'
<1> SUFFICES ASSUME IInv, ClientStep PROVE IInv'
  OBVIOUS
<1>1. TypeOK'
  BY ClientStepTypeOK DEF IInv
<1>2. UNCHANGED <<handlerVars, rec, row>>
  BY DEF ClientStep, Open, Drop, Beat, Detach, BeatViaProxy, Attach
<1> QED
  BY <1>1, <1>2, QuietStep

LEMMA CenterStepIInv == IInv /\ CenterStep => IInv'
<1> SUFFICES ASSUME IInv, CenterStep PROVE IInv'
  OBVIOUS
<1>t. TypeOK /\ TypeOK'
  BY CenterStepTypeOK DEF IInv
<1>1. UNCHANGED handlerVars
  BY DEF CenterStep, RequestBeforeAck, Age, CheckCallback, RunWrite, WriteFails,
         Check
<1>2. \A h \in Host : rec'[h] # None => rec[h] # None /\ rec'[h].stream = rec[h].stream
  <2>1. CASE Check
    BY <2>1, <1>t, CheckType
  <2>2. CASE ~ Check
    <3>1. UNCHANGED rec
      BY <2>2 DEF CenterStep, RequestBeforeAck, Age, CheckCallback, RunWrite,
                  WriteFails
    <3> QED
      BY <3>1
  <2> QED
    BY <2>1, <2>2
<1>3. \A h \in Host : row[h] # "absent" => row'[h] # "absent"
  <2>1. ASSUME NEW h \in Host, CheckCallback(h)
        PROVE  \A g \in Host : row[g] # "absent" => row'[g] # "absent"
    BY <2>1, <1>t, WrittenType DEF CheckCallback
  <2>2. ASSUME NEW w \in writes, RunWrite(w)
        PROVE  \A g \in Host : row[g] # "absent" => row'[g] # "absent"
    <3>1. w.host \in Host
      BY <1>t DEF TypeOK, Write
    <3> QED
      BY <2>2, <3>1, <1>t, WrittenType DEF RunWrite
  <2>3. CASE \/ \E h \in Host : RequestBeforeAck(h) \/ Age(h)
             \/ \E w \in writes : WriteFails(w)
             \/ Check
    BY <2>3 DEF RequestBeforeAck, Age, WriteFails, Check
  <2> QED
    BY <2>1, <2>2, <2>3 DEF CenterStep
<1> QED
  BY <1>t, <1>1, <1>2, <1>3, QuietStep

(* A step of a handler keeps the invariant: whatever ends it removes what  *)
(* routes over it, and it registers its host only after the row.           *)
LEMMA HandlerStepIInv ==
  ASSUME IInv, NEW s \in Stream, HandlerStep(s)
  PROVE  IInv'
<1> USE DEF handlerVars, clientVars
<1>t. TypeOK /\ TypeOK' /\ CurIsHost /\ NoDanglingRoute /\ PersistedBeforeSeen
  BY HandlerStepTypeOK DEF IInv
<1>1. CASE Accept(s)
  <2>1. pc[s] \notin Serving /\ pc' = [pc EXCEPT ![s] = IF DB = "none" THEN "persisted" ELSE "persisting"]
    BY <1>1 DEF Accept, Serving
  <2>2. UNCHANGED <<cur, rec, row>>
    BY <1>1 DEF Accept
  <2> QED
    BY <1>t, <2>1, <2>2
      DEF IInv, TypeOK, CurIsHost, NoDanglingRoute, PersistedBeforeSeen, Serving
<1>2. CASE Reject(s) \/ PersistFails(s)
  <2>1. pc[s] \notin Serving /\ pc' = [pc EXCEPT ![s] = "returned"] /\ UNCHANGED <<cur, rec>>
    BY <1>2 DEF Reject, PersistFails, Nack, Serving
  <2>2. \A h \in Host : row[h] # "absent" => row'[h] # "absent"
    BY <1>2, <1>t DEF Reject, PersistFails, TypeOK
  <2> QED
    BY <1>t, <2>1, <2>2
      DEF IInv, TypeOK, CurIsHost, NoDanglingRoute, PersistedBeforeSeen, Serving
<1>3. CASE Persist(s)
  <2>1. pc[s] = "persisting" /\ pc' = [pc EXCEPT ![s] = "persisted"]
    BY <1>3 DEF Persist
  <2>2. row' = [row EXCEPT ![HostOf[s]] = "online"] /\ UNCHANGED <<cur, rec>>
    BY <1>3 DEF Persist
  <2> QED
    BY <1>t, <2>1, <2>2
      DEF IInv, TypeOK, CurIsHost, NoDanglingRoute, PersistedBeforeSeen, Serving
<1>4. CASE RegisterSelf(s)
  <2>1. pc[s] = "persisted" /\ pc' = [pc EXCEPT ![s] = "registered"] /\ UNCHANGED <<cur, row>>
    BY <1>4 DEF RegisterSelf
  <2>2. rec' = [rec EXCEPT ![HostOf[s]] = [stream |-> s, status |-> "online"]]
    BY <1>4 DEF RegisterSelf, Register
  <2> QED
    BY <1>t, <2>1, <2>2
      DEF IInv, TypeOK, CurIsHost, NoDanglingRoute, PersistedBeforeSeen, Serving
<1>5. CASE SendAck(s) \/ \E h \in Host : LookupForwarded(s, h)
  <2>1. /\ pc[s] \in {"registered", "reading"}
        /\ \E p \in {"reading", "missing", "found"} : pc' = [pc EXCEPT ![s] = p]
        /\ (pc'[s] = "reading" /\ cur' = cur) \/ (\E h \in Host : cur' = [cur EXCEPT ![s] = h])
        /\ UNCHANGED <<rec, row>>
    BY <1>5, <1>t DEF SendAck, LookupForwarded, TypeOK
  <2> QED
    BY <1>t, <2>1
      DEF IInv, TypeOK, CurIsHost, NoDanglingRoute, PersistedBeforeSeen, Serving
<1>6. CASE AckFails(s) \/ Close(s)
  <2>1. /\ pc' = [pc EXCEPT ![s] = "returned"]
        /\ rec' = Without(RoutedOver(s))
        /\ UNCHANGED <<cur, row>>
    BY <1>6 DEF AckFails, Close
  <2>2. \A h \in Host : rec'[h] # None => rec'[h] = rec[h] /\ rec[h].stream # s
    BY <2>1 DEF Without, RoutedOver
  <2> QED
    BY <1>t, <2>1, <2>2
      DEF IInv, TypeOK, CurIsHost, NoDanglingRoute, PersistedBeforeSeen, Serving
<1>7. CASE ReadHeartbeat(s)
  <2>1. UNCHANGED <<handlerVars, row>>
    BY <1>7 DEF ReadHeartbeat
  <2>2. \A h \in Host : rec'[h] # None => rec[h] # None /\ rec'[h].stream = rec[h].stream
    BY <1>7, <1>t, UpdateHeartbeatType DEF ReadHeartbeat
  <2> QED
    BY <1>t, <2>1, <2>2, QuietStep
<1>8. CASE RefreshForwarded(s)
  <2>1. /\ pc[s] = "found" /\ pc' = [pc EXCEPT ![s] = "reading"]
        /\ cur' = [cur EXCEPT ![s] = None] /\ row' = row
    BY <1>8 DEF RefreshForwarded, BackToReading
  <2>2. cur[s] \in Host
    BY <1>t, <2>1 DEF CurIsHost
  <2>3. \A h \in Host : rec'[h] # None => rec[h] # None /\ rec'[h].stream = rec[h].stream
    BY <1>8, <1>t, <2>2, UpdateHeartbeatType DEF RefreshForwarded
  <2> QED
    BY <1>t, <2>1, <2>3
      DEF IInv, TypeOK, CurIsHost, NoDanglingRoute, PersistedBeforeSeen, Serving
<1>9. CASE RegisterForwarded(s)
  <2>1. /\ pc[s] = "missing" /\ row' = row
        /\ rec' = [rec EXCEPT ![cur[s]] = [stream |-> s, status |-> "online"]]
    BY <1>9 DEF RegisterForwarded, Register
  <2>2. \/ pc' = [pc EXCEPT ![s] = "reading"] /\ cur' = [cur EXCEPT ![s] = None]
        \/ pc' = [pc EXCEPT ![s] = "upserting"] /\ cur' = cur
    BY <1>9 DEF RegisterForwarded, BackToReading
  <2>3. CurIsHost'
    BY <1>t, <2>1, <2>2 DEF CurIsHost, TypeOK
  <2>4. pc[s] \in Serving /\ pc'[s] \in Serving
        /\ \A t \in Stream : t # s => pc'[t] = pc[t]
    BY <1>t, <2>1, <2>2 DEF Serving, TypeOK
  <2>5. \A h \in Host : rec'[h] # None => rec'[h] = rec[h] \/ rec'[h].stream = s
    BY <1>t, <2>1 DEF TypeOK
  <2>6. NoDanglingRoute'
    BY <1>t, <2>4, <2>5 DEF NoDanglingRoute, TypeOK, Record
  <2>7. PersistedBeforeSeen'
    BY <1>t, <2>1, <2>4 DEF PersistedBeforeSeen
  <2> QED
    BY <1>t, <2>3, <2>6, <2>7 DEF IInv
<1>10. CASE UpsertForwarded(s) \/ UpsertForwardedFails(s)
  <2>1. /\ pc[s] = "upserting" /\ pc' = [pc EXCEPT ![s] = "reading"]
        /\ cur' = [cur EXCEPT ![s] = None]
        /\ rec' = rec \/ rec' = Without({cur[s]})
        /\ row' \in {row, [row EXCEPT ![cur[s]] = "online"]}
    <3>1. CASE UpsertForwarded(s)
      BY <3>1 DEF UpsertForwarded, BackToReading
    <3>2. CASE UpsertForwardedFails(s)
      BY <3>2 DEF UpsertForwardedFails, BackToReading
    <3> QED
      BY <1>10, <3>1, <3>2
  <2>2. \A h \in Host : rec'[h] # None => rec'[h] = rec[h]
    BY <2>1 DEF Without
  <2>3. \A h \in Host : row[h] # "absent" => row'[h] # "absent"
    BY <1>t, <2>1 DEF TypeOK
  <2>4. CurIsHost'
    BY <1>t, <2>1 DEF CurIsHost, TypeOK
  <2>5. NoDanglingRoute'
    BY <1>t, <2>1, <2>2 DEF NoDanglingRoute, TypeOK, Record, Serving
  <2>6. PersistedBeforeSeen'
    BY <1>t, <2>1, <2>3 DEF PersistedBeforeSeen, TypeOK, Serving
  <2> QED
    BY <1>t, <2>4, <2>5, <2>6 DEF IInv
<1> QED
  BY <1>1, <1>2, <1>3, <1>4, <1>5, <1>6, <1>7, <1>8, <1>9, <1>10 DEF HandlerStep

(* The invariant holds in every reachable state. *)
THEOREM Invariance == Spec => []IInv
<1>1. IInv /\ UNCHANGED vars => IInv'
  BY DEF vars, clientVars, handlerVars, IInv, TypeOK, CurIsHost, NoDanglingRoute,
         PersistedBeforeSeen
<1>2. IInv /\ [Next]_vars => IInv'
  BY <1>1, ClientStepIInv, HandlerStepIInv, CenterStepIInv DEF Next
<1> QED
  BY InitIInv, <1>2, PTL DEF Spec

(* Every reachable state has its type. *)
THEOREM TypeCorrect == Spec => []TypeOK
<1>1. IInv => TypeOK
  BY DEF IInv
<1> QED
  BY <1>1, Invariance, PTL

(* No record ever routes over the stream of a handler that has returned.   *)
THEOREM RoutesAreServed == Spec => []NoDanglingRoute
<1>1. IInv => NoDanglingRoute
  BY DEF IInv
<1> QED
  BY <1>1, Invariance, PTL

(* A host that registered itself has a row before it can be looked up, for *)
(* a database that may fail at any statement.                              *)
THEOREM RegisteredIsInDatabase == Spec => []RegisteredIsPersisted
<1>1. IInv => RegisteredIsPersisted
  BY DEF IInv, TypeOK, Record, NoDanglingRoute, PersistedBeforeSeen, RegisteredIsPersisted
<1> QED
  BY <1>1, Invariance, PTL
-----------------------------------------------------------------------------
(* Who removes records. *)

(* The handler of s removes the record of h only when it ends and h routes *)
(* over s, or when it could not persist h's forwarded registration.        *)
LEMMA HandlerRemoves ==
  ASSUME IInv, NEW s \in Stream, HandlerStep(s),
         NEW h \in Host, rec[h] # None, rec'[h] = None
  PROVE  \/ rec[h].stream = s /\ pc[s] # "returned" /\ pc'[s] = "returned"
         \/ pc[s] = "upserting" /\ cur[s] = h /\ pc'[s] = "reading"
<1>t. TypeOK /\ CurIsHost
  BY DEF IInv
<1>1. CASE AckFails(s) \/ Close(s)
  BY <1>1, <1>t DEF AckFails, Close, Without, RoutedOver, TypeOK
<1>2. CASE UpsertForwardedFails(s)
  BY <1>2, <1>t DEF UpsertForwardedFails, BackToReading, Without, TypeOK
<1>3. CASE RegisterSelf(s)
  BY <1>3, <1>t DEF RegisterSelf, Register, TypeOK
<1>4. CASE RegisterForwarded(s)
  BY <1>4, <1>t DEF RegisterForwarded, Register, TypeOK
<1>5. CASE ReadHeartbeat(s)
  BY <1>5, <1>t, UpdateHeartbeatType DEF ReadHeartbeat
<1>6. CASE RefreshForwarded(s)
  <2>1. cur[s] \in Host
    BY <1>6, <1>t DEF RefreshForwarded, CurIsHost
  <2> QED
    BY <1>6, <1>t, <2>1, UpdateHeartbeatType DEF RefreshForwarded
<1>7. CASE UNCHANGED rec
  BY <1>7
<1>8. \/ UNCHANGED rec
      \/ AckFails(s) \/ Close(s) \/ UpsertForwardedFails(s)
      \/ RegisterSelf(s) \/ RegisterForwarded(s) \/ ReadHeartbeat(s) \/ RefreshForwarded(s)
  BY DEF HandlerStep, Accept, Reject, Persist, PersistFails, SendAck, LookupForwarded,
         UpsertForwarded
<1> QED
  BY <1>1, <1>2, <1>3, <1>4, <1>5, <1>6, <1>7, <1>8

(* Clients and the offline checker remove nothing. *)
LEMMA OthersRemoveNothing ==
  ASSUME IInv, ClientStep \/ CenterStep \/ UNCHANGED vars, NEW h \in Host, rec[h] # None
  PROVE  rec'[h] # None
<1>1. CASE ClientStep
  BY <1>1 DEF ClientStep, Open, Drop, Beat, Detach, BeatViaProxy, Attach
<1>2. CASE Check
  BY <1>2, CheckType DEF IInv
<1>3. CASE CenterStep /\ ~ Check
  BY <1>3 DEF CenterStep, RequestBeforeAck, Age, CheckCallback, RunWrite, WriteFails
<1>4. CASE UNCHANGED vars
  BY <1>4 DEF vars
<1> QED
  BY <1>1, <1>2, <1>3, <1>4

(* The record of a host is removed by the end of the handler it routes     *)
(* over or by a failed UpsertAgent of its forwarded registration, never by *)
(* the late end of an older connection.                                    *)
THEOREM RemovalIsOwn == Spec => RemovedByOwner
<1> DEFINE Removed == \A h \in Host : rec[h] # None /\ rec'[h] = None =>
             \/ pc[rec[h].stream] # "returned" /\ pc'[rec[h].stream] = "returned"
             \/ \E s \in Stream : pc[s] = "upserting" /\ cur[s] = h /\ pc'[s] = "reading"
<1>1. IInv /\ [Next]_vars => Removed
  <2> SUFFICES ASSUME IInv, [Next]_vars, NEW h \in Host, rec[h] # None, rec'[h] = None
               PROVE  \/ pc[rec[h].stream] # "returned" /\ pc'[rec[h].stream] = "returned"
                      \/ \E s \in Stream :
                           pc[s] = "upserting" /\ cur[s] = h /\ pc'[s] = "reading"
    OBVIOUS
  <2>1. PICK s \in Stream : HandlerStep(s)
    BY OthersRemoveNothing DEF Next
  <2> QED
    BY <2>1, HandlerRemoves
<1>2. IInv /\ [Next]_vars => [Removed]_vars
  BY <1>1
<1> QED
  BY <1>2, Invariance, PTL DEF Spec, RemovedByOwner
=============================================================================
