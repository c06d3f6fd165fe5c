---------------------------- MODULE CenterTunnel ----------------------------
(***************************************************************************)
(* Registration at sysplane-center: the handler of one gRPC stream per     *)
(* agent or proxy (tunnel_svc.go), the in-memory registry, the offline     *)
(* checker and the agent_instances rows that asynchronous goroutines keep  *)
(* up to date.                                                             *)
(*                                                                         *)
(* The clients are the environment: a host dials one stream at a time, and *)
(* a host attached to a proxy is announced, and refreshed, by              *)
(* RegisterRequests on the proxy's stream.  An agent's Heartbeat and a     *)
(* forwarded RegisterRequest are both a hostname in the stream's inbox.    *)
(***************************************************************************)

CONSTANTS
  Host,        \* hostnames
  Proxy,       \* the hosts that are proxies
  Stream,      \* TunnelService.Connect calls, each used once
  None,        \* no record, no host
  HostOf,      \* HostOf[s]: the hostname of the first RegisterRequest on s
  DB           \* "none" (not configured), "sound", or "failing" now and then

ASSUME TunnelAssumption ==
  /\ Proxy \subseteq Host
  /\ HostOf \in [Stream -> Host]
  /\ None \notin Host
  /\ None \notin [stream : Stream, status : {"online", "offline"}]
  /\ DB \in {"none", "sound", "failing"}

VARIABLES
  conn,      \* conn[s]: "none", "open" or "gone", as the client sees it
  via,       \* via[h]: the proxy h is attached to, or None
  inbox,     \* inbox[s]: heartbeats and registrations the center has not read
  firstOut,  \* firstOut[s]: the first message the center sent on s
  pc,        \* pc[s]: where the handler of s is
  cur,       \* cur[s]: the hostname of the forwarded registration at hand
  rec,       \* rec[h]: Registry.records
  aged,      \* aged[h]: LastHeartbeat is older than the offline timeout
  row,       \* row[h]: status of h's row in agent_instances
  writes,    \* goroutines about to write to the database
  todo       \* the hosts whose offline callback the checker has to call

clientVars  == <<conn, via>>
handlerVars == <<pc, cur>>
vars == <<clientVars, inbox, firstOut, handlerVars, rec, aged, row, writes, todo>>

-----------------------------------------------------------------------------
(* Steps of a handler: it waits for the first message, then registers the  *)
(* host, then reads; found and missing are the outcomes of the Lookup of a *)
(* forwarded registration.                                                 *)
Registering == {"persisting", "persisted"}
Serving     == {"registered", "reading", "found", "missing", "upserting"}
HandlerPCs  == {"unused", "returned"} \union Registering \union Serving

Record == [stream : Stream, status : {"online", "offline"}]
Write  == [op : {"heartbeat", "offline"}, host : Host, by : Stream]

TypeOK ==
  /\ conn \in [Stream -> {"none", "open", "gone"}]
  /\ via \in [Host -> Proxy \union {None}]
  /\ inbox \in [Stream -> SUBSET Host]
  /\ firstOut \in [Stream -> {"none", "ack", "nack", "request"}]
  /\ pc \in [Stream -> HandlerPCs]
  /\ cur \in [Stream -> Host \union {None}]
  /\ rec \in [Host -> Record \union {None}]
  /\ aged \in [Host -> BOOLEAN]
  /\ row \in [Host -> {"absent", "online", "offline"}]
  /\ writes \in SUBSET Write
  /\ todo \subseteq Host

Init ==
  /\ conn = [s \in Stream |-> "none"]
  /\ via = [h \in Host |-> None]
  /\ inbox = [s \in Stream |-> {}]
  /\ firstOut = [s \in Stream |-> "none"]
  /\ pc = [s \in Stream |-> "unused"]
  /\ cur = [s \in Stream |-> None]
  /\ rec = [h \in Host |-> None]
  /\ aged = [h \in Host |-> FALSE]
  /\ row = [h \in Host |-> "absent"]
  /\ writes = {}
  /\ todo = {}

-----------------------------------------------------------------------------
(* The registry (registry.go).                                             *)

(* Register replaces the record, whichever stream it routes over. *)
Register(h, s) ==
  /\ rec' = [rec EXCEPT ![h] = [stream |-> s, status |-> "online"]]
  /\ aged' = [aged EXCEPT ![h] = FALSE]

(* Mutant: removes the handler's own host, whoever's record it is. *)
UnregisterByHost(s) == {HostOf[s]}

(* The hosts whose records route to the stream: what UnregisterByStream    *)
(* removes.                                                                *)
RoutedOver(s) == {h \in Host : rec[h] # None /\ rec[h].stream = s}

Without(hosts) == [h \in Host |-> IF h \in hosts THEN None ELSE rec[h]]

WithStatus(r, status) == [stream |-> r.stream, status |-> status]

(* Mutant: a heartbeat does not bring an offline record back. *)
TouchOnly(h) ==
  /\ rec' = rec
  /\ aged' = IF rec[h] = None THEN aged ELSE [aged EXCEPT ![h] = FALSE]

(* UpdateHeartbeat refreshes the record of that hostname, if there is one, *)
(* whatever stream it routes over.                                         *)
UpdateHeartbeat(h) ==
  IF rec[h] = None THEN UNCHANGED <<rec, aged>>
  ELSE /\ rec' = [rec EXCEPT ![h] = WithStatus(rec[h], "online")]
       /\ aged' = [aged EXCEPT ![h] = FALSE]

-----------------------------------------------------------------------------
(* The clients.                                                            *)

(* Goroutines that will write the rows of the hosts. *)
Writing(op, hosts, s) ==
  IF DB = "none" THEN writes
  ELSE writes \union {[op |-> op, host |-> h, by |-> s] : h \in hosts}

(* The client has its ack and may use the stream. *)
Connected(s) == conn[s] = "open" /\ firstOut[s] = "ack"

(* A dialer opens a stream and sends its RegisterRequest; one at a time. *)
Open(s) ==
  /\ conn[s] = "none"
  /\ via[HostOf[s]] = None
  /\ \A t \in Stream : HostOf[t] = HostOf[s] => conn[t] # "open"
  /\ conn' = [conn EXCEPT ![s] = "open"]
  /\ UNCHANGED <<via, inbox, firstOut, handlerVars, rec, aged, row, writes, todo>>

(* The connection breaks, or the client gave up: a dialer whose first      *)
(* message is not an ack drops the stream too.                             *)
Drop(s) ==
  /\ conn[s] = "open"
  /\ conn' = [conn EXCEPT ![s] = "gone"]
  /\ UNCHANGED <<via, inbox, firstOut, handlerVars, rec, aged, row, writes, todo>>

(* What the proxies tell upstream of h: nothing without a connected stream. *)
Announced(p, h) ==
  [s \in Stream |-> IF HostOf[s] = p /\ Connected(s) THEN inbox[s] \union {h} ELSE inbox[s]]

(* An agent attaches to a proxy, which forwards a RegisterRequest. *)
Attach(h, p) ==
  /\ h \notin Proxy
  /\ via[h] = None
  /\ \A s \in Stream : HostOf[s] = h => conn[s] # "open"
  /\ via' = [via EXCEPT ![h] = p]
  /\ inbox' = Announced(p, h)
  /\ UNCHANGED <<conn, firstOut, handlerVars, rec, aged, row, writes, todo>>

(* The agent leaves its proxy, which tells the center nothing. *)
Detach(h) ==
  /\ via[h] # None
  /\ via' = [via EXCEPT ![h] = None]
  /\ UNCHANGED <<conn, inbox, firstOut, handlerVars, rec, aged, row, writes, todo>>

(* A heartbeat of a host behind a proxy is forwarded as a registration. *)
BeatViaProxy(h) ==
  /\ via[h] # None
  /\ inbox' = Announced(via[h], h)
  /\ UNCHANGED <<clientVars, firstOut, handlerVars, rec, aged, row, writes, todo>>

(* A Heartbeat on the host's own stream. *)
Beat(s) ==
  /\ Connected(s)
  /\ inbox' = [inbox EXCEPT ![s] = @ \union {HostOf[s]}]
  /\ UNCHANGED <<clientVars, firstOut, handlerVars, rec, aged, row, writes, todo>>

-----------------------------------------------------------------------------
(* The handler of a stream: TunnelServiceServer.Connect.                   *)

(* The first message has the right token. *)
Accept(s) ==
  /\ pc[s] = "unused"
  /\ conn[s] # "none"
  /\ pc' = [pc EXCEPT ![s] = IF DB = "none" THEN "persisted" ELSE "persisting"]
  /\ UNCHANGED <<clientVars, inbox, firstOut, cur, rec, aged, row, writes, todo>>

(* The handler answers with a failure and returns. *)
Nack(s) ==
  /\ firstOut' = [firstOut EXCEPT ![s] = "nack"]
  /\ pc' = [pc EXCEPT ![s] = "returned"]

(* AuthenticateRegistration fails. *)
Reject(s) ==
  /\ pc[s] = "unused"
  /\ conn[s] # "none"
  /\ Nack(s)
  /\ UNCHANGED <<clientVars, inbox, cur, rec, aged, row, writes, todo>>

(* UpsertAgent of the host itself, before anybody can look it up. *)
Persist(s) ==
  /\ pc[s] = "persisting"
  /\ row' = [row EXCEPT ![HostOf[s]] = "online"]
  /\ pc' = [pc EXCEPT ![s] = "persisted"]
  /\ UNCHANGED <<clientVars, inbox, firstOut, cur, rec, aged, writes, todo>>

(* UpsertAgent returns an error; on a timeout the row may be written yet. *)
PersistFails(s) ==
  /\ DB = "failing"
  /\ pc[s] = "persisting"
  /\ row' \in {row, [row EXCEPT ![HostOf[s]] = "online"]}
  /\ Nack(s)
  /\ UNCHANGED <<clientVars, inbox, cur, rec, aged, writes, todo>>

(* Mutant: the record is visible before it is persisted. *)
RegisterFirst(s) ==
  /\ pc[s] = "persisting"
  /\ Register(HostOf[s], s)
  /\ pc' = [pc EXCEPT ![s] = "registered"]
  /\ UNCHANGED <<clientVars, inbox, firstOut, cur, row, writes, todo>>

RegisterSelf(s) ==
  /\ pc[s] = "persisted"
  /\ Register(HostOf[s], s)
  /\ pc' = [pc EXCEPT ![s] = "registered"]
  /\ UNCHANGED <<clientVars, inbox, firstOut, cur, row, writes, todo>>

(* The ack, unless a ToolRequest went first. *)
SendAck(s) ==
  /\ pc[s] = "registered"
  /\ firstOut' = [firstOut EXCEPT ![s] = IF @ = "none" THEN "ack" ELSE @]
  /\ pc' = [pc EXCEPT ![s] = "reading"]
  /\ UNCHANGED <<clientVars, inbox, cur, rec, aged, row, writes, todo>>

(* Mutant: the early return forgets the record. *)
AckFailsKeeping(s) ==
  /\ pc[s] = "registered"
  /\ conn[s] = "gone"
  /\ pc' = [pc EXCEPT ![s] = "returned"]
  /\ UNCHANGED <<clientVars, inbox, firstOut, cur, rec, aged, row, writes, todo>>

(* The ack cannot be sent: the record goes, the row stays. *)
AckFails(s) ==
  /\ pc[s] = "registered"
  /\ conn[s] = "gone"
  /\ rec' = Without(RoutedOver(s))
  /\ pc' = [pc EXCEPT ![s] = "returned"]
  /\ UNCHANGED <<clientVars, inbox, firstOut, cur, aged, row, writes, todo>>

(* A Heartbeat: the record is refreshed and a goroutine writes the row. *)
ReadHeartbeat(s) ==
  /\ pc[s] = "reading"
  /\ HostOf[s] \in inbox[s]
  /\ inbox' = [inbox EXCEPT ![s] = @ \ {HostOf[s]}]
  /\ UpdateHeartbeat(HostOf[s])
  /\ writes' = Writing("heartbeat", {HostOf[s]}, s)
  /\ UNCHANGED <<clientVars, firstOut, handlerVars, row, todo>>

(* A forwarded RegisterRequest: Lookup decides what is done with it. *)
LookupForwarded(s, h) ==
  /\ pc[s] = "reading"
  /\ h \in inbox[s] \ {HostOf[s]}
  /\ inbox' = [inbox EXCEPT ![s] = @ \ {h}]
  /\ pc' = [pc EXCEPT ![s] = IF rec[h] = None THEN "missing" ELSE "found"]
  /\ cur' = [cur EXCEPT ![s] = h]
  /\ UNCHANGED <<clientVars, firstOut, rec, aged, row, writes, todo>>

BackToReading(s) ==
  /\ pc' = [pc EXCEPT ![s] = "reading"]
  /\ cur' = [cur EXCEPT ![s] = None]

(* The host was known: its heartbeat is refreshed, its route is not. *)
RefreshForwarded(s) ==
  /\ pc[s] = "found"
  /\ UpdateHeartbeat(cur[s])
  /\ writes' = Writing("heartbeat", {cur[s]}, s)
  /\ BackToReading(s)
  /\ UNCHANGED <<clientVars, inbox, firstOut, row, todo>>

(* The host was not known when it was looked up: it is registered now. *)
RegisterForwarded(s) ==
  /\ pc[s] = "missing"
  /\ Register(cur[s], s)
  /\ IF DB = "none" THEN BackToReading(s)
     ELSE pc' = [pc EXCEPT ![s] = "upserting"] /\ UNCHANGED cur
  /\ UNCHANGED <<clientVars, inbox, firstOut, row, writes, todo>>

UpsertForwarded(s) ==
  /\ pc[s] = "upserting"
  /\ row' = [row EXCEPT ![cur[s]] = "online"]
  /\ BackToReading(s)
  /\ UNCHANGED <<clientVars, inbox, firstOut, rec, aged, writes, todo>>

(* UpsertAgent fails: the record of that hostname is removed, whoever      *)
(* registered it.                                                          *)
UpsertForwardedFails(s) ==
  /\ DB = "failing"
  /\ pc[s] = "upserting"
  /\ row' \in {row, [row EXCEPT ![cur[s]] = "online"]}
  /\ rec' = Without({cur[s]})
  /\ BackToReading(s)
  /\ UNCHANGED <<clientVars, inbox, firstOut, aged, writes, todo>>

(* Recv fails: the deferred UnregisterByStream, and a goroutine for each   *)
(* host it removed.                                                        *)
Close(s) ==
  /\ pc[s] = "reading"
  /\ conn[s] = "gone"
  /\ pc' = [pc EXCEPT ![s] = "returned"]
  /\ inbox' = [inbox EXCEPT ![s] = {}]
  /\ rec' = Without(RoutedOver(s))
  /\ writes' = Writing("offline", RoutedOver(s), s)
  /\ UNCHANGED <<clientVars, firstOut, cur, aged, row, todo>>

(* Router.Send to h while h's ack is still to be sent. *)
RequestBeforeAck(h) ==
  /\ rec[h] # None
  /\ rec[h].status = "online"
  /\ pc[rec[h].stream] = "registered"
  /\ firstOut[rec[h].stream] = "none"
  /\ firstOut' = [firstOut EXCEPT ![rec[h].stream] = "request"]
  /\ UNCHANGED <<clientVars, inbox, handlerVars, rec, aged, row, writes, todo>>

-----------------------------------------------------------------------------
(* The database and the offline checker.                                   *)

(* An UPDATE by hostname: nothing happens without a row. *)
Written(h, status) == IF row[h] = "absent" THEN row ELSE [row EXCEPT ![h] = status]

(* One of the goroutines runs, in any order. *)
RunWrite(w) ==
  /\ w \in writes
  /\ writes' = writes \ {w}
  /\ row' = Written(w.host, IF w.op = "heartbeat" THEN "online" ELSE "offline")
  /\ UNCHANGED <<clientVars, inbox, firstOut, handlerVars, rec, aged, todo>>

(* The statement fails; the error is only logged. *)
WriteFails(w) ==
  /\ DB = "failing"
  /\ w \in writes
  /\ writes' = writes \ {w}
  /\ UNCHANGED <<clientVars, inbox, firstOut, handlerVars, rec, aged, row, todo>>

(* Ninety seconds pass without a heartbeat. *)
Age(h) ==
  /\ rec[h] # None
  /\ ~ aged[h]
  /\ aged' = [aged EXCEPT ![h] = TRUE]
  /\ UNCHANGED <<clientVars, inbox, firstOut, handlerVars, rec, row, writes, todo>>

(* checkOffline under the lock: aged records go offline. *)
Check ==
  /\ todo = {}
  /\ LET stale == {h \in Host : rec[h] # None /\ rec[h].status = "online" /\ aged[h]}
     IN  /\ rec' = [h \in Host |->
                      IF h \in stale THEN WithStatus(rec[h], "offline") ELSE rec[h]]
         /\ todo' = IF DB = "none" THEN {} ELSE stale
  /\ UNCHANGED <<clientVars, inbox, firstOut, handlerVars, aged, row, writes>>

(* Outside the lock the callbacks, which write the rows, or fail to. *)
CheckCallback(h) ==
  /\ h \in todo
  /\ todo' = todo \ {h}
  /\ \/ row' = Written(h, "offline")
     \/ DB = "failing" /\ row' = row
  /\ UNCHANGED <<clientVars, inbox, firstOut, handlerVars, rec, aged, writes>>

-----------------------------------------------------------------------------
ClientStep ==
  \/ \E s \in Stream : Open(s) \/ Drop(s) \/ Beat(s)
  \/ \E h \in Host : Detach(h) \/ BeatViaProxy(h) \/ \E p \in Proxy : Attach(h, p)

(* What the handler of s does by itself once its client spoke or left. *)
HandlerStep(s) ==
  \/ Accept(s) \/ Reject(s) \/ Persist(s) \/ PersistFails(s)
  \/ RegisterSelf(s) \/ SendAck(s) \/ AckFails(s)
  \/ ReadHeartbeat(s) \/ \E h \in Host : LookupForwarded(s, h)
  \/ RefreshForwarded(s) \/ RegisterForwarded(s)
  \/ UpsertForwarded(s) \/ UpsertForwardedFails(s)
  \/ Close(s)

CenterStep ==
  \/ \E h \in Host : RequestBeforeAck(h) \/ Age(h) \/ CheckCallback(h)
  \/ \E w \in writes : RunWrite(w) \/ WriteFails(w)
  \/ Check

Next == ClientStep \/ (\E s \in Stream : HandlerStep(s)) \/ CenterStep

Spec == Init /\ [][Next]_vars

(* Handlers run, a stream is read in order, so that no message in it waits *)
(* forever, and an agent attached to a proxy goes on sending heartbeats.   *)
Fairness ==
  /\ \A s \in Stream :
       /\ WF_vars(HandlerStep(s))
       /\ \A h \in Host \ Proxy : SF_vars(LookupForwarded(s, h))
  /\ \A h \in Host \ Proxy : WF_vars(BeatViaProxy(h))

FairSpec == Spec /\ Fairness

-----------------------------------------------------------------------------
(* Correctness.                                                            *)

(* No record routes tool requests to a stream whose handler has returned,  *)
(* on whichever of its paths: the deferred UnregisterByStream and the one  *)
(* after a failed ack remove every record made over the stream.            *)
NoDanglingRoute == \A h \in Host : rec[h] # None => pc[rec[h].stream] \in Serving

(* A host that registered itself can be found in the database before       *)
(* anybody can look it up here, so another center can forward to it.       *)
RegisteredIsPersisted ==
  \A h \in Host :
    rec[h] # None /\ HostOf[rec[h].stream] = h /\ DB # "none" => row[h] # "absent"

(* A record is only removed when the handler of the very stream it routes  *)
(* over returns, or when persisting a forwarded registration of the host   *)
(* failed: the late end of an old connection spares the new registration.  *)
RemovedByOwner ==
  [][\A h \in Host : rec[h] # None /\ rec'[h] = None =>
       \/ pc[rec[h].stream] # "returned" /\ pc'[rec[h].stream] = "returned"
       \/ \E s \in Stream : pc[s] = "upserting" /\ cur[s] = h /\ pc'[s] = "reading"]_vars

(* Once a client is gone, its handler returns, on whichever path, and has   *)
(* taken every record over the stream with it; NoDanglingRoute says that    *)
(* none comes back.                                                         *)
GoneIsUnregistered ==
  \A s \in Stream :
    conn[s] = "gone" ~>
      (pc[s] = "returned" /\ \A h \in Host : rec[h] # None => rec[h].stream # s)

(* A host attached to a connected proxy is online over that proxy's        *)
(* stream, after proxy reconnections, lost announcements and silences too, *)
(* unless another host's stream, its own or another proxy's, is still its  *)
(* route: a forwarded registration does not take that over.                *)
ForwardedRouteFollows ==
  \A s \in Stream, h \in Host \ Proxy :
    (Connected(s) /\ via[h] = HostOf[s]) ~>
      \/ rec[h] = [stream |-> s, status |-> "online"]
      \/ rec[h] # None /\ HostOf[rec[h].stream] # HostOf[s]
      \/ ~ Connected(s)
      \/ via[h] # HostOf[s]

(* An agent whose registration was acknowledged and that is still          *)
(* connected is in the registry.                                           *)
ConnectedIsRegistered == \A s \in Stream : Connected(s) => rec[HostOf[s]] # None

(* No handler, goroutine or callback is about to write a row. *)
AtRest ==
  /\ writes = {} /\ todo = {}
  /\ \A s \in Stream : pc[s] \in {"unused", "reading", "returned"}
  /\ \A s \in Stream : inbox[s] = {} /\ (conn[s] = "gone" => pc[s] = "returned")

(* At rest, a host that is not registered is not online in the database.   *)
RowIsOfflineWhenGone == AtRest => \A h \in Host : rec[h] = None => row[h] # "online"
=============================================================================
