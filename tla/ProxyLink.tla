----------------------------- MODULE ProxyLink -----------------------------
(***************************************************************************)
(* A sysplane-proxy: the dialer that keeps a stream to the center          *)
(* (pkg/stream/dialer.go), the service that agents and nested proxies      *)
(* connect to (tunnel/downstream.go), the proxy's registry, and the        *)
(* pendingRequests set that routes cancellations.                          *)
(*                                                                         *)
(* Up streams are the dialer's connections and Down streams the Connect    *)
(* calls of the clients below, each used once.  The center and the agents  *)
(* are the environment: the center asks each request once, on a stream     *)
(* over which the target was registered, and may cancel it on that stream. *)
(***************************************************************************)
EXTENDS Naturals, Sequences

CONSTANTS
  Up,         \* the connections of the proxy's dialer
  Down,       \* the streams clients open to the proxy
  Client,     \* hostnames of the clients
  Request,    \* request ids
  None,       \* no stream, no record, nothing at hand
  ClientOf,   \* ClientOf[d]: the hostname registered on d
  Target,     \* Target[r]: the host the center asks
  Nested      \* Nested[c]: the hosts that c, being a proxy, registers

ASSUME ProxyAssumption ==
  /\ ClientOf \in [Down -> Client]
  /\ Target \in [Request -> Client]
  /\ Nested \in [Client -> SUBSET Client]
  /\ None \notin Up \union Down
  /\ None \notin [down : Down, online : BOOLEAN]
  /\ None \notin [req : Request, down : Down]

VARIABLES
  dial,       \* where Dialer.Run is
  current,    \* the connection of the running runOnce, or None
  link,       \* d.stream: what Dialer.Send uses, or None
  upState,    \* upState[u], as center and dialer know it
  toProxy,    \* toProxy[u]: what the center sent and the dialer did not read
  sentUp,     \* sentUp[u]: what the proxy put on u while it was open
  reg,        \* Registry.records: the stream and status of each client
  pending,    \* DownstreamService.pendingRequests
  busy,       \* the request in DeliverToolRequest, with its RouteStream
  handler,    \* handler[d]: where DownstreamService.Connect is
  downState,  \* downState[d], as the client knows it
  toAgent,    \* toAgent[d]: what the proxy sent and the client did not read
  inbox,      \* inbox[d]: what the client sent and the proxy did not read
  asked,      \* asked[r]: the stream r was asked on, and whether it was canceled
  run,        \* run[r]: the agent's execution of r
  forwarded,  \* forwarded[r]: the stream r was forwarded on (history)
  settled     \* requests whose answer or cancellation the proxy read (history)

dialerVars == <<dial, current, link>>
upVars     == <<upState, toProxy, sentUp>>
downVars   == <<downState, toAgent, inbox>>
proxyVars  == <<reg, pending, busy, handler>>
belowVars  == <<proxyVars, downVars>>
callVars   == <<asked, run, forwarded, settled>>
askVars    == <<asked, run>>
vars == <<dialerVars, upVars, belowVars, callVars>>

-----------------------------------------------------------------------------
Order      == [type : {"request", "cancel"}, req : Request]
ToAgent    == [type : {"ack"}] \union Order
FromClient == [type : {"beat"}] \union [type : {"answer"}, req : Request]
                \union [type : {"register"}, host : Client]
ToCenter   == [type : {"register"}, host : Client]
                \union [type : {"answer", "error"}, req : Request]

TypeOK ==
  /\ dial \in {"off", "waiting", "acked", "reading", "forwarding", "rejected"}
  /\ current \in Up \union {None}
  /\ link \in Up \union {None}
  /\ upState \in [Up -> {"unused", "dialed", "acked", "refused", "gone"}]
  /\ toProxy \in [Up -> Seq(Order)]
  /\ sentUp \in [Up -> SUBSET ToCenter]
  /\ reg \in [Client -> [down : Down, online : BOOLEAN] \union {None}]
  /\ pending \in SUBSET Request
  /\ busy \in [req : Request, down : Down] \union {None}
  /\ handler \in [Down -> {"unused", "registered", "acked", "reading", "returned"}]
  /\ downState \in [Down -> {"unused", "open", "joined", "gone"}]
  /\ toAgent \in [Down -> Seq(ToAgent)]
  /\ inbox \in [Down -> SUBSET FromClient]
  /\ asked \in [Request -> [on : Up \union {None}, canceled : BOOLEAN]]
  /\ run \in [Request -> {"none", "running", "stopped", "answered"}]
  /\ forwarded \in [Request -> Down \union {None}]
  /\ settled \in SUBSET Request

Init ==
  /\ dial = "off"
  /\ current = None
  /\ link = None
  /\ upState = [u \in Up |-> "unused"]
  /\ toProxy = [u \in Up |-> <<>>]
  /\ sentUp = [u \in Up |-> {}]
  /\ reg = [c \in Client |-> None]
  /\ pending = {}
  /\ busy = None
  /\ handler = [d \in Down |-> "unused"]
  /\ downState = [d \in Down |-> "unused"]
  /\ toAgent = [d \in Down |-> <<>>]
  /\ inbox = [d \in Down |-> {}]
  /\ asked = [r \in Request |-> [on |-> None, canceled |-> FALSE]]
  /\ run = [r \in Request |-> "none"]
  /\ forwarded = [r \in Request |-> None]
  /\ settled = {}

-----------------------------------------------------------------------------
(* Dialer.Send: without a stream it returns an error, and what is sent on  *)
(* a stream that is gone is lost.                                          *)
SendUp(messages) ==
  sentUp' = IF link # None /\ upState[link] = "acked"
            THEN [sentUp EXCEPT ![link] = @ \union messages]
            ELSE sentUp

Registration(hosts) == {[type |-> "register", host |-> h] : h \in hosts}

(* RouteStream.Send on a stream whose client is gone seems to succeed.     *)
SendDown(d, m) ==
  toAgent' = IF downState[d] \in {"open", "joined"}
             THEN [toAgent EXCEPT ![d] = Append(@, m)]
             ELSE toAgent

-----------------------------------------------------------------------------
(* The center.                                                             *)

(* RegisterAck, with success or without. *)
CenterAnswers(u) ==
  /\ upState[u] = "dialed"
  /\ \E ack \in {"acked", "refused"} : upState' = [upState EXCEPT ![u] = ack]
  /\ UNCHANGED <<dialerVars, toProxy, sentUp, belowVars, callVars>>

(* The connection ends; the dialer may still read a prefix of what came. *)
LoseUp(u) ==
  /\ upState[u] \in {"dialed", "acked"}
  /\ upState' = [upState EXCEPT ![u] = "gone"]
  /\ \E n \in 0 .. Len(toProxy[u]) :
       toProxy' = [toProxy EXCEPT ![u] = SubSeq(toProxy[u], 1, n)]
  /\ UNCHANGED <<dialerVars, sentUp, belowVars, callVars>>

Ask(r, u) ==
  /\ asked[r].on = None
  /\ upState[u] = "acked"
  /\ Registration({Target[r]}) \subseteq sentUp[u]
  /\ asked' = [asked EXCEPT ![r] = [on |-> u, canceled |-> FALSE]]
  /\ toProxy' = [toProxy EXCEPT ![u] = Append(@, [type |-> "request", req |-> r])]
  /\ UNCHANGED <<dialerVars, upState, sentUp, belowVars, run, forwarded, settled>>

(* Router.Send gave up waiting for r. *)
Abandon(r) ==
  /\ asked[r].on # None /\ ~ asked[r].canceled
  /\ upState[asked[r].on] = "acked"
  /\ asked' = [asked EXCEPT ![r] = [on |-> asked[r].on, canceled |-> TRUE]]
  /\ toProxy' = [toProxy EXCEPT ![asked[r].on] = Append(@, [type |-> "cancel", req |-> r])]
  /\ UNCHANGED <<dialerVars, upState, sentUp, belowVars, run, forwarded, settled>>

-----------------------------------------------------------------------------
(* Dialer.Run and runOnce.                                                 *)

(* runOnce opens a stream and sends the RegisterRequest; Run comes back to *)
(* it after a failure and after a rejection alike.                         *)
Dial(u) ==
  /\ dial \in {"off", "rejected"}
  /\ upState[u] = "unused"
  /\ upState' = [upState EXCEPT ![u] = "dialed"]
  /\ current' = u
  /\ dial' = "waiting"
  /\ UNCHANGED <<link, toProxy, sentUp, belowVars, callVars>>

(* Mutant: the requests of the old connection stay. *)
ReceiveAckKeeping ==
  /\ dial = "waiting"
  /\ upState[current] = "acked"
  /\ SendUp(Registration({c \in Client : reg[c] # None /\ reg[c].online}))
  /\ dial' = "acked"
  /\ UNCHANGED <<current, link, upState, toProxy, belowVars, callVars>>

(* OnRegisterAck calls ReregisterAll: the requests of the old connection   *)
(* are forgotten and every online client is registered upstream, through   *)
(* Dialer.Send, before runOnce has set d.stream.                           *)
ReceiveAck ==
  /\ dial = "waiting"
  /\ upState[current] = "acked"
  /\ pending' = {}
  /\ SendUp(Registration({c \in Client : reg[c] # None /\ reg[c].online}))
  /\ dial' = "acked"
  /\ UNCHANGED <<current, link, upState, toProxy, reg, busy, handler, downVars,
                 callVars>>

(* runOnce returns nil. *)
ReceiveRejection ==
  /\ dial = "waiting"
  /\ upState[current] = "refused"
  /\ dial' = "rejected"
  /\ current' = None
  /\ UNCHANGED <<link, upVars, belowVars, callVars>>

(* Recv of the ack fails. *)
DialFails ==
  /\ dial = "waiting"
  /\ upState[current] = "gone"
  /\ dial' = "off"
  /\ current' = None
  /\ UNCHANGED <<link, upVars, belowVars, callVars>>

SetStream ==
  /\ dial = "acked"
  /\ link' = current
  /\ dial' = "reading"
  /\ UNCHANGED <<current, upVars, belowVars, callVars>>

(* Recv fails: the deferred reset of d.stream. *)
ReadFails ==
  /\ dial = "reading"
  /\ upState[current] = "gone"
  /\ toProxy[current] = <<>>
  /\ link' = None
  /\ current' = None
  /\ dial' = "off"
  /\ UNCHANGED <<upVars, belowVars, callVars>>

-----------------------------------------------------------------------------
(* OnMessage, on the goroutine that reads the upstream stream.             *)

(* Mutant: messages are handled while another one still is. *)
ReadsAhead(type) ==
  /\ dial \in {"reading", "forwarding"}
  /\ toProxy[current] # <<>>
  /\ Head(toProxy[current]).type = type
  /\ toProxy' = [toProxy EXCEPT ![current] = Tail(@)]

(* The dialer reads the next message, of that type. *)
Reads(type) ==
  /\ dial = "reading"
  /\ toProxy[current] # <<>>
  /\ Head(toProxy[current]).type = type
  /\ toProxy' = [toProxy EXCEPT ![current] = Tail(@)]

(* DeliverToolRequest of a host that is not registered: HOST_NOT_FOUND. *)
NotFound ==
  /\ Reads("request")
  /\ LET r == Head(toProxy[current]).req
     IN  /\ reg[Target[r]] = None
         /\ SendUp({[type |-> "error", req |-> r]})
  /\ UNCHANGED <<dialerVars, upState, belowVars, callVars>>

(* Mutant: a request is not remembered. *)
StoreNothing ==
  /\ Reads("request")
  /\ LET r == Head(toProxy[current]).req
     IN  /\ reg[Target[r]] # None
         /\ busy' = [req |-> r, down |-> reg[Target[r]].down]
  /\ dial' = "forwarding"
  /\ UNCHANGED <<current, link, upState, sentUp, reg, pending, handler, downVars,
                 callVars>>

(* Otherwise the request is remembered ... *)
StoreRequest ==
  /\ Reads("request")
  /\ LET r == Head(toProxy[current]).req
     IN  /\ reg[Target[r]] # None
         /\ pending' = pending \union {r}
         /\ busy' = [req |-> r, down |-> reg[Target[r]].down]
  /\ dial' = "forwarding"
  /\ UNCHANGED <<current, link, upState, sentUp, reg, handler, downVars, callVars>>

(* ... and sent on the stream that was looked up ... *)
ForwardRequest ==
  /\ dial = "forwarding"
  /\ handler[busy.down] # "returned"
  /\ SendDown(busy.down, [type |-> "request", req |-> busy.req])
  /\ forwarded' = [forwarded EXCEPT ![busy.req] = busy.down]
  /\ busy' = None
  /\ dial' = "reading"
  /\ UNCHANGED <<current, link, upVars, reg, pending, handler, downState, inbox,
                 askVars, settled>>

(* ... or forgotten, when that fails.  The center is told nothing. *)
ForwardFails ==
  /\ dial = "forwarding"
  /\ downState[busy.down] = "gone"
  /\ pending' = pending \ {busy.req}
  /\ busy' = None
  /\ dial' = "reading"
  /\ UNCHANGED <<current, link, upVars, reg, handler, downVars, callVars>>

(* DeliverCancelRequest: a pending request is forgotten and its host told. *)
DeliverCancel ==
  /\ Reads("cancel")
  /\ LET r == Head(toProxy[current]).req
         rec == reg[Target[r]]
     IN  /\ pending' = pending \ {r}
         /\ settled' = settled \union {r}
         /\ IF r \in pending /\ rec # None
            THEN SendDown(rec.down, [type |-> "cancel", req |-> r])
            ELSE UNCHANGED toAgent
  /\ UNCHANGED <<dialerVars, upState, sentUp, reg, busy, handler, downState, inbox,
                 askVars, forwarded>>

-----------------------------------------------------------------------------
(* DownstreamService.Connect, one handler per client stream.               *)

RegisterClient(d) ==
  /\ handler[d] = "unused"
  /\ downState[d] # "unused"
  /\ reg' = [reg EXCEPT ![ClientOf[d]] = [down |-> d, online |-> TRUE]]
  /\ handler' = [handler EXCEPT ![d] = "registered"]
  /\ UNCHANGED <<dialerVars, upVars, pending, busy, downVars, callVars>>

(* AuthenticateRegistration fails. *)
RejectClient(d) ==
  /\ handler[d] = "unused"
  /\ downState[d] # "unused"
  /\ handler' = [handler EXCEPT ![d] = "returned"]
  /\ UNCHANGED <<dialerVars, upVars, reg, pending, busy, downVars, callVars>>

AckClient(d) ==
  /\ handler[d] = "registered"
  /\ SendDown(d, [type |-> "ack"])
  /\ handler' = [handler EXCEPT ![d] = "acked"]
  /\ UNCHANGED <<dialerVars, upVars, reg, pending, busy, downState, inbox, callVars>>

(* Mutant: removes the client's record, whatever stream it routes over. *)
UnregisterByHost(d) == [reg EXCEPT ![ClientOf[d]] = None]

(* UnregisterByStream. *)
Unregistered(d) ==
  [c \in Client |-> IF reg[c] # None /\ reg[c].down = d THEN None ELSE reg[c]]

(* Mutant: the early return forgets the record. *)
AckFailsKeeping(d) ==
  /\ handler[d] = "registered"
  /\ downState[d] = "gone"
  /\ handler' = [handler EXCEPT ![d] = "returned"]
  /\ UNCHANGED <<dialerVars, upVars, reg, pending, busy, downVars, callVars>>

(* The ack cannot be sent. *)
AckFails(d) ==
  /\ handler[d] = "registered"
  /\ downState[d] = "gone"
  /\ reg' = Unregistered(d)
  /\ handler' = [handler EXCEPT ![d] = "returned"]
  /\ UNCHANGED <<dialerVars, upVars, pending, busy, downVars, callVars>>

(* The registration goes upstream, if there is a connection. *)
ForwardRegistration(d) ==
  /\ handler[d] = "acked"
  /\ SendUp(Registration({ClientOf[d]}))
  /\ handler' = [handler EXCEPT ![d] = "reading"]
  /\ UNCHANGED <<dialerVars, upState, toProxy, reg, pending, busy, downVars,
                 callVars>>

(* The handler reads a message of its client. *)
Takes(d, m) ==
  /\ handler[d] = "reading"
  /\ m \in inbox[d]
  /\ inbox' = [inbox EXCEPT ![d] = @ \ {m}]

(* Mutant: heartbeats end at the proxy. *)
ReadBeatQuietly(d) ==
  /\ Takes(d, [type |-> "beat"])
  /\ LET c == ClientOf[d]
     IN  reg' = IF reg[c] = None THEN reg
                ELSE [reg EXCEPT ![c] = [down |-> reg[c].down, online |-> TRUE]]
  /\ UNCHANGED <<dialerVars, upVars, pending, busy, handler, downState, toAgent,
                 callVars>>

(* A heartbeat refreshes the client's record and goes upstream as a        *)
(* registration.                                                           *)
ReadBeat(d) ==
  /\ Takes(d, [type |-> "beat"])
  /\ LET c == ClientOf[d]
     IN  IF reg[c] = None THEN UNCHANGED <<reg, sentUp>>
         ELSE /\ reg' = [reg EXCEPT ![c] = [down |-> reg[c].down, online |-> TRUE]]
              /\ SendUp(Registration({c}))
  /\ UNCHANGED <<dialerVars, upState, toProxy, pending, busy, handler, downState,
                 toAgent, callVars>>

(* A ToolResponse or ErrorResponse: forgotten here and passed on. *)
ReadAnswer(d, r) ==
  /\ Takes(d, [type |-> "answer", req |-> r])
  /\ pending' = pending \ {r}
  /\ settled' = settled \union {r}
  /\ SendUp({[type |-> "answer", req |-> r]})
  /\ UNCHANGED <<dialerVars, upState, toProxy, reg, busy, handler, downState,
                 toAgent, askVars, forwarded>>

(* A nested proxy's RegisterRequest falls through the switch. *)
IgnoreRegistration(d, h) ==
  /\ Takes(d, [type |-> "register", host |-> h])
  /\ UNCHANGED <<dialerVars, upVars, proxyVars, downState, toAgent, callVars>>

(* Recv fails: the deferred UnregisterByStream.  Nothing goes upstream. *)
CloseClient(d) ==
  /\ handler[d] = "reading"
  /\ downState[d] = "gone"
  /\ inbox[d] = {}
  /\ reg' = Unregistered(d)
  /\ handler' = [handler EXCEPT ![d] = "returned"]
  /\ UNCHANGED <<dialerVars, upVars, pending, busy, downVars, callVars>>

(* The offline checker. *)
Expire(c) ==
  /\ reg[c] # None /\ reg[c].online
  /\ reg' = [reg EXCEPT ![c] = [down |-> reg[c].down, online |-> FALSE]]
  /\ UNCHANGED <<dialerVars, upVars, pending, busy, handler, downVars, callVars>>

-----------------------------------------------------------------------------
(* The clients.                                                            *)

Attach(d) ==
  /\ downState[d] = "unused"
  /\ \A e \in Down : ClientOf[e] = ClientOf[d] => downState[e] \notin {"open", "joined"}
  /\ downState' = [downState EXCEPT ![d] = "open"]
  /\ UNCHANGED <<dialerVars, upVars, proxyVars, toAgent, inbox, callVars>>

(* The connection ends: the client reads no more, the proxy may miss some  *)
(* of what the client sent.                                                *)
Leave(d) ==
  /\ downState[d] \in {"open", "joined"}
  /\ downState' = [downState EXCEPT ![d] = "gone"]
  /\ toAgent' = [toAgent EXCEPT ![d] = <<>>]
  /\ \E kept \in SUBSET inbox[d] : inbox' = [inbox EXCEPT ![d] = kept]
  /\ UNCHANGED <<dialerVars, upVars, proxyVars, callVars>>

(* The client's dialer takes an ack for the first message, and nothing else. *)
Joins(d) ==
  /\ downState[d] = "open"
  /\ toAgent[d] # <<>>
  /\ Head(toAgent[d]).type = "ack"
  /\ downState' = [downState EXCEPT ![d] = "joined"]
  /\ toAgent' = [toAgent EXCEPT ![d] = Tail(@)]
  /\ UNCHANGED <<dialerVars, upVars, proxyVars, inbox, callVars>>

(* A joined client sends a message. *)
Tells(d, m) ==
  /\ downState[d] = "joined"
  /\ inbox' = [inbox EXCEPT ![d] = @ \union {m}]
  /\ UNCHANGED <<dialerVars, upVars, proxyVars, downState, toAgent, forwarded,
                 settled>>

Beat(d) ==
  /\ Tells(d, [type |-> "beat"])
  /\ UNCHANGED askVars

(* A nested proxy forwards the registration of one of its own clients. *)
RegisterNested(d, h) ==
  /\ h \in Nested[ClientOf[d]]
  /\ Tells(d, [type |-> "register", host |-> h])
  /\ UNCHANGED askVars

(* The agent starts a request, or cancels the run if it still works. *)
Obeys(d) ==
  /\ downState[d] = "joined"
  /\ toAgent[d] # <<>>
  /\ toAgent' = [toAgent EXCEPT ![d] = Tail(@)]
  /\ LET m == Head(toAgent[d])
     IN  run' = IF m.type = "request" THEN [run EXCEPT ![m.req] = "running"]
                ELSE IF run[m.req] = "running" THEN [run EXCEPT ![m.req] = "stopped"]
                ELSE run
  /\ UNCHANGED <<dialerVars, upVars, proxyVars, downState, inbox, asked, forwarded,
                 settled>>

Answers(d, r) ==
  /\ ClientOf[d] = Target[r]
  /\ run[r] \in {"running", "stopped"}
  /\ run' = [run EXCEPT ![r] = "answered"]
  /\ Tells(d, [type |-> "answer", req |-> r])
  /\ UNCHANGED asked

-----------------------------------------------------------------------------
DialerStep ==
  \/ \E u \in Up : Dial(u)
  \/ ReceiveAck \/ ReceiveRejection \/ DialFails \/ SetStream \/ ReadFails
  \/ NotFound \/ StoreRequest \/ ForwardRequest \/ ForwardFails \/ DeliverCancel

HandlerStep(d) ==
  \/ RegisterClient(d) \/ RejectClient(d) \/ AckClient(d) \/ AckFails(d)
  \/ ForwardRegistration(d) \/ ReadBeat(d)
  \/ \E r \in Request : ReadAnswer(d, r)
  \/ \E h \in Client : IgnoreRegistration(d, h)
  \/ CloseClient(d)

CenterStep ==
  \/ \E u \in Up : CenterAnswers(u) \/ LoseUp(u)
  \/ \E r \in Request : Abandon(r) \/ \E u \in Up : Ask(r, u)

ClientStep(d) ==
  \/ Attach(d) \/ Leave(d) \/ Joins(d) \/ Beat(d) \/ Obeys(d)
  \/ \E h \in Client : RegisterNested(d, h)
  \/ \E r \in Request : Answers(d, r)

(* Every stream there is was used and is over: only the bound on streams   *)
(* stops the dialers from going on.                                        *)
Quiet ==
  /\ dial \in {"off", "rejected"}
  /\ \A u \in Up : upState[u] \in {"gone", "refused"}
  /\ \A d \in Down : downState[d] = "gone" /\ handler[d] = "returned"
  /\ UNCHANGED vars

Next ==
  \/ DialerStep
  \/ CenterStep
  \/ \E d \in Down : HandlerStep(d) \/ ClientStep(d)
  \/ \E c \in Client : Expire(c)
  \/ Quiet

Spec == Init /\ [][Next]_vars

(* The proxy's goroutines run, every message of an open stream is read in  *)
(* the end, and joined clients go on sending heartbeats and registrations. *)
(* Nobody need connect, answer, ask or acknowledge.                        *)
Fairness ==
  /\ WF_vars(ReceiveAck \/ SetStream \/ ReadFails)
  /\ WF_vars(NotFound \/ StoreRequest \/ ForwardRequest \/ ForwardFails \/ DeliverCancel)
  /\ \A d \in Down :
       /\ WF_vars(AckClient(d) \/ ForwardRegistration(d) \/ CloseClient(d))
       /\ SF_vars(ReadBeat(d))
       /\ WF_vars(Beat(d))
       /\ \A h \in Nested[ClientOf[d]] :
            SF_vars(IgnoreRegistration(d, h)) /\ WF_vars(RegisterNested(d, h))
       /\ WF_vars(Joins(d))
       /\ WF_vars(Obeys(d))

FairSpec == Spec /\ Fairness

-----------------------------------------------------------------------------
(* Correctness.                                                            *)

(* No record of the proxy routes to a stream whose handler has returned.   *)
RouteIsServed ==
  \A c \in Client : reg[c] # None => handler[reg[c].down] \in {"registered", "acked", "reading"}

(* The record of a client disappears only with the handler it routes over: *)
(* the late end of an old connection spares the client's new registration. *)
RemovedByOwner ==
  [][\A c \in Client : reg[c] # None /\ reg'[c] = None =>
       handler[reg[c].down] # "returned" /\ handler'[reg[c].down] = "returned"]_vars

(* While connected, pendingRequests holds exactly the requests of this     *)
(* connection that were forwarded and neither answered nor canceled:       *)
(* nothing leaks, ReregisterAll forgets no live request, and every running *)
(* request can be canceled.                                                *)
PendingExact ==
  link # None =>
    pending = {r \in Request :
                 \/ asked[r].on = link /\ forwarded[r] # None /\ r \notin settled
                 \/ busy # None /\ busy.req = r}

(* A cancellation on its way to an agent finds its request started, ahead  *)
(* of it on the same stream, or lost with an older stream.                 *)
CancelFollowsRequest ==
  \A d \in Down : \A i \in 1 .. Len(toAgent[d]) :
    toAgent[d][i].type = "cancel" =>
      LET r == toAgent[d][i].req
      IN  \/ run[r] # "none"
          \/ \E j \in 1 .. i - 1 : toAgent[d][j] = [type |-> "request", req |-> r]
          \/ forwarded[r] # None /\ downState[forwarded[r]] = "gone"

(* A canceled run stops, unless the center's or the agent's connection     *)
(* broke: the cancellation finds its way through the proxy.                *)
CanceledRunStops ==
  \A r \in Request :
    (run[r] = "running" /\ asked[r].canceled) ~>
      \/ run[r] # "running"
      \/ upState[asked[r].on] = "gone"
      \/ downState[forwarded[r]] = "gone"

(* A client of a connected proxy gets registered upstream, also when it    *)
(* joined before the connection was made.                                  *)
ClientIsAnnounced ==
  \A d \in Down, u \in Up :
    (downState[d] = "joined" /\ link = u) ~>
      \/ Registration({ClientOf[d]}) \subseteq sentUp[u]
      \/ downState[d] # "joined"
      \/ link # u \/ upState[u] # "acked"

=============================================================================
