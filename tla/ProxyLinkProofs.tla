-------------------------- MODULE ProxyLinkProofs --------------------------
(***************************************************************************)
(* Proofs about ProxyLink for any number of connections, clients and       *)
(* requests, with any nesting of proxies.                                  *)
(***************************************************************************)
EXTENDS ProxyLink, SequenceTheorems, TLAPS

USE ProxyAssumption

-----------------------------------------------------------------------------
(* Shape: what the proofs need to know of the types.                       *)
(*                                                                         *)
(* Taking the head off a non-empty sequence over S. *)
LEMMA HeadTailType ==
  ASSUME NEW S, NEW q \in Seq(S), q # <<>>
  PROVE  /\ Head(q) \in S
         /\ Tail(q) \in Seq(S)
         /\ Len(Tail(q)) = Len(q) - 1
         /\ \A i \in 1 .. Len(Tail(q)) : Tail(q)[i] = q[i + 1]
         /\ Head(q) = q[1]
         /\ Len(q) \in Nat \ {0}
  BY HeadTailProperties, EmptySeq, LenProperties

Records == [down : Down, online : BOOLEAN]
Jobs    == [req : Request, down : Down]
UpShape ==
  /\ dial \in {"off", "waiting", "acked", "reading", "forwarding", "rejected"}
  /\ current \in Up \cup {None} /\ link \in Up \cup {None}
  /\ DOMAIN upState = Up /\ toProxy \in [Up -> Seq(Order)]
  /\ pending \subseteq Request /\ busy \in Jobs \cup {None}
  /\ asked \in [Request -> [on : Up \cup {None}, canceled : BOOLEAN]]
DownShape ==
  /\ reg \in [Client -> Records \cup {None}]
  /\ handler \in [Down -> {"unused", "registered", "acked", "reading", "returned"}]
  /\ downState \in [Down -> {"unused", "open", "joined", "gone"}]
  /\ toAgent \in [Down -> Seq(ToAgent)] /\ DOMAIN inbox = Down
  /\ DOMAIN run = Request /\ forwarded \in [Request -> Down \cup {None}]
Shape == UpShape /\ DownShape

(* The dialer is connected, at work on a request, and on which connection, *)
(* as its place in Run says; a connection it knows has been dialed.        *)
DialInv ==
  /\ current # None => upState[current] # "unused"
  /\ dial \in {"off", "rejected"} <=> current = None
  /\ link = IF dial \in {"reading", "forwarding"} THEN current ELSE None
  /\ busy # None <=> dial = "forwarding"

LEMMA InitShape == Init => Shape /\ DialInv
  BY EmptySeq DEF Init, Shape, UpShape, DownShape, DialInv

(* A message more on the way to a client. *)
LEMMA SendDownShape ==
  ASSUME Shape, NEW d \in Down, NEW m \in ToAgent, SendDown(d, m)
  PROVE  /\ toAgent' \in [Down -> Seq(ToAgent)]
         /\ \A e \in Down \ {d} : toAgent'[e] = toAgent[e]
         /\ toAgent'[d] = IF downState[d] \in {"open", "joined"} THEN Append(toAgent[d], m)
                          ELSE toAgent[d]
<1>1. toAgent[d] \in Seq(ToAgent)
  BY DEF Shape, DownShape
<1>2. Append(toAgent[d], m) \in Seq(ToAgent)
  BY <1>1, AppendProperties
<1> QED
  BY <1>2 DEF SendDown, Shape, DownShape

(* The dialer reads. *)
LEMMA ReadsShape ==
  ASSUME Shape, DialInv, NEW type, Reads(type)
  PROVE  /\ dial = "reading" /\ current \in Up /\ link = current /\ busy = None
         /\ toProxy[current] \in Seq(Order) /\ toProxy[current] # <<>>
         /\ Head(toProxy[current]) \in Order /\ Head(toProxy[current]).type = type
         /\ Head(toProxy[current]).req \in Request
         /\ toProxy' \in [Up -> Seq(Order)]
         /\ toProxy'[current] = Tail(toProxy[current])
         /\ \A u \in Up \ {current} : toProxy'[u] = toProxy[u]
<1>1. dial = "reading" /\ current \in Up /\ link = current /\ busy = None
  BY DEF Reads, Shape, UpShape, DialInv
<1>2. toProxy[current] \in Seq(Order) /\ toProxy[current] # <<>>
  BY <1>1 DEF Reads, Shape, UpShape
<1>3. Head(toProxy[current]) \in Order /\ Tail(toProxy[current]) \in Seq(Order)
  BY <1>2, HeadTailType
<1>4. Head(toProxy[current]).req \in Request
  BY <1>3 DEF Order
<1> QED
  BY <1>1, <1>2, <1>3, <1>4 DEF Reads, Shape, UpShape

LEMMA DialerShape == ASSUME Shape, DialInv, DialerStep PROVE Shape' /\ DialInv'
<1> USE DEF Shape, UpShape, DownShape, DialInv, dialerVars, upVars, downVars, proxyVars, belowVars,
            callVars, askVars
<1>1. ASSUME NEW u \in Up, Dial(u) PROVE Shape' /\ DialInv'
  BY <1>1 DEF Dial
<1>2. CASE ReceiveAck
  BY <1>2 DEF ReceiveAck
<1>3. CASE ReceiveRejection \/ DialFails
  BY <1>3 DEF ReceiveRejection, DialFails
<1>4. CASE SetStream \/ ReadFails
  BY <1>4 DEF SetStream, ReadFails
<1>5. CASE NotFound
  BY <1>5, ReadsShape DEF NotFound
<1>6. CASE StoreRequest
  <2> DEFINE r == Head(toProxy[current]).req
  <2>1. /\ r \in Request /\ reg[Target[r]] # None /\ Target[r] \in Client
        /\ dial = "reading" /\ current \in Up /\ link = current /\ busy = None
        /\ toProxy' \in [Up -> Seq(Order)]
    BY <1>6, ReadsShape DEF StoreRequest
  <2>2. busy' \in Jobs /\ pending' \subseteq Request
    BY <1>6, <2>1 DEF StoreRequest, Jobs, Records
  <2> QED
    BY <1>6, <2>1, <2>2 DEF StoreRequest, Jobs
<1>7. CASE ForwardRequest
  <2>1. busy \in Jobs /\ busy.req \in Request /\ busy.down \in Down
    BY <1>7 DEF ForwardRequest, Jobs
  <2>2. [type |-> "request", req |-> busy.req] \in ToAgent
    BY <2>1 DEF ToAgent, Order
  <2>3. toAgent' \in [Down -> Seq(ToAgent)]
    BY <1>7, <2>1, <2>2, SendDownShape DEF ForwardRequest
  <2> QED
    BY <1>7, <2>1, <2>3 DEF ForwardRequest
<1>8. CASE ForwardFails
  BY <1>8 DEF ForwardFails
<1>9. CASE DeliverCancel
  <2> DEFINE r == Head(toProxy[current]).req
             rec == reg[Target[r]]
  <2>1. /\ r \in Request /\ Target[r] \in Client
        /\ dial = "reading" /\ current \in Up /\ link = current /\ busy = None
        /\ toProxy' \in [Up -> Seq(Order)]
    BY <1>9, ReadsShape DEF DeliverCancel
  <2>2. [type |-> "cancel", req |-> r] \in ToAgent
    BY <2>1 DEF ToAgent, Order
  <2>3. rec # None => rec.down \in Down
    BY <2>1 DEF Records
  <2>4. toAgent' \in [Down -> Seq(ToAgent)]
    BY <1>9, <2>2, <2>3, SendDownShape DEF DeliverCancel
  <2> QED
    BY <1>9, <2>1, <2>4 DEF DeliverCancel
<1> QED
  BY <1>1, <1>2, <1>3, <1>4, <1>5, <1>6, <1>7, <1>8, <1>9 DEF DialerStep

LEMMA HandlerShape ==
  ASSUME Shape, DialInv, NEW d \in Down, HandlerStep(d) PROVE Shape' /\ DialInv'
<1> USE DEF Shape, UpShape, DownShape, DialInv, dialerVars, upVars, downVars, proxyVars, belowVars,
            callVars, askVars, Records
<1>1. CASE RegisterClient(d)
  <2>1. [down |-> d, online |-> TRUE] \in Records
    OBVIOUS
  <2>2. reg' \in [Client -> Records \cup {None}]
    BY <1>1, <2>1 DEF RegisterClient
  <2>3. handler' \in [Down -> {"unused", "registered", "acked", "reading", "returned"}]
    BY <1>1 DEF RegisterClient
  <2> QED
    BY <1>1, <2>2, <2>3 DEF RegisterClient
<1>7. CASE RejectClient(d)
  BY <1>7 DEF RejectClient
<1>2. CASE AckClient(d)
  <2>1. [type |-> "ack"] \in ToAgent
    BY DEF ToAgent
  <2>2. toAgent' \in [Down -> Seq(ToAgent)]
    BY <1>2, <2>1, SendDownShape DEF AckClient
  <2> QED
    BY <1>2, <2>2 DEF AckClient
<1>3. CASE AckFails(d) \/ CloseClient(d)
  <2>1. Unregistered(d) \in [Client -> Records \cup {None}]
    BY DEF Unregistered
  <2> QED
    BY <1>3, <2>1 DEF AckFails, CloseClient
<1>4. CASE ForwardRegistration(d)
  BY <1>4 DEF ForwardRegistration
<1>8. CASE ReadBeat(d)
  <2>1. reg' = reg \/ (reg[ClientOf[d]] # None
                         /\ reg' = [reg EXCEPT ![ClientOf[d]] = [down |-> reg[ClientOf[d]].down, online |-> TRUE]])
    BY <1>8 DEF ReadBeat
  <2>c. ClientOf[d] \in Client /\ reg[ClientOf[d]] \in Records \cup {None}
    OBVIOUS
  <2>2. ASSUME reg[ClientOf[d]] # None
        PROVE  [down |-> reg[ClientOf[d]].down, online |-> TRUE] \in Records
    <3>1. reg[ClientOf[d]].down \in Down
      BY <2>c, <2>2
    <3> QED
      BY <3>1
  <2>3. reg' \in [Client -> Records \cup {None}]
    <3>1. reg \in [Client -> Records \cup {None}]
      OBVIOUS
    <3> DEFINE rec == [down |-> reg[ClientOf[d]].down, online |-> TRUE]
    <3>2. reg' = reg \/ (reg[ClientOf[d]] # None /\ rec \in Records /\ reg' = [reg EXCEPT ![ClientOf[d]] = rec])
      BY <2>1, <2>2
    <3> HIDE DEF rec, Records, Shape, UpShape, DownShape
    <3> QED
      BY <2>c, <3>1, <3>2
  <2>4. /\ UNCHANGED <<dial, current, link, upState, toProxy, pending, busy, asked, handler,
                       downState, toAgent, run, forwarded>>
        /\ DOMAIN inbox' = Down
    BY <1>8 DEF ReadBeat, Takes
  <2> QED
    BY <2>3, <2>4
<1>5. ASSUME NEW r \in Request, ReadAnswer(d, r) PROVE Shape' /\ DialInv'
  BY <1>5 DEF ReadAnswer, Takes
<1>6. ASSUME NEW h \in Client, IgnoreRegistration(d, h) PROVE Shape' /\ DialInv'
  BY <1>6 DEF IgnoreRegistration, Takes
<1> QED
  BY <1>1, <1>2, <1>3, <1>4, <1>5, <1>6, <1>7, <1>8 DEF HandlerStep

LEMMA CenterShape == ASSUME Shape, DialInv, CenterStep PROVE Shape' /\ DialInv'
<1> USE DEF Shape, UpShape, DownShape, DialInv, dialerVars, upVars, downVars, proxyVars, belowVars,
            callVars, askVars
<1>1. ASSUME NEW u \in Up, CenterAnswers(u) PROVE Shape' /\ DialInv'
  BY <1>1 DEF CenterAnswers
<1>2. ASSUME NEW u \in Up, LoseUp(u) PROVE Shape' /\ DialInv'
  <2>1. PICK n \in 0 .. Len(toProxy[u]) : toProxy' = [toProxy EXCEPT ![u] = SubSeq(toProxy[u], 1, n)]
    BY <1>2 DEF LoseUp
  <2>2. toProxy[u] \in Seq(Order)
    OBVIOUS
  <2>3. SubSeq(toProxy[u], 1, n) \in Seq(Order)
    BY <2>2, SubSeqProperties
  <2>4. toProxy' \in [Up -> Seq(Order)]
    BY <2>1, <2>3
  <2> QED
    BY <1>2, <2>4 DEF LoseUp
<1>3. ASSUME NEW r \in Request, Abandon(r) PROVE Shape' /\ DialInv'
  <2>1. [type |-> "cancel", req |-> r] \in Order /\ asked[r].on \in Up
    BY <1>3 DEF Order, Abandon
  <2>2. toProxy' \in [Up -> Seq(Order)]
    BY <1>3, <2>1, AppendProperties DEF Abandon
  <2> QED
    BY <1>3, <2>1, <2>2 DEF Abandon
<1>4. ASSUME NEW r \in Request, NEW u \in Up, Ask(r, u) PROVE Shape' /\ DialInv'
  <2>1. [type |-> "request", req |-> r] \in Order
    BY DEF Order
  <2>2. toProxy' \in [Up -> Seq(Order)]
    BY <1>4, <2>1, AppendProperties DEF Ask
  <2> QED
    BY <1>4, <2>2 DEF Ask
<1> QED
  BY <1>1, <1>2, <1>3, <1>4 DEF CenterStep

LEMMA ClientShape ==
  ASSUME Shape, DialInv, NEW d \in Down, ClientStep(d) PROVE Shape' /\ DialInv'
<1> USE DEF Shape, UpShape, DownShape, DialInv, dialerVars, upVars, downVars, proxyVars, belowVars,
            callVars, askVars
<1>1. CASE Attach(d)
  BY <1>1 DEF Attach
<1>5. CASE Leave(d)
  <2>1. toAgent' \in [Down -> Seq(ToAgent)] /\ DOMAIN inbox' = Down
    BY <1>5, EmptySeq DEF Leave
  <2> QED
    BY <1>5, <2>1 DEF Leave
<1>2. CASE Joins(d)
  <2>1. Tail(toAgent[d]) \in Seq(ToAgent)
    BY <1>2, HeadTailType DEF Joins
  <2> QED
    BY <1>2, <2>1 DEF Joins
<1>3. CASE Obeys(d)
  <2>1. Tail(toAgent[d]) \in Seq(ToAgent)
    BY <1>3, HeadTailType DEF Obeys
  <2>2. DOMAIN run' = Request
    BY <1>3 DEF Obeys
  <2> QED
    BY <1>3, <2>1, <2>2 DEF Obeys
<1>4. ASSUME NEW m, Tells(d, m), UNCHANGED asked, DOMAIN run' = Request PROVE Shape' /\ DialInv'
  BY <1>4 DEF Tells
<1> QED
  BY <1>1, <1>2, <1>3, <1>4, <1>5 DEF ClientStep, Beat, RegisterNested, Answers

LEMMA NextShape == Shape /\ DialInv /\ [Next]_vars => Shape' /\ DialInv'
<1> SUFFICES ASSUME Shape, DialInv, [Next]_vars PROVE Shape' /\ DialInv'
  OBVIOUS
<1> USE DEF dialerVars, upVars, downVars, proxyVars, belowVars, callVars, askVars
<1>1. ASSUME NEW c \in Client, Expire(c) PROVE Shape' /\ DialInv'
  BY <1>1 DEF Expire, Shape, UpShape, DownShape, DialInv, Records
<1>2. CASE UNCHANGED vars
  BY <1>2 DEF vars, Shape, UpShape, DownShape, DialInv
<1> QED
  BY <1>1, <1>2, DialerShape, HandlerShape, CenterShape, ClientShape DEF Next, Quiet

-----------------------------------------------------------------------------
(* Routes.                                                                 *)
(*                                                                         *)
(* A record is of a client that has connected, and its handler is running. *)
Serving == {"registered", "acked", "reading"}
RouteInv == \A c \in Client : reg[c] # None =>
  /\ handler[reg[c].down] \in Serving
  /\ ClientOf[reg[c].down] = c
  /\ downState[reg[c].down] # "unused"

LEMMA RecordIsSome ==
  ASSUME NEW d \in Down, NEW o \in BOOLEAN
  PROVE  [down |-> d, online |-> o] # None
<1>1. [down |-> d, online |-> o] \in [down : Down, online : BOOLEAN]
  OBVIOUS
<1> QED
  BY <1>1

(* A heartbeat does not move a record. *)
LEMMA BeatKeepsRoutes ==
  ASSUME Shape, NEW d \in Down, ReadBeat(d)
  PROVE  /\ handler' = handler
         /\ \A c \in Client : IF reg[c] = None THEN reg'[c] = None
                             ELSE reg'[c] # None /\ reg'[c].down = reg[c].down
<1> DEFINE b == ClientOf[d]
<1>1. CASE reg[b] = None
  BY <1>1 DEF ReadBeat
<1>2. CASE reg[b] # None
  <2>1. reg[b].down \in Down /\ b \in Client
    BY <1>2 DEF Shape, DownShape, Records
  <2>2. reg'[b] = [down |-> reg[b].down, online |-> TRUE] /\ \A c \in Client \ {b} : reg'[c] = reg[c]
    BY <1>2, <2>1 DEF ReadBeat, Shape, DownShape
  <2>3. reg'[b] # None
    BY <2>1, <2>2, RecordIsSome
  <2> QED
    BY <1>2, <2>1, <2>2, <2>3 DEF ReadBeat
<1> QED
  BY <1>1, <1>2

(* Steps that neither register nor end a handler. *)
LEMMA RoutesStay ==
  ASSUME Shape, RouteInv,
         \A c \in Client : reg'[c] # None => reg[c] # None /\ reg'[c].down = reg[c].down,
         \A d \in Down : /\ handler[d] \in Serving => handler'[d] \in Serving
                         /\ downState[d] # "unused" => downState'[d] # "unused"
  PROVE  RouteInv'
  BY DEF RouteInv, Shape, DownShape, Records

LEMMA NextRouteInv == Shape /\ DialInv /\ RouteInv /\ [Next]_vars => RouteInv'
<1> SUFFICES ASSUME Shape, DialInv, RouteInv, [Next]_vars PROVE RouteInv'
  OBVIOUS
<1> USE DEF dialerVars, upVars, downVars, proxyVars, belowVars, callVars, askVars
<1>u. ASSUME UNCHANGED <<reg, handler>>,
             \A d \in Down : downState[d] # "unused" => downState'[d] # "unused"
      PROVE  RouteInv'
  BY <1>u, RoutesStay
<1>1. CASE DialerStep
  <2>1. UNCHANGED <<reg, handler, downState>>
    BY <1>1 DEF DialerStep, Dial, ReceiveAck, ReceiveRejection, DialFails, SetStream, ReadFails,
                NotFound, StoreRequest, ForwardRequest, ForwardFails, DeliverCancel
  <2> QED
    BY <2>1, <1>u
<1>2. CASE CenterStep
  <2>1. UNCHANGED <<reg, handler, downState>>
    BY <1>2 DEF CenterStep, CenterAnswers, LoseUp, Ask, Abandon
  <2> QED
    BY <2>1, <1>u
<1>3. ASSUME NEW d \in Down, ClientStep(d) PROVE RouteInv'
  <2>1. UNCHANGED <<reg, handler>>
    BY <1>3 DEF ClientStep, Attach, Leave, Joins, Beat, RegisterNested, Obeys, Answers, Tells
  <2>2. \A e \in Down : downState[e] # "unused" => downState'[e] # "unused"
    BY <1>3 DEF ClientStep, Attach, Leave, Joins, Beat, RegisterNested, Obeys, Answers, Tells,
                Shape, DownShape
  <2> QED
    BY <2>1, <2>2, <1>u
<1>4. ASSUME NEW d \in Down, HandlerStep(d) PROVE RouteInv'
  <2>0. downState' = downState
    BY <1>4 DEF HandlerStep, RegisterClient, RejectClient, AckClient, AckFails, ForwardRegistration,
                ReadBeat, ReadAnswer, IgnoreRegistration, CloseClient, Takes
  <2>1. CASE RegisterClient(d)
    <3>1. /\ reg'[ClientOf[d]] = [down |-> d, online |-> TRUE] /\ ClientOf[d] \in Client
          /\ \A c \in Client \ {ClientOf[d]} : reg'[c] = reg[c]
          /\ handler'[d] = "registered" /\ downState[d] # "unused"
          /\ \A e \in Down \ {d} : handler'[e] = handler[e]
      BY <2>1 DEF RegisterClient, Shape, DownShape
    <3>2. \A c \in Client : reg[c] # None => reg[c].down \in Down /\ reg[c].down # d
      <4>1. ASSUME NEW c \in Client, reg[c] # None PROVE reg[c].down \in Down
        BY <4>1 DEF Shape, DownShape, Records
      <4>2. handler[d] \notin Serving
        BY <2>1 DEF RegisterClient, Serving
      <4> QED
        BY <4>1, <4>2 DEF RouteInv
    <3>3. ASSUME NEW c \in Client, reg'[c] # None
          PROVE  /\ handler'[reg'[c].down] \in Serving /\ ClientOf[reg'[c].down] = c
                 /\ downState'[reg'[c].down] # "unused"
      <4>1. CASE c = ClientOf[d]
        <5>1. reg'[c].down = d
          BY <3>1, <4>1
        <5> QED
          BY <2>0, <3>1, <4>1, <5>1 DEF Serving
      <4>2. CASE c # ClientOf[d]
        <5>1. reg'[c] = reg[c]
          BY <3>1, <4>2
        <5> QED
          BY <2>0, <3>1, <3>2, <3>3, <5>1 DEF RouteInv
      <4> QED
        BY <4>1, <4>2
    <3> QED
      BY <3>3 DEF RouteInv
  <2>2. CASE RejectClient(d)
    <3>1. reg' = reg /\ \A e \in Down : handler[e] \in Serving => handler'[e] = handler[e]
      BY <2>2 DEF RejectClient, Shape, DownShape, Serving
    <3> QED
      BY <2>0, <3>1, RoutesStay
  <2>3. CASE AckClient(d) \/ ForwardRegistration(d)
    <3>1. reg' = reg /\ \A e \in Down : handler[e] \in Serving => handler'[e] \in Serving
      BY <2>3 DEF AckClient, ForwardRegistration, Shape, DownShape, Serving
    <3> QED
      BY <2>0, <3>1, RoutesStay
  <2>4. CASE AckFails(d) \/ CloseClient(d)
    <3>1. /\ \A c \in Client : reg'[c] = IF reg[c] # None /\ reg[c].down = d THEN None ELSE reg[c]
          /\ \A e \in Down \ {d} : handler'[e] = handler[e]
      BY <2>4 DEF AckFails, CloseClient, Unregistered, Shape, DownShape
    <3>2. \A c \in Client : reg[c] # None => reg[c].down \in Down
      BY DEF Shape, DownShape, Records
    <3> QED
      BY <2>0, <3>1, <3>2 DEF RouteInv
  <2>5. CASE ReadBeat(d)
    <3>1. /\ handler' = handler
          /\ \A c \in Client : reg'[c] # None => reg[c] # None /\ reg'[c].down = reg[c].down
      BY <2>5, BeatKeepsRoutes
    <3> QED
      BY <2>0, <3>1, RoutesStay
  <2>6. CASE (\E r \in Request : ReadAnswer(d, r)) \/ \E h \in Client : IgnoreRegistration(d, h)
    <3>1. UNCHANGED <<reg, handler>>
      BY <2>6 DEF ReadAnswer, IgnoreRegistration
    <3> QED
      BY <2>0, <3>1, <1>u
  <2> QED
    BY <1>4, <2>1, <2>2, <2>3, <2>4, <2>5, <2>6 DEF HandlerStep
<1>5. ASSUME NEW c \in Client, Expire(c) PROVE RouteInv'
  <2>1. /\ UNCHANGED <<handler, downState>>
        /\ \A b \in Client : reg'[b] # None => reg[b] # None /\ reg'[b].down = reg[b].down
    BY <1>5 DEF Expire, Shape, DownShape
  <2> QED
    BY <2>1, RoutesStay
<1>6. CASE UNCHANGED vars
  BY <1>6, <1>u DEF vars
<1> QED
  BY <1>1, <1>2, <1>3, <1>4, <1>5, <1>6 DEF Next, Quiet

LEMMA RouteInvariance == Spec => [](Shape /\ DialInv /\ RouteInv)
<1>1. Init => RouteInv
  BY DEF Init, RouteInv
<1> QED
  BY <1>1, InitShape, NextShape, NextRouteInv, PTL DEF Spec

(* No record of the proxy routes to a stream whose handler has returned.   *)
THEOREM RoutesAreServed == Spec => []RouteIsServed
<1>1. RouteInv => RouteIsServed
  BY DEF RouteInv, RouteIsServed, Serving
<1> QED
  BY <1>1, RouteInvariance, PTL

(* A client's record goes with the handler it routes over and no other.    *)
THEOREM RemovalIsOwn == Spec => RemovedByOwner
<1>1. Shape /\ RouteInv /\ [Next]_vars =>
        \A c \in Client : reg[c] # None /\ reg'[c] = None =>
          handler[reg[c].down] # "returned" /\ handler'[reg[c].down] = "returned"
  <2> SUFFICES ASSUME Shape, RouteInv, [Next]_vars, NEW c \in Client, reg[c] # None, reg'[c] = None
               PROVE  handler[reg[c].down] # "returned" /\ handler'[reg[c].down] = "returned"
    OBVIOUS
  <2> USE DEF dialerVars, upVars, downVars, proxyVars, belowVars, callVars, askVars
  <2>0. reg[c].down \in Down
    BY DEF Shape, DownShape, Records
  <2>1. \E d \in Down : AckFails(d) \/ CloseClient(d)
    <3>3. ~DialerStep
      BY DEF DialerStep, Dial, ReceiveAck, ReceiveRejection, DialFails, SetStream, ReadFails,
             NotFound, StoreRequest, ForwardRequest, ForwardFails, DeliverCancel
    <3>4. ~CenterStep
      BY DEF CenterStep, CenterAnswers, LoseUp, Ask, Abandon
    <3>5. \A d \in Down : ~ClientStep(d)
      BY DEF ClientStep, Attach, Leave, Joins, Beat, RegisterNested, Obeys, Answers, Tells
    <3>6. \A b \in Client : ~Expire(b)
      <4> SUFFICES ASSUME NEW b \in Client, Expire(b) PROVE FALSE
        OBVIOUS
      <4>1. b = c /\ reg'[c] = [down |-> reg[c].down, online |-> FALSE]
        BY DEF Expire, Shape, DownShape
      <4> QED
        BY <2>0, <4>1, RecordIsSome
    <3>7. ~UNCHANGED vars
      BY DEF vars
    <3>8. ASSUME NEW d \in Down, HandlerStep(d) PROVE AckFails(d) \/ CloseClient(d)
      <4>1. ~RegisterClient(d)
        BY RecordIsSome DEF RegisterClient, Shape, DownShape
      <4>2. ~ReadBeat(d)
        BY BeatKeepsRoutes
      <4> QED
        BY <3>8, <4>1, <4>2 DEF HandlerStep, RejectClient, AckClient, ForwardRegistration,
           ReadAnswer, IgnoreRegistration, Takes
    <3> QED
      BY <3>3, <3>4, <3>5, <3>6, <3>7, <3>8 DEF Next, Quiet
  <2>2. PICK d \in Down : AckFails(d) \/ CloseClient(d)
    BY <2>1
  <2>3. reg[c].down = d
    BY <2>2 DEF AckFails, CloseClient, Unregistered, Shape, DownShape
  <2> QED
    BY <2>2, <2>3 DEF AckFails, CloseClient, Shape, DownShape
<1> QED
  BY <1>1, RouteInvariance, PTL DEF Spec, RemovedByOwner

-----------------------------------------------------------------------------
(* Pending requests.                                                       *)
(*                                                                         *)
(* A queue speaks of requests and asks some of them; a request is the      *)
(* first thing said of it.                                                 *)
Speaks(q) == {q[i].req : i \in 1 .. Len(q)}
Asks(q)   == {q[i].req : i \in {j \in 1 .. Len(q) : q[j].type = "request"}}
FirstAsks(q) == \A i \in 1 .. Len(q) : q[i].type = "request" =>
                  \A j \in 1 .. Len(q) : j < i => q[j].req # q[i].req

LEMMA QueueTail ==
  ASSUME NEW q \in Seq(Order), q # <<>>, FirstAsks(q)
  PROVE  /\ FirstAsks(Tail(q)) /\ Speaks(Tail(q)) \subseteq Speaks(q) /\ Asks(Tail(q)) \subseteq Asks(q)
         /\ Head(q).req \in Speaks(q) /\ Head(q).req \notin Asks(Tail(q))
         /\ Head(q).type = "request" => Head(q).req \in Asks(q)
<1>1. /\ Len(Tail(q)) = Len(q) - 1 /\ Head(q) = q[1] /\ Len(q) \in Nat \ {0}
      /\ \A i \in 1 .. Len(Tail(q)) : Tail(q)[i] = q[i + 1]
  BY HeadTailType
<1>2. \A i \in 1 .. Len(Tail(q)) : i + 1 \in 1 .. Len(q) /\ 1 < i + 1 /\ 1 \in 1 .. Len(q)
  BY <1>1
<1>3. FirstAsks(Tail(q))
  <2> SUFFICES ASSUME NEW i \in 1 .. Len(Tail(q)), Tail(q)[i].type = "request",
                      NEW j \in 1 .. Len(Tail(q)), j < i
               PROVE  Tail(q)[j].req # Tail(q)[i].req
    BY DEF FirstAsks
  <2>1. j + 1 < i + 1
    BY <1>1
  <2> QED
    BY <1>1, <1>2, <2>1 DEF FirstAsks
<1>4. \A i \in 1 .. Len(Tail(q)) : Tail(q)[i].type = "request" => Tail(q)[i].req # q[1].req
  BY <1>1, <1>2 DEF FirstAsks
<1>5. Speaks(Tail(q)) \subseteq Speaks(q) /\ Asks(Tail(q)) \subseteq Asks(q)
  BY <1>1, <1>2 DEF Speaks, Asks
<1>6. Head(q).req \notin Asks(Tail(q))
  BY <1>1, <1>4 DEF Asks
<1>7. 1 \in 1 .. Len(q)
  BY <1>1
<1> QED
  BY <1>1, <1>3, <1>5, <1>6, <1>7 DEF Speaks, Asks

LEMMA QueuePrefix ==
  ASSUME NEW q \in Seq(Order), NEW n \in 0 .. Len(q), FirstAsks(q)
  PROVE  /\ FirstAsks(SubSeq(q, 1, n)) /\ Speaks(SubSeq(q, 1, n)) \subseteq Speaks(q)
         /\ Asks(SubSeq(q, 1, n)) \subseteq Asks(q)
<1> DEFINE p == SubSeq(q, 1, n)
<1>0. Len(q) \in Nat /\ n \in Nat /\ n <= Len(q)
  BY LenProperties
<1>1. Len(p) = n /\ \A i \in 1 .. n : p[i] = q[i]
  BY <1>0, SubSeqProperties
<1>2. \A i \in 1 .. n : i \in 1 .. Len(q)
  BY <1>0
<1> HIDE DEF p
<1> QED
  BY <1>1, <1>2 DEF FirstAsks, Speaks, Asks, p

LEMMA QueueAppend ==
  ASSUME NEW q \in Seq(Order), NEW m \in Order, FirstAsks(q),
         m.type = "request" => m.req \notin Speaks(q)
  PROVE  /\ FirstAsks(Append(q, m)) /\ Speaks(Append(q, m)) \subseteq Speaks(q) \cup {m.req}
         /\ m.type # "request" => Asks(Append(q, m)) \subseteq Asks(q)
         /\ m.type = "request" => Asks(Append(q, m)) \subseteq Asks(q) \cup {m.req}
<1> DEFINE p == Append(q, m)
<1>1. /\ Len(p) = Len(q) + 1 /\ p[Len(q) + 1] = m /\ Len(q) \in Nat
      /\ \A i \in 1 .. Len(q) : p[i] = q[i]
  BY AppendProperties, LenProperties
<1>2. \A i \in 1 .. Len(p) : i \in 1 .. Len(q) \/ i = Len(q) + 1
  BY <1>1
<1> HIDE DEF p
<1>3. FirstAsks(p)
  <2> SUFFICES ASSUME NEW i \in 1 .. Len(p), p[i].type = "request",
                      NEW j \in 1 .. Len(p), j < i
               PROVE  p[j].req # p[i].req
    BY DEF FirstAsks
  <2>1. j \in 1 .. Len(q)
    BY <1>1
  <2>2. CASE i \in 1 .. Len(q)
    BY <1>1, <2>1, <2>2 DEF FirstAsks
  <2>3. CASE i = Len(q) + 1
    <3>1. q[j].req \in Speaks(q)
      BY <2>1 DEF Speaks
    <3> QED
      BY <1>1, <2>1, <2>3, <3>1
  <2> QED
    BY <1>2, <2>2, <2>3
<1>4. Speaks(p) \subseteq Speaks(q) \cup {m.req}
  BY <1>1, <1>2 DEF Speaks
<1>5. m.type # "request" => Asks(p) \subseteq Asks(q)
  BY <1>1, <1>2 DEF Asks
<1>6. m.type = "request" => Asks(p) \subseteq Asks(q) \cup {m.req}
  BY <1>1, <1>2 DEF Asks
<1> QED
  BY <1>3, <1>4, <1>5, <1>6 DEF p

(* What a queue towards a client tells of requests. *)
Told(q) == {q[i].req : i \in {j \in 1 .. Len(q) : q[j].type # "ack"}}

LEMMA ToldTail ==
  ASSUME NEW q \in Seq(ToAgent), q # <<>>
  PROVE  /\ Told(Tail(q)) \subseteq Told(q)
         /\ Head(q).type # "ack" => Head(q).req \in Told(q)
<1>1. /\ Len(Tail(q)) = Len(q) - 1 /\ Head(q) = q[1] /\ Len(q) \in Nat \ {0}
      /\ \A i \in 1 .. Len(Tail(q)) : Tail(q)[i] = q[i + 1]
  BY HeadTailType
<1>2. 1 \in 1 .. Len(q) /\ \A i \in 1 .. Len(Tail(q)) : i + 1 \in 1 .. Len(q)
  BY <1>1
<1> QED
  BY <1>1, <1>2 DEF Told

LEMMA ToldAppend ==
  ASSUME NEW q \in Seq(ToAgent), NEW m \in ToAgent
  PROVE  Told(Append(q, m)) \subseteq Told(q) \cup (IF m.type = "ack" THEN {} ELSE {m.req})
<1> DEFINE p == Append(q, m)
<1>1. /\ Len(p) = Len(q) + 1 /\ p[Len(q) + 1] = m /\ Len(q) \in Nat
      /\ \A i \in 1 .. Len(q) : p[i] = q[i]
  BY AppendProperties, LenProperties
<1>2. \A i \in 1 .. Len(p) : i \in 1 .. Len(q) \/ i = Len(q) + 1
  BY <1>1
<1> HIDE DEF p
<1> QED
  BY <1>1, <1>2 DEF Told, p

(* A request that has been asked and not read was neither forwarded nor    *)
(* settled; whatever the clients know of was forwarded; what was forwarded *)
(* or settled was asked on a connection that has been read from.           *)
Answer(r) == [type |-> "answer", req |-> r]
Unread(r) == forwarded[r] = None /\ r \notin settled
Fresh(u) == u = None \/ upState[u] = "unused" \/ (u = current /\ dial \in {"waiting", "acked"})

QueueInv == \A u \in Up :
  /\ FirstAsks(toProxy[u])
  /\ \A r \in Speaks(toProxy[u]) : asked[r].on = u
  /\ \A r \in Asks(toProxy[u]) : Unread(r) /\ (busy # None => busy.req # r)
BusyInv == busy # None => asked[busy.req].on = current /\ Unread(busy.req)
BelowInv ==
  /\ \A d \in Down : \A r \in Told(toAgent[d]) : forwarded[r] # None
  /\ \A r \in Request : run[r] # "none" => forwarded[r] # None
  /\ \A d \in Down, r \in Request : Answer(r) \in inbox[d] => forwarded[r] # None
FreshInv == \A r \in Request : Fresh(asked[r].on) => Unread(r)
LinkInv == QueueInv /\ BusyInv /\ BelowInv /\ FreshInv
PendInv == PendingExact /\ (dial = "acked" => pending = {})
PendingInv == Shape /\ DialInv /\ LinkInv /\ PendInv

LEMMA InitPendingInv == Init => PendingInv
<1> SUFFICES ASSUME Init PROVE PendingInv
  OBVIOUS
<1>1. \A i \in 1 .. Len(<<>>) : FALSE
  OBVIOUS
<1>2. QueueInv /\ BelowInv
  BY <1>1 DEF Init, QueueInv, BelowInv, FirstAsks, Speaks, Asks, Told
<1>3. BusyInv /\ FreshInv /\ PendInv
  BY DEF Init, BusyInv, FreshInv, PendInv, PendingExact, Unread
<1> QED
  BY <1>2, <1>3, InitShape DEF PendingInv, LinkInv

(* Steps of the clients, the handlers and the center that leave requests,  *)
(* answers and the dialer alone.                                           *)
LEMMA Elsewhere ==
  ASSUME PendingInv, Shape', DialInv', BelowInv',
         UNCHANGED <<dial, current, link, toProxy, pending, busy, asked, forwarded, settled>>,
         \A u \in Up : upState'[u] = "unused" => upState[u] = "unused"
  PROVE  PendingInv'
<1>1. QueueInv'
  BY DEF PendingInv, LinkInv, QueueInv, Unread
<1>2. BusyInv'
  BY DEF PendingInv, LinkInv, BusyInv, Unread
<1>3. FreshInv'
  BY DEF PendingInv, LinkInv, FreshInv, Fresh, Unread, Shape, UpShape
<1>4. PendInv'
  BY DEF PendingInv, PendInv, PendingExact
<1> QED
  BY <1>1, <1>2, <1>3, <1>4 DEF PendingInv, LinkInv

(* Steps of the dialer between its connections. *)
LEMMA DialerMoves ==
  ASSUME PendingInv, Shape', DialInv',
         (\E u \in Up : Dial(u)) \/ ReceiveAck \/ ReceiveRejection \/ DialFails \/ SetStream \/ ReadFails
  PROVE  PendingInv'
<1> USE DEF dialerVars, upVars, downVars, proxyVars, belowVars, callVars, askVars
<1>1. UNCHANGED <<toProxy, busy, asked, forwarded, settled, toAgent, run, inbox>> /\ busy = None
  BY DEF Dial, ReceiveAck, ReceiveRejection, DialFails, SetStream, ReadFails, PendingInv, DialInv
<1>2. QueueInv' /\ BusyInv' /\ BelowInv'
  BY <1>1 DEF PendingInv, LinkInv, QueueInv, BusyInv, BelowInv, Unread
<1>3. FreshInv'
  <2>1. \A u \in Up : Fresh(u)' => Fresh(u)
    BY DEF Dial, ReceiveAck, ReceiveRejection, DialFails, SetStream, ReadFails, Fresh,
           PendingInv, Shape, UpShape
  <2>2. \A r \in Request : asked[r].on \in Up \cup {None} /\ (Fresh(asked[r].on)' => Fresh(asked[r].on))
    BY <1>1, <2>1 DEF PendingInv, Shape, UpShape, Fresh
  <2> QED
    BY <1>1, <2>2 DEF PendingInv, LinkInv, FreshInv, Unread, Fresh
<1>4. PendInv'
  <2>1. CASE SetStream
    <3>1. pending' = {} /\ link' = current /\ current \in Up /\ dial' = "reading" /\ dial = "acked"
      BY <2>1 DEF SetStream, PendingInv, PendInv, DialInv, Shape, UpShape
    <3>2. \A r \in Request : asked[r].on = current => Unread(r)
      BY <3>1 DEF PendingInv, LinkInv, FreshInv, Fresh
    <3> QED
      BY <1>1, <3>1, <3>2 DEF PendInv, PendingExact, Unread
  <2>2. CASE ~SetStream
    <3>1. link' = None /\ (dial' = "acked" => pending' = {})
      BY <2>2 DEF Dial, ReceiveAck, ReceiveRejection, DialFails, ReadFails, PendingInv, DialInv
    <3> QED
      BY <3>1 DEF PendInv, PendingExact
  <2> QED
    BY <2>1, <2>2
<1> QED
  BY <1>2, <1>3, <1>4 DEF PendingInv, LinkInv


(* What a queue asks, it speaks of. *)
LEMMA AskedIsSpokenOf == \A q : Asks(q) \subseteq Speaks(q)
  BY DEF Asks, Speaks

(* The center's steps. *)
LEMMA CenterPending ==
  ASSUME PendingInv, Shape', DialInv', CenterStep
  PROVE  PendingInv'
<1> USE DEF dialerVars, upVars, downVars, proxyVars, belowVars, callVars, askVars
<1>0. \A u \in Up : toProxy[u] \in Seq(Order)
  BY DEF PendingInv, Shape, UpShape
<1>b. UNCHANGED <<toAgent, run, forwarded, inbox>> => BelowInv'
  BY DEF PendingInv, LinkInv, BelowInv
<1>1. ASSUME NEW u \in Up, CenterAnswers(u) PROVE PendingInv'
  <2>1. \A v \in Up : upState'[v] = "unused" => upState[v] = "unused"
    BY <1>1 DEF CenterAnswers, PendingInv, Shape, UpShape
  <2> QED
    BY <1>1, <1>b, <2>1, Elsewhere DEF CenterAnswers
<1>2. ASSUME NEW u \in Up, LoseUp(u) PROVE PendingInv'
  <2>1. PICK n \in 0 .. Len(toProxy[u]) : toProxy' = [toProxy EXCEPT ![u] = SubSeq(toProxy[u], 1, n)]
    BY <1>2 DEF LoseUp
  <2>2. /\ toProxy'[u] = SubSeq(toProxy[u], 1, n)
        /\ \A v \in Up \ {u} : toProxy'[v] = toProxy[v]
    BY <2>1 DEF PendingInv, Shape, UpShape
  <2>3. UNCHANGED <<dial, current, link, pending, busy, asked, run, forwarded, settled, toAgent, inbox>>
    BY <1>2 DEF LoseUp
  <2>4. \A v \in Up : upState'[v] = "unused" => upState[v] = "unused"
    BY <1>2 DEF LoseUp, PendingInv, Shape, UpShape
  <2>5. /\ FirstAsks(toProxy'[u]) /\ Speaks(toProxy'[u]) \subseteq Speaks(toProxy[u])
        /\ Asks(toProxy'[u]) \subseteq Asks(toProxy[u])
    BY <1>0, <2>2, QueuePrefix DEF PendingInv, LinkInv, QueueInv
  <2>6. QueueInv'
    BY <2>2, <2>3, <2>5 DEF PendingInv, LinkInv, QueueInv, Unread
  <2>7. BusyInv' /\ PendInv'
    BY <2>3 DEF PendingInv, LinkInv, BusyInv, Unread, PendInv, PendingExact
  <2>8. FreshInv'
    BY <2>3, <2>4 DEF PendingInv, LinkInv, FreshInv, Fresh, Unread, Shape, UpShape
  <2> QED
    BY <1>b, <2>3, <2>6, <2>7, <2>8 DEF PendingInv, LinkInv
<1>3. ASSUME NEW r \in Request, Abandon(r) PROVE PendingInv'
  <2> DEFINE u == asked[r].on
             m == [type |-> "cancel", req |-> r]
  <2>1. u \in Up /\ m \in Order
    BY <1>3 DEF Abandon, PendingInv, Shape, UpShape, Order
  <2>2. /\ toProxy'[u] = Append(toProxy[u], m)
        /\ \A v \in Up \ {u} : toProxy'[v] = toProxy[v]
        /\ UNCHANGED <<dial, current, link, pending, busy, upState, run, forwarded, settled, toAgent, inbox>>
    BY <1>3, <2>1 DEF Abandon, PendingInv, Shape, UpShape
  <2>3. \A s \in Request : asked'[s].on = asked[s].on
    BY <1>3 DEF Abandon, PendingInv, Shape, UpShape
  <2>4. /\ FirstAsks(toProxy'[u]) /\ Speaks(toProxy'[u]) \subseteq Speaks(toProxy[u]) \cup {r}
        /\ Asks(toProxy'[u]) \subseteq Asks(toProxy[u])
    <3>1. m.type # "request" /\ m.req = r
      OBVIOUS
    <3>2. FirstAsks(toProxy[u]) /\ toProxy[u] \in Seq(Order)
      BY <1>0, <2>1 DEF PendingInv, LinkInv, QueueInv
    <3> HIDE DEF m, u
    <3> QED
      BY <2>1, <2>2, <3>1, <3>2, QueueAppend
  <2>5. \A v \in Up : Speaks(toProxy[v]) \subseteq Request
    <3>1. \A v \in Up : \A i \in 1 .. Len(toProxy[v]) : toProxy[v][i] \in Order
      BY <1>0, ElementOfSeq
    <3> QED
      BY <3>1 DEF Speaks, Order
  <2>a. \A s \in Request : Unread(s)' <=> Unread(s)
    BY <2>2 DEF Unread
  <2> HIDE DEF u, m
  <2>6. QueueInv'
    <3>1. FirstAsks(toProxy'[u]) /\ \A s \in Speaks(toProxy'[u]) : asked'[s].on = u
      <4>1. \A s \in Speaks(toProxy'[u]) : s \in Request /\ asked[s].on = u
        BY <2>1, <2>4, <2>5 DEF PendingInv, LinkInv, QueueInv, u
      <4> QED
        BY <2>3, <2>4, <4>1
    <3>2. \A s \in Asks(toProxy'[u]) : Unread(s)' /\ (busy' # None => busy'.req # s)
      BY <2>1, <2>2, <2>4, <2>5, <2>a, AskedIsSpokenOf DEF PendingInv, LinkInv, QueueInv
    <3>3. ASSUME NEW v \in Up \ {u}
          PROVE  /\ FirstAsks(toProxy'[v]) /\ \A s \in Speaks(toProxy'[v]) : asked'[s].on = v
                 /\ \A s \in Asks(toProxy'[v]) : Unread(s)' /\ (busy' # None => busy'.req # s)
      BY <2>2, <2>3, <2>5, <2>a, AskedIsSpokenOf DEF PendingInv, LinkInv, QueueInv
    <3> QED
      BY <3>1, <3>2, <3>3 DEF QueueInv
  <2>7. BusyInv' /\ PendInv'
    BY <2>2, <2>3 DEF PendingInv, LinkInv, BusyInv, Unread, PendInv, PendingExact, Shape, UpShape, Jobs
  <2>8. FreshInv'
    BY <2>2, <2>3 DEF PendingInv, LinkInv, FreshInv, Fresh, Unread
  <2> QED
    BY <1>b, <2>2, <2>6, <2>7, <2>8 DEF PendingInv, LinkInv
<1>4. ASSUME NEW r \in Request, NEW u \in Up, Ask(r, u) PROVE PendingInv'
  <2> DEFINE m == [type |-> "request", req |-> r]
  <2>1. asked[r].on = None /\ m \in Order
    BY <1>4 DEF Ask, Order
  <2>2. /\ toProxy'[u] = Append(toProxy[u], m)
        /\ \A v \in Up \ {u} : toProxy'[v] = toProxy[v]
        /\ asked'[r].on = u
        /\ \A s \in Request \ {r} : asked'[s] = asked[s]
        /\ UNCHANGED <<dial, current, link, pending, busy, upState, run, forwarded, settled, toAgent, inbox>>
    BY <1>4 DEF Ask, PendingInv, Shape, UpShape
  <2>3. Unread(r) /\ \A v \in Up : r \notin Speaks(toProxy[v])
    BY <2>1 DEF PendingInv, LinkInv, QueueInv, FreshInv, Fresh
  <2>4. busy # None => busy.req \in Request /\ busy.req # r
    BY <2>1 DEF PendingInv, LinkInv, BusyInv, DialInv, Shape, UpShape, Jobs
  <2>5. /\ FirstAsks(toProxy'[u]) /\ Speaks(toProxy'[u]) \subseteq Speaks(toProxy[u]) \cup {r}
        /\ Asks(toProxy'[u]) \subseteq Asks(toProxy[u]) \cup {r}
    <3>1. m.type = "request" /\ m.req = r
      OBVIOUS
    <3>2. FirstAsks(toProxy[u]) /\ toProxy[u] \in Seq(Order)
      BY <1>0 DEF PendingInv, LinkInv, QueueInv
    <3> HIDE DEF m
    <3> QED
      BY <2>1, <2>2, <2>3, <3>1, <3>2, QueueAppend
  <2>6. \A v \in Up : Speaks(toProxy[v]) \subseteq Request
    <3>1. \A v \in Up : \A i \in 1 .. Len(toProxy[v]) : toProxy[v][i] \in Order
      BY <1>0, ElementOfSeq
    <3> QED
      BY <3>1 DEF Speaks, Order
  <2>a. \A s \in Request : Unread(s)' <=> Unread(s)
    BY <2>2 DEF Unread
  <2> HIDE DEF m
  <2>7. QueueInv'
    <3>1. FirstAsks(toProxy'[u]) /\ \A s \in Speaks(toProxy'[u]) : asked'[s].on = u
      BY <2>2, <2>5, <2>6 DEF PendingInv, LinkInv, QueueInv
    <3>2. \A s \in Asks(toProxy'[u]) : Unread(s)' /\ (busy' # None => busy'.req # s)
      <4>1. \A s \in Asks(toProxy'[u]) \ {r} : s \in Request /\ Unread(s) /\ (busy # None => busy.req # s)
        BY <2>5, <2>6, AskedIsSpokenOf DEF PendingInv, LinkInv, QueueInv
      <4> QED
        BY <2>2, <2>3, <2>4, <2>a, <4>1
    <3>3. ASSUME NEW v \in Up \ {u}
          PROVE  /\ FirstAsks(toProxy'[v]) /\ \A s \in Speaks(toProxy'[v]) : asked'[s].on = v
                 /\ \A s \in Asks(toProxy'[v]) : Unread(s)' /\ (busy' # None => busy'.req # s)
      BY <2>2, <2>3, <2>6, <2>a, AskedIsSpokenOf DEF PendingInv, LinkInv, QueueInv
    <3> QED
      BY <3>1, <3>2, <3>3 DEF QueueInv
  <2>8. BusyInv'
    BY <2>2, <2>4 DEF PendingInv, LinkInv, BusyInv, Unread
  <2>9. PendInv'
    BY <2>2, <2>3, <2>4 DEF PendingInv, PendInv, PendingExact, Unread
  <2>10. FreshInv'
    BY <2>2, <2>3 DEF PendingInv, LinkInv, FreshInv, Fresh, Unread
  <2> QED
    BY <1>b, <2>2, <2>7, <2>8, <2>9, <2>10 DEF PendingInv, LinkInv
<1> QED
  BY <1>1, <1>2, <1>3, <1>4 DEF CenterStep

(* The dialer takes the first message off its queue. *)
LEMMA ReadsQueue ==
  ASSUME PendingInv, NEW type, Reads(type), UNCHANGED asked
  PROVE  /\ \A u \in Up : /\ FirstAsks(toProxy'[u])
                          /\ Speaks(toProxy'[u]) \subseteq Speaks(toProxy[u])
                          /\ Asks(toProxy'[u]) \subseteq Asks(toProxy[u])
                          /\ Head(toProxy[current]).req \notin Asks(toProxy'[u])
         /\ asked[Head(toProxy[current]).req].on = current
         /\ type = "request" => Unread(Head(toProxy[current]).req)
<1> DEFINE q == toProxy[current]
           h == Head(toProxy[current])
<1>1. /\ current \in Up /\ q \in Seq(Order) /\ q # <<>> /\ h.type = type
      /\ toProxy'[current] = Tail(q) /\ \A u \in Up \ {current} : toProxy'[u] = toProxy[u]
  BY ReadsShape DEF PendingInv
<1>2. FirstAsks(q)
  BY <1>1 DEF PendingInv, LinkInv, QueueInv
<1>3. /\ FirstAsks(Tail(q)) /\ Speaks(Tail(q)) \subseteq Speaks(q) /\ Asks(Tail(q)) \subseteq Asks(q)
      /\ h.req \in Speaks(q) /\ h.req \notin Asks(Tail(q))
      /\ h.type = "request" => h.req \in Asks(q)
  BY <1>1, <1>2, QueueTail
<1>4. asked[h.req].on = current /\ (type = "request" => Unread(h.req))
  BY <1>1, <1>3 DEF PendingInv, LinkInv, QueueInv
<1>5. \A u \in Up \ {current} : h.req \notin Asks(toProxy[u])
  BY <1>1, <1>4, AskedIsSpokenOf DEF PendingInv, LinkInv, QueueInv
<1> HIDE DEF q, h
<1>6. \A u \in Up : FirstAsks(toProxy[u])
  BY DEF PendingInv, LinkInv, QueueInv
<1> QED
  BY <1>1, <1>3, <1>4, <1>5, <1>6 DEF q, h

(* OnMessage. *)
LEMMA MessagePending ==
  ASSUME PendingInv, Shape', DialInv',
         NotFound \/ StoreRequest \/ ForwardRequest \/ ForwardFails \/ DeliverCancel
  PROVE  PendingInv'
<1> USE DEF dialerVars, upVars, downVars, proxyVars, belowVars, callVars, askVars
<1>b. UNCHANGED <<toAgent, run, forwarded, inbox>> => BelowInv'
  BY DEF PendingInv, LinkInv, BelowInv
<1>f. ASSUME UNCHANGED <<current, upState, asked, forwarded, settled>>,
             dial' \in {"waiting", "acked"} => dial' = dial
      PROVE  FreshInv'
  BY <1>f DEF PendingInv, LinkInv, FreshInv, Fresh, Unread
<1>1. CASE NotFound
  <2>0. /\ Reads("request")
        /\ UNCHANGED <<dial, current, link, upState, busy, pending, asked, run, forwarded, settled, toAgent, inbox>>
    BY <1>1 DEF NotFound
  <2>1. QueueInv'
    BY <2>0, ReadsQueue DEF PendingInv, LinkInv, QueueInv, Unread
  <2>2. BusyInv' /\ PendInv'
    BY <2>0 DEF PendingInv, LinkInv, BusyInv, Unread, PendInv, PendingExact
  <2> QED
    BY <1>b, <1>f, <2>0, <2>1, <2>2 DEF PendingInv, LinkInv
<1>2. CASE StoreRequest
  <2> DEFINE r == Head(toProxy[current]).req
  <2>0. /\ Reads("request")
        /\ pending' = pending \cup {r} /\ dial' = "forwarding"
        /\ UNCHANGED <<current, link, upState, asked, run, forwarded, settled, toAgent, inbox>>
        /\ busy' = [req |-> r, down |-> reg[Target[r]].down]
    BY <1>2 DEF StoreRequest
  <2>1. busy'.req = r /\ busy = None /\ r \in Request /\ link = current /\ current \in Up /\ busy' # None
    BY <2>0, ReadsShape DEF PendingInv, DialInv
  <2>2. asked[r].on = current /\ Unread(r) /\ \A u \in Up : r \notin Asks(toProxy'[u])
    BY <2>0, ReadsQueue
  <2>a. \A u \in Up : /\ FirstAsks(toProxy'[u])
                      /\ Speaks(toProxy'[u]) \subseteq Speaks(toProxy[u])
                      /\ Asks(toProxy'[u]) \subseteq Asks(toProxy[u])
    BY <2>0, ReadsQueue
  <2> HIDE DEF r
  <2>3. QueueInv'
    BY <2>0, <2>1, <2>2, <2>a DEF PendingInv, LinkInv, QueueInv, Unread
  <2>4. BusyInv'
    BY <2>0, <2>1, <2>2 DEF BusyInv, Unread
  <2>5. PendInv'
    BY <2>0, <2>1, <2>2 DEF PendingInv, PendInv, PendingExact, Unread
  <2> QED
    BY <1>b, <1>f, <2>0, <2>3, <2>4, <2>5 DEF PendingInv, LinkInv
<1>3. CASE ForwardRequest
  <2> DEFINE b == busy.req
             d == busy.down
             m == [type |-> "request", req |-> b]
  <2>0. /\ dial = "forwarding" /\ dial' = "reading" /\ busy' = None
        /\ SendDown(d, m)
        /\ UNCHANGED <<current, link, upState, toProxy, asked, run, settled, pending, inbox>>
    BY <1>3 DEF ForwardRequest
  <2>1. /\ busy # None /\ b \in Request /\ d \in Down /\ link = current /\ current \in Up /\ current # None
        /\ upState[current] # "unused" /\ asked[b].on = current /\ Unread(b)
    BY <2>0 DEF PendingInv, Shape, UpShape, DialInv, Jobs, LinkInv, BusyInv
  <2>2. forwarded'[b] = d /\ d # None /\ \A s \in Request \ {b} : forwarded'[s] = forwarded[s]
    BY <1>3, <2>1 DEF ForwardRequest, PendingInv, Shape, DownShape
  <2>3. m \in ToAgent /\ m.type # "ack" /\ m.req = b
    BY <2>1 DEF ToAgent, Order
  <2>4. \A e \in Down : Told(toAgent'[e]) \subseteq Told(toAgent[e]) \cup {b}
    <3>0. toAgent[d] \in Seq(ToAgent)
      BY <2>1 DEF PendingInv, Shape, DownShape
    <3> HIDE DEF m, b, d
    <3>1. Told(Append(toAgent[d], m)) \subseteq Told(toAgent[d]) \cup {b}
      BY <2>1, <2>3, <3>0, ToldAppend
    <3> QED
      BY <2>0, <2>1, <2>3, <3>1, SendDownShape DEF PendingInv
  <2> HIDE DEF m, d
  <2>5. QueueInv'
    <3>1. \A u \in Up : \A s \in Speaks(toProxy[u]) : s \in Request
      <4>1. \A u \in Up : \A i \in 1 .. Len(toProxy[u]) : toProxy[u][i] \in Order
        BY ElementOfSeq DEF PendingInv, Shape, UpShape
      <4> QED
        BY <4>1 DEF Speaks, Order
    <3> QED
      BY <2>0, <2>1, <2>2, <3>1, AskedIsSpokenOf DEF PendingInv, LinkInv, QueueInv, Unread
  <2> HIDE DEF b
  <2>6. BelowInv'
    <3>1. \A e \in Down : \A s \in Told(toAgent'[e]) : forwarded'[s] # None
      <4>1. ASSUME NEW e \in Down, NEW s \in Told(toAgent[e]) PROVE s \in Request
        <5>1. \A i \in 1 .. Len(toAgent[e]) : toAgent[e][i] \in ToAgent
          BY ElementOfSeq DEF PendingInv, Shape, DownShape
        <5> QED
          BY <4>1, <5>1 DEF Told, ToAgent, Order
      <4>2. \A e \in Down : \A s \in Told(toAgent[e]) : s \in Request /\ forwarded[s] # None
        BY <4>1 DEF PendingInv, LinkInv, BelowInv
      <4> QED
        BY <2>2, <2>4, <4>2
    <3> QED
      BY <2>0, <2>2, <3>1 DEF PendingInv, LinkInv, BelowInv
  <2>7. FreshInv'
    <3>1. \A s \in Request : Fresh(asked[s].on)' => Fresh(asked[s].on)
      BY <2>0 DEF Fresh
    <3>2. \A s \in Request : s = b => ~Fresh(asked[s].on)'
      BY <2>0, <2>1 DEF Fresh
    <3> QED
      BY <2>0, <2>2, <3>1, <3>2 DEF PendingInv, LinkInv, FreshInv, Unread
  <2>8. PendInv' /\ BusyInv'
    <3>1. pending = {r \in Request : (asked[r].on = link /\ forwarded[r] # None /\ r \notin settled) \/ busy.req = r}
      BY <2>1 DEF PendingInv, PendInv, PendingExact
    <3>2. b = busy.req
      BY DEF b
    <3> QED
      BY <2>0, <2>1, <2>2, <3>1, <3>2 DEF PendInv, PendingExact, BusyInv, Unread
  <2> QED
    BY <2>5, <2>6, <2>7, <2>8 DEF PendingInv, LinkInv
<1>4. CASE ForwardFails
  <2>0. /\ dial = "forwarding" /\ dial' = "reading" /\ busy' = None /\ pending' = pending \ {busy.req}
        /\ UNCHANGED <<current, link, upState, toProxy, asked, run, settled, forwarded, toAgent, inbox>>
    BY <1>4 DEF ForwardFails
  <2>1. busy # None /\ link # None /\ Unread(busy.req)
    BY <2>0 DEF PendingInv, Shape, UpShape, DialInv, LinkInv, BusyInv
  <2>2. QueueInv' /\ BusyInv'
    BY <2>0, <2>1 DEF PendingInv, LinkInv, QueueInv, BusyInv, Unread
  <2>3. PendInv'
    BY <2>0, <2>1 DEF PendingInv, PendInv, PendingExact, Unread
  <2> QED
    BY <1>b, <1>f, <2>0, <2>2, <2>3 DEF PendingInv, LinkInv
<1>5. CASE DeliverCancel
  <2> DEFINE r == Head(toProxy[current]).req
             rec == reg[Target[r]]
             m == [type |-> "cancel", req |-> r]
  <2>0. /\ Reads("cancel")
        /\ pending' = pending \ {r} /\ settled' = settled \cup {r}
        /\ UNCHANGED <<dial, current, link, upState, asked, run, forwarded, busy, inbox>>
        /\ IF r \in pending /\ rec # None THEN SendDown(rec.down, m) ELSE UNCHANGED toAgent
    BY <1>5 DEF DeliverCancel
  <2>1. busy = None /\ r \in Request /\ link = current /\ current \in Up /\ link # None /\ dial = "reading"
    BY <2>0, ReadsShape DEF PendingInv
  <2>2. asked[r].on = current /\ \A u \in Up : r \notin Asks(toProxy'[u])
    BY <2>0, ReadsQueue
  <2>3. QueueInv'
    BY <2>0, <2>1, <2>2, ReadsQueue DEF PendingInv, LinkInv, QueueInv, Unread
  <2>4. BelowInv'
    <3>1. CASE ~(r \in pending /\ rec # None)
      BY <1>b, <2>0, <3>1
    <3>2. CASE r \in pending /\ rec # None
      <4>1. forwarded[r] # None
        BY <2>1, <3>2 DEF PendingInv, PendInv, PendingExact
      <4>2. rec.down \in Down /\ m \in ToAgent /\ m.type # "ack" /\ m.req = r
        BY <2>1, <3>2 DEF PendingInv, Shape, DownShape, Records, ToAgent, Order
      <4>3. toAgent[rec.down] \in Seq(ToAgent)
        BY <4>2 DEF PendingInv, Shape, DownShape
      <4>4. SendDown(rec.down, m)
        BY <2>0, <3>2
      <4> HIDE DEF r, rec, m
      <4>5. Told(Append(toAgent[rec.down], m)) \subseteq Told(toAgent[rec.down]) \cup {r}
        BY <4>2, <4>3, ToldAppend
      <4>s. /\ \A e \in Down \ {rec.down} : toAgent'[e] = toAgent[e]
            /\ toAgent'[rec.down] = IF downState[rec.down] \in {"open", "joined"}
                                    THEN Append(toAgent[rec.down], m) ELSE toAgent[rec.down]
        BY <4>2, <4>4, SendDownShape DEF PendingInv
      <4>6. \A e \in Down : Told(toAgent'[e]) \subseteq Told(toAgent[e]) \cup {r}
        BY <4>s, <4>5
      <4>7. \A e \in Down : \A s \in Told(toAgent'[e]) : forwarded'[s] # None
        BY <2>0, <4>1, <4>6 DEF PendingInv, LinkInv, BelowInv
      <4> QED
        BY <2>0, <4>7 DEF PendingInv, LinkInv, BelowInv
    <3> QED
      BY <3>1, <3>2
  <2> HIDE DEF r, rec, m
  <2>5. FreshInv'
    BY <2>0, <2>1, <2>2 DEF PendingInv, LinkInv, FreshInv, Fresh, Unread, DialInv
  <2>6. PendInv' /\ BusyInv'
    BY <2>0, <2>1 DEF PendingInv, PendInv, PendingExact, BusyInv
  <2> QED
    BY <2>3, <2>4, <2>5, <2>6 DEF PendingInv, LinkInv
<1> QED
  BY <1>1, <1>2, <1>3, <1>4, <1>5

(* The steps of a handler. *)
LEMMA HandlerPending ==
  ASSUME PendingInv, Shape', DialInv', NEW d \in Down, HandlerStep(d)
  PROVE  PendingInv'
<1> USE DEF dialerVars, upVars, downVars, proxyVars, belowVars, callVars, askVars
<1>1. ASSUME NEW r \in Request, ReadAnswer(d, r) PROVE PendingInv'
  <2>0. /\ Answer(r) \in inbox[d] /\ pending' = pending \ {r} /\ settled' = settled \cup {r}
        /\ UNCHANGED <<dial, current, link, upState, toProxy, asked, run, forwarded, busy, toAgent>>
    BY <1>1 DEF ReadAnswer, Takes, Answer
  <2>1. ~Unread(r)
    BY <2>0 DEF PendingInv, LinkInv, BelowInv, Unread
  <2>2. QueueInv' /\ BusyInv' /\ FreshInv'
    BY <2>0, <2>1 DEF PendingInv, LinkInv, QueueInv, BusyInv, FreshInv, Fresh, Unread
  <2>3. \A e \in Down : inbox'[e] \subseteq inbox[e]
    BY <1>1 DEF ReadAnswer, Takes, PendingInv, Shape, DownShape
  <2>4. BelowInv'
    BY <2>0, <2>3 DEF PendingInv, LinkInv, BelowInv
  <2>5. PendInv'
    BY <2>0, <2>1 DEF PendingInv, LinkInv, BusyInv, PendInv, PendingExact, Unread
  <2> QED
    BY <2>2, <2>4, <2>5 DEF PendingInv, LinkInv
<1>2. CASE AckClient(d)
  <2> DEFINE m == [type |-> "ack"]
  <2>0. SendDown(d, m) /\ m \in ToAgent /\ m.type = "ack"
    BY <1>2 DEF AckClient, ToAgent
  <2>1. UNCHANGED <<dial, current, link, upState, toProxy, pending, busy, asked, run, forwarded, settled, inbox>>
    BY <1>2 DEF AckClient
  <2>2. toAgent[d] \in Seq(ToAgent)
    BY DEF PendingInv, Shape, DownShape
  <2> HIDE DEF m
  <2>3. Told(Append(toAgent[d], m)) \subseteq Told(toAgent[d])
    BY <2>0, <2>2, ToldAppend
  <2>4. \A e \in Down : Told(toAgent'[e]) \subseteq Told(toAgent[e])
    BY <2>0, <2>3, SendDownShape DEF PendingInv
  <2>5. BelowInv'
    BY <2>1, <2>4 DEF PendingInv, LinkInv, BelowInv
  <2> QED
    BY <2>1, <2>5, Elsewhere
<1>3. CASE ~AckClient(d) /\ ~\E r \in Request : ReadAnswer(d, r)
  <2>1. UNCHANGED <<dial, current, link, upState, toProxy, pending, busy, asked, run, forwarded, settled, toAgent>>
    BY <1>3 DEF HandlerStep, RegisterClient, RejectClient, AckFails, ForwardRegistration, ReadBeat,
                IgnoreRegistration, CloseClient, Takes
  <2>2. \A e \in Down : inbox'[e] \subseteq inbox[e]
    <3>1. ASSUME NEW m, Takes(d, m) PROVE \A e \in Down : inbox'[e] \subseteq inbox[e]
      BY <3>1 DEF Takes, PendingInv, Shape, DownShape
    <3>2. inbox' = inbox \/ \E m : Takes(d, m)
      <4>1. ReadBeat(d) => Takes(d, [type |-> "beat"])
        BY DEF ReadBeat
      <4>2. \A h : IgnoreRegistration(d, h) => Takes(d, [type |-> "register", host |-> h])
        BY DEF IgnoreRegistration
      <4>3. CASE ReadBeat(d) \/ \E h \in Client : IgnoreRegistration(d, h)
        BY <4>1, <4>2, <4>3
      <4>4. CASE ~(ReadBeat(d) \/ \E h \in Client : IgnoreRegistration(d, h))
        BY <1>3, <4>4 DEF HandlerStep, RegisterClient, RejectClient, AckFails, ForwardRegistration,
                          CloseClient
      <4> QED
        BY <4>3, <4>4
    <3> QED
      BY <3>1, <3>2
  <2>3. BelowInv'
    BY <2>1, <2>2 DEF PendingInv, LinkInv, BelowInv
  <2> QED
    BY <2>1, <2>3, Elsewhere
<1> QED
  BY <1>1, <1>2, <1>3

(* The steps of a client. *)
LEMMA ClientPending ==
  ASSUME PendingInv, Shape', DialInv', NEW d \in Down, ClientStep(d)
  PROVE  PendingInv'
<1> USE DEF dialerVars, upVars, downVars, proxyVars, belowVars, callVars, askVars
<1>0. UNCHANGED <<dial, current, link, upState, toProxy, pending, busy, asked, forwarded, settled>>
  BY DEF ClientStep, Attach, Leave, Joins, Beat, RegisterNested, Obeys, Answers, Tells
<1>1. CASE Attach(d)
  BY <1>0, <1>1, Elsewhere DEF Attach, PendingInv, LinkInv, BelowInv
<1>2. CASE Leave(d)
  <2>1. \A e \in Down : inbox'[e] \subseteq inbox[e]
    BY <1>2 DEF Leave, PendingInv, Shape, DownShape
  <2>2. \A i \in 1 .. Len(<<>>) : FALSE
    OBVIOUS
  <2>3. \A e \in Down : Told(toAgent'[e]) \subseteq Told(toAgent[e])
    BY <1>2, <2>2 DEF Leave, PendingInv, Shape, DownShape, Told
  <2>4. BelowInv'
    BY <1>0, <1>2, <2>1, <2>3 DEF Leave, PendingInv, LinkInv, BelowInv
  <2> QED
    BY <1>0, <2>4, Elsewhere
<1>3. ASSUME toAgent[d] # <<>>, toAgent' = [toAgent EXCEPT ![d] = Tail(@)]
      PROVE  /\ \A e \in Down : Told(toAgent'[e]) \subseteq Told(toAgent[e])
             /\ Head(toAgent[d]).type # "ack" => Head(toAgent[d]).req \in Told(toAgent[d])
  <2>1. toAgent[d] \in Seq(ToAgent)
    BY DEF PendingInv, Shape, DownShape
  <2>2. /\ Told(Tail(toAgent[d])) \subseteq Told(toAgent[d])
        /\ Head(toAgent[d]).type # "ack" => Head(toAgent[d]).req \in Told(toAgent[d])
    BY <1>3, <2>1, ToldTail
  <2> QED
    BY <1>3, <2>2 DEF PendingInv, Shape, DownShape
<1>4. CASE Joins(d)
  <2>1. BelowInv'
    BY <1>0, <1>3, <1>4 DEF Joins, PendingInv, LinkInv, BelowInv
  <2> QED
    BY <1>0, <2>1, Elsewhere
<1>5. CASE Obeys(d)
  <2> DEFINE m == Head(toAgent[d])
  <2>1. \A r \in Request : run'[r] # "none" => run[r] # "none" \/ (m.type = "request" /\ m.req = r)
    BY <1>5 DEF Obeys, PendingInv, Shape, DownShape
  <2>2. m.type = "request" => forwarded[m.req] # None
    BY <1>3, <1>5 DEF Obeys, PendingInv, LinkInv, BelowInv
  <2>3. BelowInv'
    BY <1>0, <1>3, <1>5, <2>1, <2>2 DEF Obeys, PendingInv, LinkInv, BelowInv
  <2> QED
    BY <1>0, <2>3, Elsewhere
<1>6. CASE Beat(d) \/ \E h \in Client : RegisterNested(d, h)
  <2>1. UNCHANGED <<toAgent, run>>
    BY <1>6 DEF Beat, RegisterNested, Tells
  <2>2. \A e \in Down, r \in Request : Answer(r) \in inbox'[e] => Answer(r) \in inbox[e]
    <3>1. ASSUME NEW m, Tells(d, m), m.type # "answer"
          PROVE  \A e \in Down, r \in Request : Answer(r) \in inbox'[e] => Answer(r) \in inbox[e]
      <4>1. \A r : Answer(r) # m
        BY <3>1 DEF Answer
      <4> HIDE DEF Answer
      <4> QED
        BY <3>1, <4>1 DEF Tells, PendingInv, Shape, DownShape
    <3>2. Beat(d) => Tells(d, [type |-> "beat"])
      BY DEF Beat
    <3>3. \A h : RegisterNested(d, h) => Tells(d, [type |-> "register", host |-> h])
      BY DEF RegisterNested
    <3> QED
      BY <1>6, <3>1, <3>2, <3>3
  <2>3. BelowInv'
    BY <1>0, <2>1, <2>2 DEF PendingInv, LinkInv, BelowInv
  <2> QED
    BY <1>0, <2>3, Elsewhere
<1>7. ASSUME NEW r \in Request, Answers(d, r) PROVE PendingInv'
  <2>1. /\ forwarded[r] # None /\ toAgent' = toAgent
        /\ \A s \in Request \ {r} : run'[s] = run[s]
    BY <1>7 DEF Answers, Tells, PendingInv, LinkInv, BelowInv, Shape, DownShape
  <2>2. \A e \in Down, s \in Request \ {r} : Answer(s) \in inbox'[e] => Answer(s) \in inbox[e]
    BY <1>7 DEF Answers, Tells, Answer, PendingInv, Shape, DownShape
  <2>3. BelowInv'
    BY <1>0, <2>1, <2>2 DEF PendingInv, LinkInv, BelowInv
  <2> QED
    BY <1>0, <2>3, Elsewhere
<1> QED
  BY <1>1, <1>2, <1>4, <1>5, <1>6, <1>7 DEF ClientStep

LEMMA NextPendingInv == PendingInv /\ [Next]_vars => PendingInv'
<1> SUFFICES ASSUME PendingInv, [Next]_vars PROVE PendingInv'
  OBVIOUS
<1>0. Shape' /\ DialInv'
  BY NextShape DEF PendingInv
<1>1. CASE DialerStep
  BY <1>0, <1>1, DialerMoves, MessagePending DEF DialerStep
<1>2. CASE CenterStep
  BY <1>0, <1>2, CenterPending
<1>3. ASSUME NEW d \in Down, HandlerStep(d) \/ ClientStep(d) PROVE PendingInv'
  BY <1>0, <1>3, HandlerPending, ClientPending
<1>4. ASSUME NEW c \in Client, Expire(c) PROVE PendingInv'
  BY <1>0, <1>4, Elsewhere
     DEF Expire, dialerVars, upVars, downVars, callVars, PendingInv, LinkInv, BelowInv
<1>5. CASE UNCHANGED vars
  BY <1>0, <1>5, Elsewhere
     DEF vars, dialerVars, upVars, downVars, proxyVars, belowVars, callVars, PendingInv, LinkInv, BelowInv
<1> QED
  BY <1>1, <1>2, <1>3, <1>4, <1>5 DEF Next, Quiet

LEMMA PendingInvariance == Spec => []PendingInv
  BY InitPendingInv, NextPendingInv, PTL DEF Spec

(* While the proxy is connected, pendingRequests holds the requests of     *)
(* this connection that were forwarded and not settled, and no other.      *)
THEOREM PendingIsExact == Spec => []PendingExact
<1>1. PendingInv => PendingExact
  BY DEF PendingInv, PendInv
<1> QED
  BY <1>1, PendingInvariance, PTL


-----------------------------------------------------------------------------
(* Cancellations behind their requests.                                    *)
(*                                                                         *)
(* A forwarded request has been started, lies on the stream it was sent    *)
(* on, or is lost with that stream; the cancellation is sent on that       *)
(* stream, because a client has at most one that is open.                  *)
Demand(r) == [type |-> "request", req |-> r]

(* Among the first n messages of q is the request r. *)
Ahead(q, r, n) == \E j \in 1 .. n : q[j] = Demand(r)

(* Each cancellation in q comes after its request, unless that is in D. *)
Ordered(q, D) == \A i \in 1 .. Len(q) :
  q[i].type = "cancel" => q[i].req \in D \/ Ahead(q, q[i].req, i - 1)

Done == {r \in Request : run[r] # "none" \/ (forwarded[r] # None /\ downState[forwarded[r]] = "gone")}
InOrder == \A d \in Down : Ordered(toAgent[d], Done)
SentOn == \A r \in Request : forwarded[r] # None =>
  /\ ClientOf[forwarded[r]] = Target[r] /\ downState[forwarded[r]] # "unused"
  /\ r \in Done \/ Ahead(toAgent[forwarded[r]], r, Len(toAgent[forwarded[r]]))
JobInv == busy # None => ClientOf[busy.down] = Target[busy.req] /\ downState[busy.down] # "unused"
Live == {"open", "joined"}
OneLive == \A d, e \in Down :
  ClientOf[d] = ClientOf[e] /\ downState[d] \in Live /\ downState[e] \in Live => d = e
CancelInv == InOrder /\ SentOn /\ JobInv /\ OneLive

LEMMA OrderedGrows ==
  ASSUME NEW q, NEW D, NEW E, D \subseteq E, Ordered(q, D)
  PROVE  Ordered(q, E)
  BY DEF Ordered

LEMMA OrderedEmpty == ASSUME NEW D PROVE Ordered(<<>>, D)
  BY DEF Ordered

(* A message that comes last keeps what is ahead, and is behind it all. *)
LEMMA AheadInAppend ==
  ASSUME NEW q \in Seq(ToAgent), NEW m \in ToAgent, NEW r, NEW n \in 0 .. Len(q), Ahead(q, r, n)
  PROVE  Ahead(Append(q, m), r, n)
<1>1. PICK j \in 1 .. n : q[j] = Demand(r)
  BY DEF Ahead
<1>2. Append(q, m)[j] = q[j]
  BY AppendProperties, LenProperties
<1> QED
  BY <1>1, <1>2 DEF Ahead

LEMMA AheadWhole ==
  ASSUME NEW q \in Seq(ToAgent), NEW m \in ToAgent, NEW r,
         Ahead(q, r, Len(q)) \/ m = Demand(r)
  PROVE  Ahead(Append(q, m), r, Len(Append(q, m)))
<1>1. /\ Append(q, m)[Len(q) + 1] = m /\ Len(q) \in Nat /\ Len(Append(q, m)) = Len(q) + 1
      /\ \A i \in 1 .. Len(q) : Append(q, m)[i] = q[i]
  BY AppendProperties, LenProperties
<1>2. Len(q) + 1 \in 1 .. Len(q) + 1 /\ \A i \in 1 .. Len(q) : i \in 1 .. Len(q) + 1
  BY <1>1
<1> QED
  BY <1>1, <1>2 DEF Ahead

LEMMA OrderedAppend ==
  ASSUME NEW q \in Seq(ToAgent), NEW m \in ToAgent, NEW D, Ordered(q, D),
         m.type = "cancel" => m.req \in D \/ Ahead(q, m.req, Len(q))
  PROVE  Ordered(Append(q, m), D)
<1> DEFINE p == Append(q, m)
<1>1. /\ Len(p) = Len(q) + 1 /\ p[Len(q) + 1] = m /\ Len(q) \in Nat
      /\ \A i \in 1 .. Len(q) : p[i] = q[i]
  BY AppendProperties, LenProperties
<1> SUFFICES ASSUME NEW i \in 1 .. Len(p), p[i].type = "cancel", p[i].req \notin D
             PROVE  Ahead(p, p[i].req, i - 1)
  BY DEF Ordered
<1>2. PICK n \in 0 .. Len(q) : n = i - 1
  BY <1>1
<1>3. Ahead(q, p[i].req, n)
  <2>1. CASE i = Len(q) + 1
    BY <1>1, <1>2, <2>1
  <2>2. CASE i # Len(q) + 1
    <3>1. i \in 1 .. Len(q)
      BY <1>1, <2>2
    <3> QED
      BY <1>1, <1>2, <3>1 DEF Ordered
  <2> QED
    BY <2>1, <2>2
<1>4. Ahead(p, p[i].req, n)
  BY <1>3, AheadInAppend
<1> QED
  BY <1>2, <1>4

(* When the head goes, only the request it was loses what is ahead. *)
LEMMA AheadInTail ==
  ASSUME NEW q \in Seq(ToAgent), q # <<>>, NEW r, NEW n \in 1 .. Len(q), Ahead(q, r, n),
         Head(q) # Demand(r)
  PROVE  Ahead(Tail(q), r, n - 1)
<1>1. /\ Len(Tail(q)) = Len(q) - 1 /\ Head(q) = q[1] /\ Len(q) \in Nat
      /\ \A i \in 1 .. Len(Tail(q)) : Tail(q)[i] = q[i + 1]
  BY HeadTailType
<1>2. PICK j \in 1 .. n : q[j] = Demand(r)
  BY DEF Ahead
<1>3. j # 1
  BY <1>1, <1>2
<1>a. j \in Nat /\ n \in Nat /\ 1 <= j /\ j <= n
  BY <1>1
<1>4. PICK k \in 1 .. n - 1 : j = k + 1
  <2>1. j - 1 \in 1 .. n - 1 /\ j = (j - 1) + 1
    BY <1>a, <1>3
  <2> QED
    BY <2>1
<1>5. Tail(q)[k] = q[j]
  BY <1>1, <1>4
<1> QED
  BY <1>2, <1>4, <1>5 DEF Ahead

LEMMA OrderedTail ==
  ASSUME NEW q \in Seq(ToAgent), q # <<>>, NEW D, Ordered(q, D),
         Head(q).type = "request" => Head(q).req \in D
  PROVE  Ordered(Tail(q), D)
<1>1. /\ Len(Tail(q)) = Len(q) - 1 /\ Len(q) \in Nat
      /\ \A i \in 1 .. Len(Tail(q)) : Tail(q)[i] = q[i + 1]
  BY HeadTailType
<1> SUFFICES ASSUME NEW i \in 1 .. Len(Tail(q)), Tail(q)[i].type = "cancel",
                    Tail(q)[i].req \notin D
             PROVE  Ahead(Tail(q), Tail(q)[i].req, i - 1)
  BY DEF Ordered
<1>2. i + 1 \in 1 .. Len(q) /\ i \in 1 .. Len(q) /\ (i + 1) - 1 = i /\ Tail(q)[i] = q[i + 1]
  BY <1>1
<1>3. Ahead(q, q[i + 1].req, i)
  BY <1>2 DEF Ordered
<1>4. Head(q) # Demand(q[i + 1].req)
  BY <1>2 DEF Demand
<1> QED
  BY <1>2, <1>3, <1>4, AheadInTail

-----------------------------------------------------------------------------
LEMMA InitCancelInv == Init => CancelInv
<1> SUFFICES ASSUME Init PROVE CancelInv
  OBVIOUS
<1>1. InOrder
  BY OrderedEmpty DEF Init, InOrder
<1> QED
  BY <1>1 DEF Init, CancelInv, SentOn, JobInv, OneLive, Live

(* What is started or lost remains so. *)
LEMMA DoneGrows ==
  ASSUME Shape, \A r \in Request : run[r] # "none" => run'[r] # "none",
         \A d \in Down : downState[d] = "gone" => downState'[d] = "gone",
         \A r \in Request : forwarded[r] # None => forwarded'[r] = forwarded[r]
  PROVE  Done \subseteq Done'
  BY DEF Done, Shape, DownShape

(* A message m goes out on stream d. *)
LEMMA Sent ==
  ASSUME Shape, CancelInv, NEW d \in Down, NEW m \in ToAgent, SendDown(d, m),
         UNCHANGED <<run, downState>>, Done \subseteq Done',
         \A r \in Request : forwarded'[r] = forwarded[r] \/ (forwarded'[r] = d /\ m = Demand(r)),
         \A r \in Request : forwarded'[r] # forwarded[r] => ClientOf[d] = Target[r],
         downState[d] # "unused",
         m.type = "cancel" /\ downState[d] \in Live =>
           m.req \in Done \/ Ahead(toAgent[d], m.req, Len(toAgent[d]))
  PROVE  InOrder' /\ SentOn'
<1>1. /\ \A e \in Down \ {d} : toAgent'[e] = toAgent[e]
      /\ toAgent'[d] = IF downState[d] \in Live THEN Append(toAgent[d], m) ELSE toAgent[d]
  BY SendDownShape DEF Live
<1>2. toAgent[d] \in Seq(ToAgent) /\ (downState[d] \in Live \/ downState[d] = "gone")
  BY DEF Shape, DownShape, Live
<1>3. \A e \in Down : Ordered(toAgent[e], Done')
  BY OrderedGrows DEF CancelInv, InOrder
<1>4. downState[d] \in Live => Ordered(Append(toAgent[d], m), Done')
  BY <1>2, <1>3, OrderedAppend
<1>5. InOrder'
  BY <1>1, <1>3, <1>4 DEF InOrder
<1>6. SentOn'
  <2> SUFFICES ASSUME NEW r \in Request, forwarded'[r] # None
               PROVE  /\ ClientOf[forwarded'[r]] = Target[r] /\ downState'[forwarded'[r]] # "unused"
                      /\ r \in Done' \/ Ahead(toAgent'[forwarded'[r]], r, Len(toAgent'[forwarded'[r]]))
    BY DEF SentOn
  <2>1. CASE forwarded'[r] = forwarded[r]
    <3>1. /\ forwarded[r] \in Down /\ ClientOf[forwarded[r]] = Target[r]
          /\ downState'[forwarded[r]] # "unused"
      BY <2>1 DEF CancelInv, SentOn, Shape, DownShape
    <3>2. CASE r \in Done
      BY <2>1, <3>1, <3>2
    <3>3. CASE r \notin Done
      <4>1. Ahead(toAgent[forwarded[r]], r, Len(toAgent[forwarded[r]]))
        BY <2>1, <3>3 DEF CancelInv, SentOn
      <4>2. CASE forwarded[r] = d /\ downState[d] \in Live
        <5>1. Ahead(Append(toAgent[d], m), r, Len(Append(toAgent[d], m)))
          BY <1>2, <4>1, <4>2, AheadWhole
        <5> QED
          BY <1>1, <2>1, <3>1, <4>2, <5>1
      <4>3. CASE ~(forwarded[r] = d /\ downState[d] \in Live)
        BY <1>1, <2>1, <3>1, <4>1, <4>3
      <4> QED
        BY <4>2, <4>3
    <3> QED
      BY <3>2, <3>3
  <2>2. CASE forwarded'[r] # forwarded[r]
    <3>1. forwarded'[r] = d /\ m = Demand(r) /\ ClientOf[d] = Target[r]
      BY <2>2
    <3>2. CASE downState[d] \in Live
      <4>1. Ahead(Append(toAgent[d], m), r, Len(Append(toAgent[d], m)))
        BY <1>2, <3>1, AheadWhole
      <4> QED
        BY <1>1, <3>1, <3>2, <4>1
    <3>3. CASE downState[d] = "gone"
      <4>1. r \in Done'
        BY <3>1, <3>3 DEF Done
      <4> QED
        BY <3>1, <4>1
    <3> QED
      BY <1>2, <3>2, <3>3
  <2> QED
    BY <2>1, <2>2
<1> QED
  BY <1>5, <1>6

(* Stream d loses its first message, or all of them. *)
LEMMA Taken ==
  ASSUME Shape, CancelInv, NEW d \in Down, UNCHANGED forwarded, Done \subseteq Done',
         \A e \in Down : downState[e] # "unused" => downState'[e] # "unused",
         \/ /\ toAgent[d] # <<>> /\ toAgent' = [toAgent EXCEPT ![d] = Tail(@)]
            /\ Head(toAgent[d]).type = "request" => Head(toAgent[d]).req \in Done'
         \/ toAgent' = [toAgent EXCEPT ![d] = <<>>] /\ downState'[d] = "gone"
  PROVE  InOrder' /\ SentOn'
<1> DEFINE q == toAgent[d]
<1>0. q \in Seq(ToAgent)
  BY DEF Shape, DownShape
<1>1. /\ \A e \in Down \ {d} : toAgent'[e] = toAgent[e]
      /\ \/ toAgent'[d] = Tail(q) /\ q # <<>> /\ (Head(q).type = "request" => Head(q).req \in Done')
         \/ toAgent'[d] = <<>> /\ downState'[d] = "gone"
  BY DEF Shape, DownShape
<1>2. \A e \in Down : Ordered(toAgent[e], Done')
  BY OrderedGrows DEF CancelInv, InOrder
<1> HIDE DEF q
<1>3. Ordered(toAgent'[d], Done')
  <2>1. Ordered(q, Done')
    BY <1>2 DEF q
  <2> QED
    BY <1>0, <1>1, <2>1, OrderedTail, OrderedEmpty
<1>4. InOrder'
  BY <1>1, <1>2, <1>3 DEF InOrder
<1>5. SentOn'
  <2> SUFFICES ASSUME NEW r \in Request, forwarded[r] # None
               PROVE  /\ ClientOf[forwarded[r]] = Target[r] /\ downState'[forwarded[r]] # "unused"
                      /\ r \in Done' \/ Ahead(toAgent'[forwarded[r]], r, Len(toAgent'[forwarded[r]]))
    BY DEF SentOn
  <2>1. /\ forwarded[r] \in Down /\ ClientOf[forwarded[r]] = Target[r]
        /\ downState'[forwarded[r]] # "unused"
        /\ r \in Done \/ Ahead(toAgent[forwarded[r]], r, Len(toAgent[forwarded[r]]))
    BY DEF CancelInv, SentOn, Shape, DownShape
  <2>2. CASE r \in Done'
    BY <2>1, <2>2
  <2>3. CASE r \notin Done' /\ forwarded[r] # d
    BY <1>1, <2>1, <2>3
  <2>4. CASE r \notin Done' /\ forwarded[r] = d
    <3>1. Ahead(q, r, Len(q))
      BY <2>1, <2>4 DEF q
    <3>2. downState'[d] # "gone"
      BY <2>4 DEF Done
    <3>3. toAgent'[d] = Tail(q) /\ q # <<>> /\ Head(q) # Demand(r)
      BY <1>1, <2>4, <3>2 DEF Demand
    <3>4. Len(q) \in 1 .. Len(q) /\ Len(Tail(q)) = Len(q) - 1
      BY <1>0, <3>3, HeadTailType
    <3>5. Ahead(Tail(q), r, Len(Tail(q)))
      BY <1>0, <3>1, <3>3, <3>4, AheadInTail
    <3> QED
      BY <2>1, <2>4, <3>3, <3>5
  <2> QED
    BY <2>2, <2>3, <2>4
<1> QED
  BY <1>4, <1>5


LEMMA DialerCancel ==
  ASSUME PendingInv, PendingInv', RouteInv, CancelInv, DialerStep PROVE CancelInv'
<1> USE DEF dialerVars, upVars, downVars, proxyVars, belowVars, callVars, askVars
<1>0. Shape /\ UNCHANGED <<run, downState>>
  BY DEF PendingInv, DialerStep, Dial, ReceiveAck, ReceiveRejection, DialFails, SetStream, ReadFails,
         NotFound, StoreRequest, ForwardRequest, ForwardFails, DeliverCancel
<1>1. OneLive'
  BY <1>0 DEF CancelInv, OneLive
<1>2. \A c \in Client : reg[c] # None =>
        reg[c].down \in Down /\ ClientOf[reg[c].down] = c /\ downState[reg[c].down] # "unused"
  BY <1>0 DEF RouteInv, Shape, DownShape, Records
<1>3. ASSUME UNCHANGED <<toAgent, forwarded>> PROVE InOrder' /\ SentOn'
  <2>1. Done' = Done
    BY <1>0, <1>3 DEF Done
  <2> QED
    BY <1>0, <1>3, <2>1 DEF CancelInv, InOrder, SentOn
<1>4. CASE StoreRequest
  <2> DEFINE r == Head(toProxy[current]).req
  <2>1. r \in Request /\ Target[r] \in Client /\ reg[Target[r]] # None
    BY <1>4, ReadsShape DEF StoreRequest, PendingInv
  <2>2. busy' = [req |-> r, down |-> reg[Target[r]].down]
    BY <1>4 DEF StoreRequest
  <2> HIDE DEF r
  <2>3. JobInv'
    BY <1>0, <1>2, <2>1, <2>2 DEF JobInv
  <2> QED
    BY <1>1, <1>3, <1>4, <2>3 DEF StoreRequest, CancelInv
<1>5. CASE ForwardRequest
  <2> DEFINE b == busy.req
             d == busy.down
  <2>1. /\ busy # None /\ busy \in Jobs /\ Unread(b)
        /\ SendDown(d, Demand(b)) /\ forwarded' = [forwarded EXCEPT ![b] = d] /\ busy' = None
    BY <1>5 DEF ForwardRequest, PendingInv, LinkInv, BusyInv, DialInv, Shape, UpShape, Demand
  <2>2. b \in Request /\ d \in Down /\ ClientOf[d] = Target[b] /\ downState[d] # "unused"
    BY <2>1 DEF Jobs, CancelInv, JobInv
  <2>3. Demand(b) \in ToAgent /\ Demand(b).type # "cancel"
    BY <2>2 DEF Demand, ToAgent, Order
  <2>4. forwarded'[b] = d /\ forwarded[b] = None /\ \A r \in Request \ {b} : forwarded'[r] = forwarded[r]
    BY <2>1, <2>2, <1>0 DEF Shape, DownShape, Unread
  <2> HIDE DEF b, d
  <2>5. /\ \A r \in Request : forwarded'[r] = forwarded[r] \/ (forwarded'[r] = d /\ Demand(b) = Demand(r))
        /\ \A r \in Request : forwarded'[r] # forwarded[r] => ClientOf[d] = Target[r]
    BY <2>2, <2>4
  <2>6. \A r \in Request : forwarded[r] # None => forwarded'[r] = forwarded[r]
    BY <2>4
  <2>7. Done \subseteq Done'
    BY <1>0, <2>6, DoneGrows
  <2>8. InOrder' /\ SentOn'
    BY <1>0, <2>1, <2>2, <2>3, <2>5, <2>7, Sent
  <2> QED
    BY <1>1, <2>1, <2>8 DEF CancelInv, JobInv
<1>6. CASE DeliverCancel
  <2> DEFINE r == Head(toProxy[current]).req
             rec == reg[Target[r]]
             m == [type |-> "cancel", req |-> r]
  <2>1. /\ Reads("cancel") /\ UNCHANGED <<busy, forwarded>>
        /\ IF r \in pending /\ rec # None THEN SendDown(rec.down, m) ELSE UNCHANGED toAgent
    BY <1>6 DEF DeliverCancel
  <2>2. busy = None /\ r \in Request /\ link # None /\ Target[r] \in Client
    BY <2>1, ReadsShape DEF PendingInv
  <2>3. JobInv'
    BY <2>1, <2>2 DEF JobInv
  <2>4. InOrder' /\ SentOn'
    <3>1. CASE r \in pending /\ rec # None
      <4> DEFINE d == rec.down
                 e == forwarded[r]
      <4>1. e # None /\ e \in Down /\ ClientOf[e] = Target[r] /\ downState[e] # "unused"
        BY <1>0, <2>2, <3>1 DEF PendingInv, PendInv, PendingExact, CancelInv, SentOn, Shape, DownShape
      <4>2. d \in Down /\ ClientOf[d] = Target[r] /\ downState[d] # "unused"
        BY <1>2, <2>2, <3>1
      <4>3. r \in Done \/ Ahead(toAgent[e], r, Len(toAgent[e]))
        BY <2>2, <4>1 DEF CancelInv, SentOn
      <4>4. m \in ToAgent /\ m.type = "cancel" /\ m.req = r
        BY <2>2 DEF ToAgent, Order
      <4>5. SendDown(d, m)
        BY <2>1, <3>1
      <4>6. Done' = Done
        BY <1>0, <2>1 DEF Done
      <4>7. downState[e] = "gone" => r \in Done
        BY <2>2, <4>1 DEF Done
      <4>8. downState[d] \in Live => r \in Done \/ Ahead(toAgent[d], r, Len(toAgent[d]))
        <5>1. CASE downState[e] \in Live /\ downState[d] \in Live
          <6>1. d = e
            BY <4>1, <4>2, <5>1 DEF CancelInv, OneLive
          <6> QED
            BY <4>3, <6>1
        <5> QED
          BY <1>0, <4>1, <4>7, <5>1 DEF Shape, DownShape, Live
      <4> HIDE DEF d, e, m, r, rec
      <4> QED
        BY <1>0, <2>1, <4>2, <4>4, <4>5, <4>6, <4>8, Sent
    <3>2. CASE ~(r \in pending /\ rec # None)
      BY <1>3, <2>1, <3>2
    <3> QED
      BY <3>1, <3>2
  <2> QED
    BY <1>1, <2>3, <2>4 DEF CancelInv
<1>7. CASE ~(StoreRequest \/ ForwardRequest \/ DeliverCancel)
  <2>1. UNCHANGED <<toAgent, forwarded>> /\ (busy' = busy \/ busy' = None)
    BY <1>7 DEF DialerStep, Dial, ReceiveAck, ReceiveRejection, DialFails, SetStream, ReadFails,
                NotFound, ForwardFails
  <2> QED
    BY <1>0, <1>1, <1>3, <2>1 DEF CancelInv, JobInv
<1> QED
  BY <1>4, <1>5, <1>6, <1>7

LEMMA CenterCancel ==
  ASSUME Shape, CancelInv, UNCHANGED <<belowVars, run, forwarded>> PROVE CancelInv'
<1> USE DEF proxyVars, downVars, belowVars
<1>1. Done' = Done
  BY DEF Done
<1> QED
  BY <1>1 DEF CancelInv, InOrder, SentOn, JobInv, OneLive

LEMMA HandlerCancel ==
  ASSUME Shape, CancelInv, NEW d \in Down, HandlerStep(d) PROVE CancelInv'
<1> USE DEF dialerVars, upVars, downVars, proxyVars, belowVars, callVars, askVars
<1>1. UNCHANGED <<busy, run, forwarded, downState>>
  BY DEF HandlerStep, RegisterClient, RejectClient, AckClient, AckFails, ForwardRegistration,
         ReadBeat, ReadAnswer, IgnoreRegistration, CloseClient, Takes
<1>2. Done' = Done /\ JobInv' /\ OneLive'
  BY <1>1 DEF Done, CancelInv, JobInv, OneLive
<1>3. InOrder' /\ SentOn'
  <2>1. CASE AckClient(d)
    <3>1. SendDown(d, [type |-> "ack"]) /\ handler[d] = "registered"
      BY <2>1 DEF AckClient
    <3>2. CASE downState[d] = "unused"
      <4>1. toAgent' = toAgent
        BY <3>1, <3>2 DEF SendDown
      <4> QED
        BY <1>1, <1>2, <4>1 DEF CancelInv, InOrder, SentOn
    <3>3. CASE downState[d] # "unused"
      <4> DEFINE m == [type |-> "ack"]
      <4>1. m \in ToAgent /\ m.type # "cancel" /\ SendDown(d, m)
        BY <3>1 DEF ToAgent
      <4>2. \A r \in Request : forwarded'[r] = forwarded[r]
        BY <1>1
      <4> HIDE DEF m
      <4> QED
        BY <1>1, <1>2, <3>3, <4>1, <4>2, Sent
    <3> QED
      BY <3>2, <3>3
  <2>2. CASE ~AckClient(d)
    <3>1. toAgent' = toAgent
      BY <2>2 DEF HandlerStep, RegisterClient, RejectClient, AckFails, ForwardRegistration,
         ReadBeat, ReadAnswer, IgnoreRegistration, CloseClient, Takes
    <3> QED
      BY <1>1, <1>2, <3>1 DEF CancelInv, InOrder, SentOn
  <2> QED
    BY <2>1, <2>2
<1> QED
  BY <1>2, <1>3 DEF CancelInv

LEMMA ClientCancel ==
  ASSUME Shape, LinkInv, CancelInv, NEW d \in Down, ClientStep(d) PROVE CancelInv'
<1> USE DEF dialerVars, upVars, downVars, proxyVars, belowVars, callVars, askVars
<1>1. UNCHANGED <<busy, forwarded>>
  BY DEF ClientStep, Attach, Leave, Joins, Beat, RegisterNested, Obeys, Answers, Tells
<1>2. \A r \in Request : run[r] # "none" => run'[r] # "none"
  <2>1. CASE Obeys(d)
    BY <2>1 DEF Obeys, Shape, DownShape
  <2>2. CASE ~Obeys(d)
    BY <2>2 DEF ClientStep, Attach, Leave, Joins, Beat, RegisterNested, Answers, Tells, Shape, DownShape
  <2> QED
    BY <2>1, <2>2
<1>3. \A e \in Down : /\ downState[e] = "gone" => downState'[e] = "gone"
                      /\ downState[e] # "unused" => downState'[e] # "unused"
  BY DEF ClientStep, Attach, Leave, Joins, Beat, RegisterNested, Obeys, Answers, Tells, Shape, DownShape
<1>4. Done \subseteq Done'
  BY <1>1, <1>2, <1>3, DoneGrows
<1>5. JobInv'
  BY <1>1, <1>3 DEF CancelInv, JobInv, Shape, UpShape, Jobs
<1>6. OneLive'
  <2>1. CASE Attach(d)
    <3>1. /\ \A e \in Down : ClientOf[e] = ClientOf[d] => downState[e] \notin Live
          /\ \A e \in Down \ {d} : downState'[e] = downState[e]
      BY <2>1 DEF Attach, Shape, DownShape, Live
    <3> QED
      BY <3>1 DEF CancelInv, OneLive
  <2>2. CASE ~Attach(d)
    <3>1. \A e \in Down : downState'[e] \in Live => downState[e] \in Live
      BY <2>2 DEF ClientStep, Leave, Joins, Beat, RegisterNested, Obeys, Answers, Tells, Live,
                  Shape, DownShape
    <3> QED
      BY <3>1 DEF CancelInv, OneLive
  <2> QED
    BY <2>1, <2>2
<1>7. InOrder' /\ SentOn'
  <2>1. CASE Leave(d)
    <3>1. toAgent' = [toAgent EXCEPT ![d] = <<>>] /\ downState'[d] = "gone"
      BY <2>1 DEF Leave, Shape, DownShape
    <3> QED
      BY <1>1, <1>3, <1>4, <3>1, Taken
  <2>2. CASE Joins(d)
    <3>1. toAgent[d] # <<>> /\ toAgent' = [toAgent EXCEPT ![d] = Tail(@)] /\ Head(toAgent[d]).type # "request"
      BY <2>2 DEF Joins
    <3> QED
      BY <1>1, <1>3, <1>4, <3>1, Taken
  <2>3. CASE Obeys(d)
    <3> DEFINE m == Head(toAgent[d])
    <3>1. toAgent[d] # <<>> /\ toAgent' = [toAgent EXCEPT ![d] = Tail(@)]
      BY <2>3 DEF Obeys
    <3>2. m.type = "request" => m.req \in Done'
      <4>1. m \in ToAgent
        BY <3>1, HeadTailType DEF Shape, DownShape
      <4>2. m.type = "request" => m.req \in Request
        BY <4>1 DEF ToAgent, Order
      <4>3. m.type = "request" => run'[m.req] = "running"
        BY <2>3, <4>2 DEF Obeys, Shape, DownShape
      <4> HIDE DEF m
      <4> QED
        BY <4>2, <4>3 DEF Done
    <3> QED
      BY <1>1, <1>3, <1>4, <3>1, <3>2, Taken
  <2>4. CASE ~(Leave(d) \/ Joins(d) \/ Obeys(d))
    <3>1. toAgent' = toAgent
      BY <2>4 DEF ClientStep, Attach, Beat, RegisterNested, Answers, Tells
    <3>2. \A e \in Down : Ordered(toAgent[e], Done')
      BY <1>4, OrderedGrows DEF CancelInv, InOrder
    <3> QED
      BY <1>1, <1>3, <1>4, <3>1, <3>2 DEF CancelInv, InOrder, SentOn, Shape, DownShape
  <2> QED
    BY <2>1, <2>2, <2>3, <2>4
<1> QED
  BY <1>5, <1>6, <1>7 DEF CancelInv

LEMMA NextCancelInv ==
  PendingInv /\ PendingInv' /\ RouteInv /\ CancelInv /\ [Next]_vars => CancelInv'
<1> SUFFICES ASSUME PendingInv, PendingInv', RouteInv, CancelInv, [Next]_vars PROVE CancelInv'
  OBVIOUS
<1> USE DEF dialerVars, upVars, downVars, proxyVars, belowVars, callVars, askVars
<1>1. CASE DialerStep
  BY <1>1, DialerCancel
<1>2. CASE CenterStep
  <2>1. UNCHANGED <<belowVars, run, forwarded>>
    BY <1>2 DEF CenterStep, CenterAnswers, LoseUp, Ask, Abandon
  <2> QED
    BY <2>1, CenterCancel DEF PendingInv
<1>3. ASSUME NEW d \in Down, HandlerStep(d) \/ ClientStep(d) PROVE CancelInv'
  BY <1>3, HandlerCancel, ClientCancel DEF PendingInv
<1>4. ASSUME UNCHANGED <<busy, downVars, run, forwarded>> PROVE CancelInv'
  <2>1. Done' = Done
    BY <1>4 DEF Done
  <2> QED
    BY <1>4, <2>1 DEF CancelInv, InOrder, SentOn, JobInv, OneLive
<1>5. ASSUME NEW c \in Client, Expire(c) PROVE CancelInv'
  BY <1>4, <1>5 DEF Expire
<1>6. CASE UNCHANGED vars
  BY <1>4, <1>6 DEF vars
<1> QED
  BY <1>1, <1>2, <1>3, <1>5, <1>6 DEF Next, Quiet

(* A cancellation on its way to an agent finds its request started, ahead  *)
(* of it on the same stream, or lost with an older stream.                 *)
THEOREM CancelsFollow == Spec => []CancelFollowsRequest
<1>1. Shape /\ CancelInv => CancelFollowsRequest
  <2> SUFFICES ASSUME Shape, CancelInv, NEW d \in Down, NEW i \in 1 .. Len(toAgent[d]),
                      toAgent[d][i].type = "cancel"
               PROVE  LET r == toAgent[d][i].req
                      IN  \/ run[r] # "none"
                          \/ \E j \in 1 .. i - 1 : toAgent[d][j] = [type |-> "request", req |-> r]
                          \/ forwarded[r] # None /\ downState[forwarded[r]] = "gone"
    BY DEF CancelFollowsRequest
  <2> QED
    BY DEF CancelInv, InOrder, Ordered, Ahead, Done, Demand
<1>2. Spec => []CancelInv
  BY InitCancelInv, NextCancelInv, PendingInvariance, RouteInvariance, PTL DEF Spec
<1> QED
  BY <1>1, <1>2, PendingInvariance, PTL DEF PendingInv
=============================================================================
