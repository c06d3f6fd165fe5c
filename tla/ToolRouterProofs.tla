-------------------------- MODULE ToolRouterProofs --------------------------
(***************************************************************************)
(* Proofs about ToolRouter for any number of agents, streams and calls.    *)
(***************************************************************************)
EXTENDS ToolRouter, SequenceTheorems, TLAPS

USE RouterAssumption

-----------------------------------------------------------------------------
(* What sending a message does to the type of the queues. *)
LEMMA SendDownType ==
  ASSUME TypeOK, NEW s \in Stream, NEW m \in DownMsg, SendDown(s, m)
  PROVE  down' \in [Stream -> Seq(DownMsg)]
<1>1. down[s] \in Seq(DownMsg)
  BY DEF TypeOK
<1>2. Append(down[s], m) \in Seq(DownMsg)
  BY <1>1, AppendProperties
<1> QED
  BY <1>2 DEF SendDown, TypeOK

(* Taking the head off a non-empty sequence over S. *)
LEMMA HeadTailType ==
  ASSUME NEW S, NEW q \in Seq(S), q # <<>>
  PROVE  /\ Head(q) \in S
         /\ Tail(q) \in Seq(S)
         /\ Len(Tail(q)) = Len(q) - 1
         /\ \A i \in 1 .. Len(Tail(q)) : Tail(q)[i] = q[i + 1]
         /\ Head(q) = q[1]
         /\ Len(q) \in Nat \ {0}
  BY HeadTailProperties, EmptySeq, LenProperties

(* The type invariant holds initially. *)
LEMMA InitTypeOK == Init => TypeOK
  BY EmptySeq DEF Init, TypeOK, Outcomes

(* No step of a stream breaks the type invariant. *)
LEMMA StreamStepTypeOK ==
  ASSUME TypeOK, NEW s \in Stream, StreamStep(s)
  PROVE  TypeOK'
<1> USE DEF routerVars, streamVars, agentVars
<1>0. Owner[s] \in Agent
  OBVIOUS
<1>1. CASE Connect(s)
  BY <1>0, <1>1 DEF TypeOK, Connect
<1>2. CASE Break(s)
  <2>1. PICK n \in 0 .. Len(up[s]) : up' = [up EXCEPT ![s] = SubSeq(up[s], 1, n)]
    BY <1>2 DEF Break
  <2>2. up[s] \in Seq(UpMsg)
    BY DEF TypeOK
  <2>3. SubSeq(up[s], 1, n) \in Seq(UpMsg)
    BY <2>2, SubSeqProperties
  <2>4. up' \in [Stream -> Seq(UpMsg)]
    BY <2>1, <2>3 DEF TypeOK
  <2>5. down' \in [Stream -> Seq(DownMsg)]
    BY <1>2, EmptySeq DEF TypeOK, Break
  <2> QED
    BY <1>0, <1>2, <2>4, <2>5 DEF TypeOK, Break
<1>3. CASE CloseAtCenter(s)
  BY <1>3 DEF TypeOK, CloseAtCenter
<1>4. CASE Deliver(s)
  <2>1. up[s] \in Seq(UpMsg) /\ up[s] # <<>>
    BY <1>4 DEF TypeOK, Deliver
  <2>2. Head(up[s]) \in UpMsg /\ Tail(up[s]) \in Seq(UpMsg)
    BY <2>1, HeadTailType
  <2>3. up' \in [Stream -> Seq(UpMsg)]
    BY <1>4, <2>2 DEF TypeOK, Deliver
  <2>4. slot' \in [Call -> UpMsg \union {None}]
    BY <1>4, <2>2 DEF TypeOK, Deliver
  <2> QED
    BY <1>4, <2>3, <2>4 DEF TypeOK, Deliver
<1>5. CASE DispatchRequest(s)
  <2>1. down[s] \in Seq(DownMsg) /\ down[s] # <<>>
    BY <1>5 DEF TypeOK, DispatchRequest
  <2>2. Head(down[s]) \in DownMsg /\ Tail(down[s]) \in Seq(DownMsg)
    BY <2>1, HeadTailType
  <2>3. Head(down[s]).call \in Call /\ Head(down[s]).req \in ReqId
    BY <2>2 DEF DownMsg
  <2> QED
    BY <1>0, <1>5, <2>2, <2>3 DEF TypeOK, DispatchRequest
<1>6. CASE DispatchCancel(s)
  <2>1. down[s] \in Seq(DownMsg) /\ down[s] # <<>>
    BY <1>6 DEF TypeOK, DispatchCancel
  <2>2. Head(down[s]) \in DownMsg /\ Tail(down[s]) \in Seq(DownMsg)
    BY <2>1, HeadTailType
  <2>3. Head(down[s]).req \in ReqId
    BY <2>2 DEF DownMsg
  <2> QED
    BY <1>0, <1>6, <2>2, <2>3 DEF TypeOK, DispatchCancel
<1> QED
  BY <1>1, <1>2, <1>3, <1>4, <1>5, <1>6 DEF StreamStep

(* No step of a call or of its run breaks the type invariant. *)
LEMMA CallStepTypeOK ==
  ASSUME TypeOK, NEW c \in Call, CallStep(c)
  PROVE  TypeOK'
<1> USE DEF routerVars, streamVars, agentVars
<1>0. IdOf(c) \in ReqId /\ Target[c] \in Agent
  BY DEF IdOf
<1>1. CASE Refuse(c)
  BY <1>1 DEF TypeOK, Refuse, Outcomes
<1>2. CASE StorePending(c)
  BY <1>0, <1>2 DEF TypeOK, StorePending
<1>3. CASE SendRequest(c)
  <2>1. [type |-> "request", req |-> IdOf(c), call |-> c] \in DownMsg
    BY <1>0 DEF DownMsg
  <2>2. CASE callStream[c] \in Stream
    BY <1>3, <2>1, <2>2, SendDownType DEF TypeOK, SendRequest
  <2>3. CASE callStream[c] \notin Stream
    <3>1. down' \in [Stream -> Seq(DownMsg)]
      BY <1>3, <2>3 DEF TypeOK, SendRequest, SendDown
    <3> QED
      BY <1>3, <3>1 DEF TypeOK, SendRequest
  <2> QED
    BY <2>2, <2>3
<1>4. CASE SendFails(c)
  BY <1>4 DEF TypeOK, SendFails, Outcomes
<1>5. CASE Receive(c)
  BY <1>5 DEF TypeOK, Receive, UpMsg, Outcomes
<1>6. CASE Expire(c)
  BY <1>6 DEF TypeOK, Expire, Outcomes
<1>7. CASE SendCancel(c)
  <2>1. [type |-> "cancel", req |-> IdOf(c), call |-> c] \in DownMsg
    BY <1>0 DEF DownMsg
  <2>2. CASE callStream[c] \in Stream
    BY <1>7, <2>1, <2>2, SendDownType DEF TypeOK, SendCancel
  <2>3. CASE callStream[c] \notin Stream
    <3>1. down' \in [Stream -> Seq(DownMsg)]
      BY <1>7, <2>3 DEF TypeOK, SendCancel, SendDown
    <3> QED
      BY <1>7, <3>1 DEF TypeOK, SendCancel
  <2> QED
    BY <2>2, <2>3
<1>8. CASE Return(c)
  BY <1>0, <1>8 DEF TypeOK, Return
<1>9. CASE RunAnswers(c)
  <2> DEFINE s == link[Target[c]]
  <2>1. PICK kind \in Answered :
          up' = IF s = None THEN up
                ELSE [up EXCEPT ![s] =
                        Append(@, [kind |-> kind, req |-> IdOf(c), run |-> c])]
    BY <1>9 DEF RunAnswers
  <2>2. CASE s = None
    BY <1>9, <2>1, <2>2 DEF TypeOK, RunAnswers
  <2>3. CASE s # None
    <3>1. s \in Stream
      BY <1>0, <2>3 DEF TypeOK
    <3>2. [kind |-> kind, req |-> IdOf(c), run |-> c] \in UpMsg
      BY <1>0 DEF UpMsg
    <3>3. up[s] \in Seq(UpMsg)
      BY <3>1 DEF TypeOK
    <3>4. Append(up[s], [kind |-> kind, req |-> IdOf(c), run |-> c]) \in Seq(UpMsg)
      BY <3>2, <3>3, AppendProperties
    <3>5. up' \in [Stream -> Seq(UpMsg)]
      BY <2>1, <2>3, <3>1, <3>4 DEF TypeOK
    <3> QED
      BY <1>9, <3>5 DEF TypeOK, RunAnswers
  <2> QED
    BY <2>2, <2>3
<1>10. CASE RunEnds(c)
  BY <1>0, <1>10 DEF TypeOK, RunEnds
<1> QED
  BY <1>1, <1>2, <1>3, <1>4, <1>5, <1>6, <1>7, <1>8, <1>9, <1>10 DEF CallStep

(* Every reachable state has its type. *)
THEOREM TypeCorrect == Spec => []TypeOK
<1>1. TypeOK /\ [Next]_vars => TypeOK'
  <2>1. TypeOK /\ UNCHANGED vars => TypeOK'
    BY DEF TypeOK, vars, routerVars, streamVars, agentVars
  <2>2. TypeOK /\ Quiet => TypeOK'
    BY <2>1 DEF Quiet
  <2> QED
    BY <2>1, <2>2, StreamStepTypeOK, CallStepTypeOK DEF Next
<1> QED
  BY InitTypeOK, <1>1, PTL DEF Spec
-----------------------------------------------------------------------------
(* The inductive invariant.  Every id on the way belongs to the call it    *)
(* was made for, in each of the places a message or a function waits.      *)

(* Answers on their way come from runs that exist, under the run's id. *)
UpIds == \A s \in Stream : \A m \in Messages(up[s]) :
  m.req = IdOf(m.run) /\ run[m.run] # "none"

(* A message in a slot answers the slot's own call. *)
SlotOwn == \A c \in Call :
  slot[c] # None => slot[c].run = c /\ run[c] # "none"

(* A slot and a cancel function are stored under their call's id. *)
PendingIds  == \A r \in ReqId : pending[r] # None => IdOf(pending[r]) = r
CancelFnIds == \A h \in Agent, r \in ReqId :
  cancelFn[h][r] # None => IdOf(cancelFn[h][r]) = r

(* Requests are on a stream of their target, cancels come from calls that  *)
(* returned without an answer; both are under the call's id.               *)
DownIds == \A s \in Stream : \A m \in Messages(down[s]) :
  /\ m.req = IdOf(m.call)
  /\ pc[m.call] \notin {"idle", "stored"}
  /\ m.type = "request" => Owner[s] = Target[m.call]
  /\ m.type = "cancel" =>
       pc[m.call] \in {"returning", "done"} /\ outcome[m.call].kind \in GivenUp

(* A call routes over a stream of its target. *)
RouteOwn ==
  /\ \A h \in Agent : route[h] # None => Owner[route[h]] = h
  /\ \A c \in Call : /\ pc[c] \in {"stored", "waiting", "expired"} => callStream[c] # None
                     /\ callStream[c] # None => Owner[callStream[c]] = Target[c]

(* A call that is under way has no outcome; one that gave up has. *)
OutcomeSet == \A c \in Call :
  /\ pc[c] \in {"idle", "stored", "waiting"} => outcome[c] = [kind |-> "none", run |-> None]
  /\ pc[c] = "expired" => outcome[c].kind \in GivenUp
  /\ pc[c] \in {"returning", "done"} => outcome[c].kind # "none"
  /\ outcome[c].kind \in Answered <=> outcome[c].run # None
  /\ run[c] # "none" => pc[c] # "idle"

IInv ==
  /\ TypeOK /\ UpIds /\ SlotOwn /\ PendingIds /\ CancelFnIds /\ DownIds
  /\ RouteOwn /\ OutcomeSet
  /\ AnswerIsOwn /\ PendingExact /\ OnlyAbandonedRunsStop /\ RunningIsCancelable

-----------------------------------------------------------------------------
(* The messages of a queue after it lost its head, its end or gained one.  *)
LEMMA MessagesOfTail ==
  ASSUME NEW S, NEW q \in Seq(S), q # <<>>
  PROVE  /\ Head(q) \in Messages(q)
         /\ Messages(Tail(q)) \subseteq Messages(q)
  BY HeadTailType DEF Messages

LEMMA MessagesOfAppend ==
  ASSUME NEW S, NEW q \in Seq(S), NEW m \in S
  PROVE  Messages(Append(q, m)) = Messages(q) \union {m}
<1>1. /\ Append(q, m) \in Seq(S)
      /\ Len(Append(q, m)) = Len(q) + 1
      /\ \A i \in 1 .. Len(q) : Append(q, m)[i] = q[i]
      /\ Append(q, m)[Len(q) + 1] = m
      /\ Len(q) \in Nat
  BY AppendProperties, LenProperties
<1> QED
  BY <1>1 DEF Messages

LEMMA MessagesOfPrefix ==
  ASSUME NEW S, NEW q \in Seq(S), NEW n \in 0 .. Len(q)
  PROVE  Messages(SubSeq(q, 1, n)) \subseteq Messages(q)
<1>1. /\ Len(SubSeq(q, 1, n)) = n
      /\ \A i \in 1 .. n : SubSeq(q, 1, n)[i] = q[i]
      /\ Len(q) \in Nat
  BY SubSeqProperties, LenProperties
<1> QED
  BY <1>1 DEF Messages

LEMMA MessagesOfEmpty == Messages(<<>>) = {}
  BY DEF Messages

LEMMA MessagesType ==
  ASSUME NEW S, NEW q \in Seq(S)
  PROVE  Messages(q) \subseteq S
<1>1. \A i \in 1 .. Len(q) : q[i] \in S
  BY ElementOfSeq
<1> QED
  BY <1>1 DEF Messages

(* Only what is sent joins a queue to an agent. *)
LEMMA SendDownMessages ==
  ASSUME TypeOK, NEW s \in Stream, NEW m \in DownMsg, SendDown(s, m), NEW t \in Stream
  PROVE  Messages(down'[t]) \subseteq Messages(down[t]) \union (IF t = s THEN {m} ELSE {})
<1>1. down[s] \in Seq(DownMsg)
  BY DEF TypeOK
<1>2. Messages(Append(down[s], m)) = Messages(down[s]) \union {m}
  BY <1>1, MessagesOfAppend
<1> QED
  BY <1>2 DEF SendDown, TypeOK

-----------------------------------------------------------------------------
LEMMA InitIInv == Init => IInv
<1> SUFFICES ASSUME Init PROVE IInv
  OBVIOUS
<1> USE DEF Init
<1>1. TypeOK
  BY InitTypeOK
<1>2. UpIds /\ DownIds
  BY MessagesOfEmpty DEF UpIds, DownIds
<1>3. SlotOwn /\ PendingIds /\ CancelFnIds /\ RouteOwn
  BY DEF SlotOwn, PendingIds, CancelFnIds, RouteOwn
<1>4. OutcomeSet /\ AnswerIsOwn /\ OnlyAbandonedRunsStop
  BY DEF OutcomeSet, AnswerIsOwn, OnlyAbandonedRunsStop, GivenUp, Answered
<1>5. PendingExact /\ RunningIsCancelable
  BY DEF PendingExact, RunningIsCancelable, IdOf
<1> QED
  BY <1>1, <1>2, <1>3, <1>4, <1>5 DEF IInv

(* No step of a stream breaks the inductive invariant. *)
LEMMA StreamStepIInv ==
  ASSUME IInv, IdsDistinct, NEW s \in Stream, StreamStep(s)
  PROVE  IInv'
<1> USE DEF routerVars, streamVars, agentVars
<1>t. TypeOK /\ TypeOK'
  BY StreamStepTypeOK DEF IInv
<1>q. \A t \in Stream : up[t] \in Seq(UpMsg) /\ down[t] \in Seq(DownMsg)
  BY <1>t DEF TypeOK
<1>1. CASE Connect(s)
  <2>1. UpIds' /\ SlotOwn' /\ PendingIds' /\ CancelFnIds' /\ DownIds'
    BY <1>1 DEF IInv, Connect, UpIds, SlotOwn, PendingIds, CancelFnIds, DownIds
  <2>2. RouteOwn'
    BY <1>1, <1>t DEF IInv, Connect, RouteOwn, TypeOK
  <2>3. OutcomeSet' /\ AnswerIsOwn' /\ PendingExact' /\ OnlyAbandonedRunsStop'
          /\ RunningIsCancelable'
    BY <1>1 DEF IInv, Connect, OutcomeSet, AnswerIsOwn, PendingExact,
                OnlyAbandonedRunsStop, RunningIsCancelable
  <2> QED
    BY <1>t, <2>1, <2>2, <2>3 DEF IInv
<1>2. CASE Break(s)
  <2>1. PICK n \in 0 .. Len(up[s]) : up' = [up EXCEPT ![s] = SubSeq(up[s], 1, n)]
    BY <1>2 DEF Break
  <2>2. \A t \in Stream : Messages(up'[t]) \subseteq Messages(up[t])
    BY <1>t, <1>q, <2>1, MessagesOfPrefix DEF TypeOK
  <2>3. \A t \in Stream : Messages(down'[t]) \subseteq Messages(down[t])
    BY <1>2, <1>t, MessagesOfEmpty DEF Break, TypeOK
  <2>4. UpIds' /\ SlotOwn' /\ PendingIds' /\ CancelFnIds' /\ DownIds'
    BY <1>2, <2>2, <2>3 DEF IInv, Break, UpIds, SlotOwn, PendingIds, CancelFnIds, DownIds
  <2>5. RouteOwn' /\ OutcomeSet' /\ AnswerIsOwn' /\ PendingExact'
          /\ OnlyAbandonedRunsStop' /\ RunningIsCancelable'
    BY <1>2 DEF IInv, Break, RouteOwn, OutcomeSet, AnswerIsOwn, PendingExact,
                OnlyAbandonedRunsStop, RunningIsCancelable
  <2> QED
    BY <1>t, <2>4, <2>5 DEF IInv
<1>3. CASE CloseAtCenter(s)
  <2>1. UpIds' /\ SlotOwn' /\ PendingIds' /\ CancelFnIds' /\ DownIds'
    BY <1>3 DEF IInv, CloseAtCenter, UpIds, SlotOwn, PendingIds, CancelFnIds, DownIds
  <2>2. RouteOwn'
    BY <1>3, <1>t DEF IInv, CloseAtCenter, RouteOwn, TypeOK
  <2>3. OutcomeSet' /\ AnswerIsOwn' /\ PendingExact' /\ OnlyAbandonedRunsStop'
          /\ RunningIsCancelable'
    BY <1>3 DEF IInv, CloseAtCenter, OutcomeSet, AnswerIsOwn, PendingExact,
                OnlyAbandonedRunsStop, RunningIsCancelable
  <2> QED
    BY <1>t, <2>1, <2>2, <2>3 DEF IInv
<1>4. CASE Deliver(s)
  <2> DEFINE m == Head(up[s])
             c == pending[m.req]
  <2>1. m \in Messages(up[s]) /\ m \in UpMsg
    BY <1>4, <1>q, MessagesOfTail, HeadTailType DEF Deliver
  <2>2. \A t \in Stream : Messages(up'[t]) \subseteq Messages(up[t])
    BY <1>4, <1>t, <1>q, MessagesOfTail DEF Deliver, TypeOK
  <2>3. m.req = IdOf(m.run) /\ run[m.run] # "none" /\ m.req \in ReqId /\ m.run \in Call
    BY <2>1 DEF IInv, UpIds, UpMsg
  <2>4. c # None => c = m.run
    BY <1>t, <2>3 DEF IInv, PendingIds, IdsDistinct, TypeOK
  <2>5. SlotOwn'
    BY <1>4, <1>t, <2>3, <2>4 DEF IInv, Deliver, SlotOwn, TypeOK
  <2>6. UpIds' /\ PendingIds' /\ CancelFnIds' /\ DownIds' /\ RouteOwn'
    BY <1>4, <2>2 DEF IInv, Deliver, UpIds, PendingIds, CancelFnIds, DownIds, RouteOwn
  <2>7. OutcomeSet' /\ AnswerIsOwn' /\ PendingExact' /\ OnlyAbandonedRunsStop'
          /\ RunningIsCancelable'
    BY <1>4 DEF IInv, Deliver, OutcomeSet, AnswerIsOwn, PendingExact,
                OnlyAbandonedRunsStop, RunningIsCancelable
  <2> QED
    BY <1>t, <2>5, <2>6, <2>7 DEF IInv
<1>5. CASE DispatchRequest(s)
  <2> DEFINE m == Head(down[s])
  <2>1. m \in Messages(down[s]) /\ m \in DownMsg
    BY <1>5, <1>q, MessagesOfTail, HeadTailType DEF DispatchRequest
  <2>2. \A t \in Stream : Messages(down'[t]) \subseteq Messages(down[t])
    BY <1>5, <1>t, <1>q, MessagesOfTail DEF DispatchRequest, TypeOK
  <2>3. /\ m.req = IdOf(m.call) /\ Owner[s] = Target[m.call] /\ pc[m.call] # "idle"
        /\ m.call \in Call /\ m.req \in ReqId
    BY <1>5, <2>1 DEF IInv, DownIds, DownMsg, DispatchRequest
  <2>4. /\ run' = [run EXCEPT ![m.call] = "running"]
        /\ cancelFn' = [cancelFn EXCEPT ![Owner[s]][m.req] = m.call]
    BY <1>5 DEF DispatchRequest
  <2>5. \A c \in Call : run[c] # "none" => run'[c] # "none"
    BY <1>t, <2>4 DEF TypeOK
  <2>6. UpIds' /\ SlotOwn' /\ DownIds' /\ PendingIds' /\ RouteOwn'
    <3>1. UpIds'
      BY <1>5, <1>q, <2>5, MessagesType DEF IInv, DispatchRequest, UpIds, UpMsg
    <3>2. SlotOwn'
      BY <1>5, <2>5 DEF IInv, DispatchRequest, SlotOwn
    <3>3. DownIds' /\ PendingIds' /\ RouteOwn'
      BY <1>5, <2>2 DEF IInv, DispatchRequest, DownIds, PendingIds, RouteOwn
    <3> QED
      BY <3>1, <3>2, <3>3
  <2>7. CancelFnIds'
    BY <1>t, <2>3, <2>4 DEF IInv, CancelFnIds, TypeOK
  <2>8. RunningIsCancelable'
    BY <1>t, <2>3, <2>4 DEF IInv, RunningIsCancelable, TypeOK, IdsDistinct
  <2>9. OnlyAbandonedRunsStop'
    BY <1>5, <1>t, <2>4 DEF IInv, DispatchRequest, OnlyAbandonedRunsStop, TypeOK
  <2>10. OutcomeSet'
    BY <1>5, <1>t, <2>3, <2>4 DEF IInv, DispatchRequest, OutcomeSet, TypeOK
  <2>11. AnswerIsOwn' /\ PendingExact'
    BY <1>5 DEF IInv, DispatchRequest, AnswerIsOwn, PendingExact
  <2> QED
    BY <1>t, <2>6, <2>7, <2>8, <2>9, <2>10, <2>11 DEF IInv
<1>6. CASE DispatchCancel(s)
  <2> DEFINE m == Head(down[s])
             c == cancelFn[Owner[s]][m.req]
  <2>1. m \in Messages(down[s]) /\ m \in DownMsg
    BY <1>6, <1>q, MessagesOfTail, HeadTailType DEF DispatchCancel
  <2>2. \A t \in Stream : Messages(down'[t]) \subseteq Messages(down[t])
    BY <1>6, <1>t, <1>q, MessagesOfTail DEF DispatchCancel, TypeOK
  <2>3. /\ m.req = IdOf(m.call) /\ outcome[m.call].kind \in GivenUp
        /\ m.call \in Call /\ m.req \in ReqId
    BY <1>6, <2>1 DEF IInv, DownIds, DownMsg, DispatchCancel
  <2>4. /\ run' = IF c # None /\ run[c] = "running"
                  THEN [run EXCEPT ![c] = "stopped"] ELSE run
        /\ cancelFn' = [cancelFn EXCEPT ![Owner[s]][m.req] = None]
    BY <1>6 DEF DispatchCancel
  <2>5. c # None => c = m.call
    BY <1>t, <2>3 DEF IInv, CancelFnIds, IdsDistinct, TypeOK
  <2>6. \A d \in Call : run[d] # "none" <=> run'[d] # "none"
    BY <1>t, <2>4 DEF TypeOK
  <2>7. UpIds' /\ SlotOwn' /\ DownIds' /\ PendingIds' /\ RouteOwn' /\ OutcomeSet'
    <3>1. UpIds'
      BY <1>6, <1>q, <2>6, MessagesType DEF IInv, DispatchCancel, UpIds, UpMsg
    <3>2. SlotOwn' /\ OutcomeSet'
      BY <1>6, <2>6 DEF IInv, DispatchCancel, SlotOwn, OutcomeSet
    <3>3. DownIds' /\ PendingIds' /\ RouteOwn'
      BY <1>6, <2>2 DEF IInv, DispatchCancel, DownIds, PendingIds, RouteOwn
    <3> QED
      BY <3>1, <3>2, <3>3
  <2>8. CancelFnIds'
    BY <1>t, <2>4 DEF IInv, CancelFnIds, TypeOK
  <2>9. OnlyAbandonedRunsStop'
    BY <1>6, <1>t, <2>3, <2>4, <2>5
       DEF IInv, DispatchCancel, OnlyAbandonedRunsStop, TypeOK
  <2>10. RunningIsCancelable'
    <3> SUFFICES ASSUME NEW d \in Call, run'[d] = "running"
                 PROVE  cancelFn'[Target[d]][IdOf(d)] = d
      BY DEF RunningIsCancelable
    <3>1. run[d] = "running" /\ cancelFn[Target[d]][IdOf(d)] = d
      BY <1>t, <2>4 DEF IInv, RunningIsCancelable, TypeOK
    <3>2. ~ (Owner[s] = Target[d] /\ m.req = IdOf(d))
      BY <1>t, <2>4, <3>1 DEF TypeOK
    <3> QED
      BY <1>t, <2>3, <2>4, <3>1, <3>2 DEF TypeOK, IdOf
  <2>11. AnswerIsOwn' /\ PendingExact'
    BY <1>6 DEF IInv, DispatchCancel, AnswerIsOwn, PendingExact
  <2> QED
    BY <1>t, <2>7, <2>8, <2>9, <2>10, <2>11 DEF IInv
<1> QED
  BY <1>1, <1>2, <1>3, <1>4, <1>5, <1>6 DEF StreamStep

(* No step of a call or of its run breaks the inductive invariant. *)
LEMMA CallStepIInv ==
  ASSUME IInv, IdsDistinct, NEW c \in Call, CallStep(c)
  PROVE  IInv'
<1> USE DEF routerVars, streamVars, agentVars
<1>t. TypeOK /\ TypeOK'
  BY CallStepTypeOK DEF IInv
<1>i. /\ \A d \in Call : IdOf(d) \in ReqId /\ (IdOf(d) = IdOf(c) => d = c)
      /\ Target[c] \in Agent
  BY DEF IdOf, IdsDistinct
<1>m. \A t \in Stream : /\ Messages(up[t]) \subseteq UpMsg
                        /\ Messages(down[t]) \subseteq DownMsg
  BY <1>t, MessagesType DEF TypeOK
<1>1. CASE Refuse(c)
  <2>1. UpIds' /\ SlotOwn' /\ PendingIds' /\ CancelFnIds' /\ RunningIsCancelable'
    BY <1>1 DEF IInv, Refuse, UpIds, SlotOwn, PendingIds, CancelFnIds, RunningIsCancelable
  <2>2. RouteOwn' /\ PendingExact'
    BY <1>1, <1>t DEF IInv, Refuse, RouteOwn, PendingExact, TypeOK
  <2>3. DownIds'
    BY <1>1, <1>t, <1>m DEF IInv, Refuse, DownIds, DownMsg, TypeOK
  <2>4. OutcomeSet' /\ AnswerIsOwn' /\ OnlyAbandonedRunsStop'
    BY <1>1, <1>t DEF IInv, Refuse, OutcomeSet, AnswerIsOwn, OnlyAbandonedRunsStop,
                      TypeOK, GivenUp, Answered
  <2> QED
    BY <1>t, <2>1, <2>2, <2>3, <2>4 DEF IInv
<1>2. CASE StorePending(c)
  <2>1. UpIds' /\ SlotOwn' /\ CancelFnIds' /\ RunningIsCancelable' /\ AnswerIsOwn'
          /\ OnlyAbandonedRunsStop'
    BY <1>2 DEF IInv, StorePending, UpIds, SlotOwn, CancelFnIds, RunningIsCancelable,
                AnswerIsOwn, OnlyAbandonedRunsStop
  <2>2. PendingIds' /\ PendingExact'
    BY <1>2, <1>t, <1>i DEF IInv, StorePending, PendingIds, PendingExact, TypeOK
  <2>3. DownIds'
    BY <1>2, <1>t, <1>m DEF IInv, StorePending, DownIds, DownMsg, TypeOK
  <2>4. RouteOwn'
    BY <1>2, <1>t, <1>i DEF IInv, StorePending, RouteOwn, TypeOK
  <2>5. OutcomeSet'
    BY <1>2, <1>t DEF IInv, StorePending, OutcomeSet, TypeOK
  <2> QED
    BY <1>t, <2>1, <2>2, <2>3, <2>4, <2>5 DEF IInv
<1>3. CASE SendRequest(c)
  <2> DEFINE m == [type |-> "request", req |-> IdOf(c), call |-> c]
  <2>1. m \in DownMsg /\ callStream[c] \in Stream /\ Owner[callStream[c]] = Target[c]
    BY <1>3, <1>t, <1>i DEF IInv, SendRequest, RouteOwn, DownMsg, TypeOK
  <2>2. \A t \in Stream : Messages(down'[t]) \subseteq
          Messages(down[t]) \union (IF t = callStream[c] THEN {m} ELSE {})
    <3>1. SendDown(callStream[c], m)
      BY <1>3 DEF SendRequest
    <3> HIDE DEF m
    <3> QED
      BY <1>t, <2>1, <3>1, SendDownMessages
  <2>3. DownIds'
    BY <1>3, <1>t, <1>m, <2>1, <2>2 DEF IInv, SendRequest, DownIds, DownMsg, TypeOK
  <2>4. UpIds' /\ SlotOwn' /\ PendingIds' /\ CancelFnIds' /\ RunningIsCancelable'
          /\ AnswerIsOwn' /\ OnlyAbandonedRunsStop'
    BY <1>3 DEF IInv, SendRequest, UpIds, SlotOwn, PendingIds, CancelFnIds,
                RunningIsCancelable, AnswerIsOwn, OnlyAbandonedRunsStop
  <2>5. RouteOwn' /\ PendingExact' /\ OutcomeSet'
    BY <1>3, <1>t DEF IInv, SendRequest, RouteOwn, PendingExact, OutcomeSet, TypeOK
  <2> QED
    BY <1>t, <2>3, <2>4, <2>5 DEF IInv
<1>4. CASE SendFails(c)
  <2>1. UpIds' /\ SlotOwn' /\ PendingIds' /\ CancelFnIds' /\ RunningIsCancelable'
    BY <1>4 DEF IInv, SendFails, UpIds, SlotOwn, PendingIds, CancelFnIds,
                RunningIsCancelable
  <2>2. RouteOwn' /\ PendingExact'
    BY <1>4, <1>t DEF IInv, SendFails, RouteOwn, PendingExact, TypeOK
  <2>3. DownIds'
    BY <1>4, <1>t, <1>m DEF IInv, SendFails, DownIds, DownMsg, TypeOK
  <2>4. OutcomeSet' /\ AnswerIsOwn' /\ OnlyAbandonedRunsStop'
    BY <1>4, <1>t DEF IInv, SendFails, OutcomeSet, AnswerIsOwn, OnlyAbandonedRunsStop,
                      TypeOK, GivenUp, Answered
  <2> QED
    BY <1>t, <2>1, <2>2, <2>3, <2>4 DEF IInv
<1>5. CASE Receive(c)
  <2>1. slot[c] \in UpMsg /\ slot[c].run = c /\ run[c] # "none" /\ slot[c].kind \in Answered
    BY <1>5, <1>t DEF IInv, Receive, SlotOwn, TypeOK, UpMsg
  <2>2. UpIds' /\ PendingIds' /\ CancelFnIds' /\ RunningIsCancelable'
    BY <1>5 DEF IInv, Receive, UpIds, PendingIds, CancelFnIds, RunningIsCancelable
  <2>3. SlotOwn' /\ RouteOwn' /\ PendingExact'
    BY <1>5, <1>t DEF IInv, Receive, SlotOwn, RouteOwn, PendingExact, TypeOK
  <2>4. DownIds'
    BY <1>5, <1>t, <1>m DEF IInv, Receive, DownIds, DownMsg, TypeOK
  <2>5. OutcomeSet'
    BY <1>5, <1>t, <2>1 DEF IInv, Receive, OutcomeSet, TypeOK, Answered
  <2>6. AnswerIsOwn' /\ OnlyAbandonedRunsStop'
    BY <1>5, <1>t, <2>1 DEF IInv, Receive, OutcomeSet, AnswerIsOwn,
                            OnlyAbandonedRunsStop, TypeOK, GivenUp
  <2> QED
    BY <1>t, <2>2, <2>3, <2>4, <2>5, <2>6 DEF IInv
<1>6. CASE Expire(c)
  <2>1. PICK why \in GivenUp :
          outcome' = [outcome EXCEPT ![c] = [kind |-> why, run |-> None]]
    BY <1>6 DEF Expire
  <2>2. UpIds' /\ SlotOwn' /\ PendingIds' /\ CancelFnIds' /\ RunningIsCancelable'
    BY <1>6 DEF IInv, Expire, UpIds, SlotOwn, PendingIds, CancelFnIds, RunningIsCancelable
  <2>3. RouteOwn' /\ PendingExact'
    BY <1>6, <1>t DEF IInv, Expire, RouteOwn, PendingExact, TypeOK
  <2>4. DownIds'
    BY <1>6, <1>t, <1>m, <2>1 DEF IInv, Expire, DownIds, DownMsg, TypeOK
  <2>5. OutcomeSet' /\ AnswerIsOwn' /\ OnlyAbandonedRunsStop'
    BY <1>6, <1>t, <2>1 DEF IInv, Expire, OutcomeSet, AnswerIsOwn,
                            OnlyAbandonedRunsStop, TypeOK, GivenUp, Answered
  <2> QED
    BY <1>t, <2>2, <2>3, <2>4, <2>5 DEF IInv
<1>7. CASE SendCancel(c)
  <2> DEFINE m == [type |-> "cancel", req |-> IdOf(c), call |-> c]
  <2>1. /\ m \in DownMsg /\ callStream[c] \in Stream
        /\ outcome[c].kind \in GivenUp
    BY <1>7, <1>t, <1>i DEF IInv, SendCancel, RouteOwn, OutcomeSet, DownMsg, TypeOK
  <2>2. \A t \in Stream : Messages(down'[t]) \subseteq
          Messages(down[t]) \union (IF t = callStream[c] THEN {m} ELSE {})
    <3>1. SendDown(callStream[c], m)
      BY <1>7 DEF SendCancel
    <3> HIDE DEF m
    <3> QED
      BY <1>t, <2>1, <3>1, SendDownMessages
  <2>3. DownIds'
    BY <1>7, <1>t, <1>m, <2>1, <2>2 DEF IInv, SendCancel, DownIds, DownMsg, TypeOK
  <2>4. UpIds' /\ SlotOwn' /\ PendingIds' /\ CancelFnIds' /\ RunningIsCancelable'
          /\ AnswerIsOwn' /\ OnlyAbandonedRunsStop'
    BY <1>7 DEF IInv, SendCancel, UpIds, SlotOwn, PendingIds, CancelFnIds,
                RunningIsCancelable, AnswerIsOwn, OnlyAbandonedRunsStop
  <2>5. RouteOwn' /\ PendingExact' /\ OutcomeSet'
    BY <1>7, <1>t, <2>1 DEF IInv, SendCancel, RouteOwn, PendingExact, OutcomeSet, TypeOK,
                            GivenUp
  <2> QED
    BY <1>t, <2>3, <2>4, <2>5 DEF IInv
<1>8. CASE Return(c)
  <2>1. UpIds' /\ SlotOwn' /\ CancelFnIds' /\ RunningIsCancelable' /\ AnswerIsOwn'
          /\ OnlyAbandonedRunsStop'
    BY <1>8 DEF IInv, Return, UpIds, SlotOwn, CancelFnIds, RunningIsCancelable,
                AnswerIsOwn, OnlyAbandonedRunsStop
  <2>2. PendingIds' /\ PendingExact'
    BY <1>8, <1>t, <1>i DEF IInv, Return, PendingIds, PendingExact, TypeOK
  <2>3. DownIds'
    BY <1>8, <1>t, <1>m DEF IInv, Return, DownIds, DownMsg, TypeOK
  <2>4. RouteOwn' /\ OutcomeSet'
    BY <1>8, <1>t DEF IInv, Return, RouteOwn, OutcomeSet, TypeOK
  <2> QED
    BY <1>t, <2>1, <2>2, <2>3, <2>4 DEF IInv
<1>9. CASE RunAnswers(c)
  <2> DEFINE s == link[Target[c]]
  <2>1. PICK kind \in Answered :
          up' = IF s = None THEN up
                ELSE [up EXCEPT ![s] =
                        Append(@, [kind |-> kind, req |-> IdOf(c), run |-> c])]
    BY <1>9 DEF RunAnswers
  <2> DEFINE m == [kind |-> kind, req |-> IdOf(c), run |-> c]
  <2>2. m \in UpMsg
    BY <1>i DEF UpMsg
  <2>3. \A t \in Stream : Messages(up'[t]) \subseteq Messages(up[t]) \union {m}
    BY <1>t, <2>1, <2>2, MessagesOfAppend DEF TypeOK
  <2>4. \A d \in Call : run'[d] = IF d = c THEN "returned" ELSE run[d]
    BY <1>9, <1>t DEF RunAnswers, TypeOK
  <2>5. UpIds'
    BY <1>9, <1>m, <2>3, <2>4 DEF IInv, RunAnswers, UpIds, UpMsg
  <2>6. SlotOwn' /\ RunningIsCancelable' /\ OnlyAbandonedRunsStop' /\ OutcomeSet'
    BY <1>9, <2>4 DEF IInv, RunAnswers, SlotOwn, RunningIsCancelable,
                      OnlyAbandonedRunsStop, OutcomeSet
  <2>7. PendingIds' /\ CancelFnIds' /\ DownIds' /\ RouteOwn' /\ AnswerIsOwn' /\ PendingExact'
    BY <1>9 DEF IInv, RunAnswers, PendingIds, CancelFnIds, DownIds, RouteOwn,
                AnswerIsOwn, PendingExact
  <2> QED
    BY <1>t, <2>5, <2>6, <2>7 DEF IInv
<1>10. CASE RunEnds(c)
  <2>4. \A d \in Call : run'[d] = IF d = c THEN "ended" ELSE run[d]
    BY <1>10, <1>t DEF RunEnds, TypeOK
  <2>5. UpIds'
    BY <1>10, <1>m, <2>4 DEF IInv, RunEnds, UpIds, UpMsg
  <2>6. SlotOwn' /\ OnlyAbandonedRunsStop' /\ OutcomeSet'
    BY <1>10, <2>4 DEF IInv, RunEnds, SlotOwn, OnlyAbandonedRunsStop, OutcomeSet
  <2>7. PendingIds' /\ DownIds' /\ RouteOwn' /\ AnswerIsOwn' /\ PendingExact'
    BY <1>10 DEF IInv, RunEnds, PendingIds, DownIds, RouteOwn, AnswerIsOwn, PendingExact
  <2>8. CancelFnIds'
    BY <1>10, <1>t, <1>i DEF IInv, RunEnds, CancelFnIds, TypeOK
  <2>9. RunningIsCancelable'
    BY <1>10, <1>t, <1>i, <2>4 DEF IInv, RunEnds, RunningIsCancelable, TypeOK
  <2> QED
    BY <1>t, <2>5, <2>6, <2>7, <2>8, <2>9 DEF IInv
<1> QED
  BY <1>1, <1>2, <1>3, <1>4, <1>5, <1>6, <1>7, <1>8, <1>9, <1>10 DEF CallStep

(* A stuttering step keeps every state predicate. *)
LEMMA StutterIInv == IInv /\ UNCHANGED vars => IInv'
<1> SUFFICES ASSUME IInv, UNCHANGED vars PROVE IInv'
  OBVIOUS
<1> USE DEF vars, routerVars, streamVars, agentVars, IInv
<1>1. TypeOK'
  BY DEF TypeOK
<1>2. UpIds' /\ SlotOwn' /\ PendingIds' /\ CancelFnIds' /\ DownIds'
  BY DEF UpIds, SlotOwn, PendingIds, CancelFnIds, DownIds
<1>3. RouteOwn' /\ OutcomeSet' /\ AnswerIsOwn' /\ PendingExact' /\ OnlyAbandonedRunsStop'
        /\ RunningIsCancelable'
  BY DEF RouteOwn, OutcomeSet, AnswerIsOwn, PendingExact, OnlyAbandonedRunsStop,
         RunningIsCancelable
<1> QED
  BY <1>1, <1>2, <1>3

(* With an id per call, the inductive invariant holds in every state.      *)
THEOREM Invariance == ASSUME IdsDistinct PROVE Spec => []IInv
<1>1. IInv /\ [Next]_vars => IInv'
  BY StreamStepIInv, CallStepIInv, StutterIInv DEF Next, Quiet
<1> QED
  BY InitIInv, <1>1, PTL DEF Spec

(* A caller is only ever answered by the run started for its own request.  *)
THEOREM AnswersAreOwn == ASSUME IdsDistinct PROVE Spec => []AnswerIsOwn
<1>1. IInv => AnswerIsOwn
  BY DEF IInv
<1> QED
  BY <1>1, Invariance, PTL

(* Router.pending holds a call's slot exactly while Send needs it.         *)
THEOREM PendingIsExact == ASSUME IdsDistinct PROVE Spec => []PendingExact
<1>1. IInv => PendingExact
  BY DEF IInv
<1> QED
  BY <1>1, Invariance, PTL

(* Cancel messages stop abandoned runs only. *)
THEOREM CancelIsSafe == ASSUME IdsDistinct PROVE Spec => []OnlyAbandonedRunsStop
<1>1. IInv => OnlyAbandonedRunsStop
  BY DEF IInv
<1> QED
  BY <1>1, Invariance, PTL

(* A run can be canceled as long as it works: no other run's end takes its *)
(* cancel function out of cancelFns.                                       *)
THEOREM RunsStayCancelable == ASSUME IdsDistinct PROVE Spec => []RunningIsCancelable
<1>1. IInv => RunningIsCancelable
  BY DEF IInv
<1> QED
  BY <1>1, Invariance, PTL

-----------------------------------------------------------------------------
(* Cancels behind their requests.  The invariant says where the request of *)
(* a call that waits is: read, on the call's stream, or lost with that     *)
(* stream; so the cancel that SendCancel appends comes after it.           *)

(* Among the first n messages of q is the request of c. *)
Ahead(q, c, n) == \E j \in 1 .. n : q[j].type = "request" /\ q[j].call = c

(* Each cancel in q comes after its request, unless that is in D. *)
Ordered(q, D) == \A i \in 1 .. Len(q) :
  q[i].type = "cancel" => q[i].call \in D \/ Ahead(q, q[i].call, i - 1)

Dispatched == {c \in Call : run[c] # "none"}
InOrder == \A s \in Stream : Ordered(down[s], Dispatched)
StreamUsed ==
  /\ \A h \in Agent : route[h] # None => streamState[route[h]] # "unused"
  /\ \A c \in Call : callStream[c] # None => streamState[callStream[c]] # "unused"
RequestSent == \A c \in Call :
  /\ pc[c] \in {"stored", "waiting", "expired"} => callStream[c] # None
  /\ pc[c] \in {"waiting", "expired"} =>
       \/ c \in Dispatched
       \/ streamState[callStream[c]] # "up"
       \/ Ahead(down[callStream[c]], c, Len(down[callStream[c]]))

OrderInv == TypeOK /\ StreamUsed /\ RequestSent /\ InOrder

LEMMA OrderedGrows ==
  ASSUME NEW q, NEW D, NEW E, D \subseteq E, Ordered(q, D)
  PROVE  Ordered(q, E)
  BY DEF Ordered

LEMMA OrderedEmpty == ASSUME NEW D PROVE Ordered(<<>>, D)
  BY DEF Ordered

(* A message that comes last keeps what is ahead, and is behind it all.    *)
LEMMA AheadInAppend ==
  ASSUME NEW q \in Seq(DownMsg), NEW m \in DownMsg, NEW c, NEW n \in 0 .. Len(q), Ahead(q, c, n)
  PROVE  Ahead(Append(q, m), c, n)
<1>1. PICK j \in 1 .. n : q[j].type = "request" /\ q[j].call = c
  BY DEF Ahead
<1>2. Append(q, m)[j] = q[j]
  BY AppendProperties, LenProperties
<1> QED
  BY <1>1, <1>2 DEF Ahead

LEMMA AheadLonger ==
  ASSUME NEW q, NEW c, NEW n \in Nat, Ahead(q, c, n)
  PROVE  Ahead(q, c, n + 1)
  BY DEF Ahead

LEMMA AheadLast ==
  ASSUME NEW q \in Seq(DownMsg), NEW m \in DownMsg, m.type = "request"
  PROVE  Ahead(Append(q, m), m.call, Len(q) + 1)
<1>1. Append(q, m)[Len(q) + 1] = m /\ Len(q) + 1 \in 1 .. Len(q) + 1
  BY AppendProperties, LenProperties
<1> QED
  BY <1>1 DEF Ahead

LEMMA OrderedAppend ==
  ASSUME NEW q \in Seq(DownMsg), NEW m \in DownMsg, NEW D, Ordered(q, D),
         m.type = "cancel" => m.call \in D \/ Ahead(q, m.call, Len(q))
  PROVE  Ordered(Append(q, m), D)
<1> DEFINE r == Append(q, m)
<1>1. /\ Len(r) = Len(q) + 1 /\ r[Len(q) + 1] = m /\ Len(q) \in Nat
      /\ \A i \in 1 .. Len(q) : r[i] = q[i]
  BY AppendProperties, LenProperties
<1> SUFFICES ASSUME NEW i \in 1 .. Len(r), r[i].type = "cancel", r[i].call \notin D
             PROVE  Ahead(r, r[i].call, i - 1)
  BY DEF Ordered
<1>2. PICK n \in 0 .. Len(q) : n = i - 1
  BY <1>1
<1>3. Ahead(q, r[i].call, n)
  <2>1. CASE i = Len(q) + 1
    BY <1>1, <1>2, <2>1
  <2>2. CASE i # Len(q) + 1
    <3>1. i \in 1 .. Len(q)
      BY <1>1, <2>2
    <3> QED
      BY <1>1, <1>2, <3>1 DEF Ordered
  <2> QED
    BY <2>1, <2>2
<1>4. Ahead(r, r[i].call, n)
  BY <1>3, AheadInAppend
<1> QED
  BY <1>2, <1>4

(* When the head goes, only the head's own call loses what is ahead.       *)
LEMMA AheadInTail ==
  ASSUME NEW q \in Seq(DownMsg), q # <<>>, NEW c, NEW n \in 1 .. Len(q), Ahead(q, c, n),
         ~ (Head(q).type = "request" /\ Head(q).call = c)
  PROVE  Ahead(Tail(q), c, n - 1)
<1>1. /\ Len(Tail(q)) = Len(q) - 1 /\ Head(q) = q[1] /\ Len(q) \in Nat
      /\ \A i \in 1 .. Len(Tail(q)) : Tail(q)[i] = q[i + 1]
  BY HeadTailType
<1>2. PICK j \in 1 .. n : q[j].type = "request" /\ q[j].call = c
  BY DEF Ahead
<1>3. j # 1
  BY <1>1, <1>2
<1>4. PICK k \in 1 .. n - 1 : j = k + 1
  BY <1>3
<1>5. Tail(q)[k] = q[j]
  BY <1>1, <1>4
<1> QED
  BY <1>2, <1>4, <1>5 DEF Ahead

LEMMA OrderedTail ==
  ASSUME NEW q \in Seq(DownMsg), q # <<>>, NEW D, Ordered(q, D),
         Head(q).type = "request" => Head(q).call \in D
  PROVE  Ordered(Tail(q), D)
<1>1. /\ Len(Tail(q)) = Len(q) - 1 /\ Len(q) \in Nat
      /\ \A i \in 1 .. Len(Tail(q)) : Tail(q)[i] = q[i + 1]
  BY HeadTailType
<1> SUFFICES ASSUME NEW i \in 1 .. Len(Tail(q)), Tail(q)[i].type = "cancel",
                    Tail(q)[i].call \notin D
             PROVE  Ahead(Tail(q), Tail(q)[i].call, i - 1)
  BY DEF Ordered
<1>2. i + 1 \in 1 .. Len(q) /\ i \in 1 .. Len(q) /\ (i + 1) - 1 = i /\ Tail(q)[i] = q[i + 1]
  BY <1>1
<1>3. Ahead(q, q[i + 1].call, i)
  BY <1>2 DEF Ordered
<1> QED
  BY <1>2, <1>3, AheadInTail

-----------------------------------------------------------------------------
LEMMA InitOrderInv == Init => OrderInv
  BY InitTypeOK, OrderedEmpty DEF Init, OrderInv, StreamUsed, RequestSent, InOrder

LEMMA StreamStepOrderInv ==
  ASSUME OrderInv, NEW s \in Stream, StreamStep(s)
  PROVE  OrderInv'
<1> USE DEF routerVars, streamVars, agentVars
<1>t. TypeOK /\ TypeOK'
  BY StreamStepTypeOK DEF OrderInv
<1>q. \A t \in Stream : down[t] \in Seq(DownMsg)
  BY <1>t DEF TypeOK
<1>1. CASE Connect(s)
  <2>1. StreamUsed'
    BY <1>1, <1>t DEF OrderInv, Connect, StreamUsed, TypeOK
  <2>2. RequestSent'
    BY <1>1, <1>t DEF OrderInv, Connect, StreamUsed, RequestSent, Dispatched, TypeOK
  <2>3. InOrder'
    BY <1>1 DEF OrderInv, Connect, InOrder, Dispatched
  <2> QED
    BY <1>t, <2>1, <2>2, <2>3 DEF OrderInv
<1>2. CASE Break(s)
  <2>1. StreamUsed'
    BY <1>2, <1>t DEF OrderInv, Break, StreamUsed, TypeOK
  <2>2. RequestSent'
    BY <1>2, <1>t DEF OrderInv, Break, RequestSent, Dispatched, TypeOK
  <2>3. InOrder'
    BY <1>2, <1>t, OrderedEmpty DEF OrderInv, Break, InOrder, Dispatched, TypeOK
  <2> QED
    BY <1>t, <2>1, <2>2, <2>3 DEF OrderInv
<1>3. CASE CloseAtCenter(s)
  <2>1. StreamUsed'
    BY <1>3, <1>t DEF OrderInv, CloseAtCenter, StreamUsed, TypeOK
  <2>2. RequestSent'
    BY <1>3, <1>t DEF OrderInv, CloseAtCenter, RequestSent, Dispatched, TypeOK
  <2>3. InOrder'
    BY <1>3 DEF OrderInv, CloseAtCenter, InOrder, Dispatched
  <2> QED
    BY <1>t, <2>1, <2>2, <2>3 DEF OrderInv
<1>4. CASE Deliver(s)
  BY <1>4, <1>t DEF OrderInv, Deliver, StreamUsed, RequestSent, InOrder, Dispatched
<1>5. CASE DispatchRequest(s) \/ DispatchCancel(s)
  <2>1. /\ down[s] # <<>> /\ down' = [down EXCEPT ![s] = Tail(@)]
        /\ pc' = pc /\ callStream' = callStream /\ streamState' = streamState /\ route' = route
    BY <1>5 DEF DispatchRequest, DispatchCancel
  <2>2. down'[s] = Tail(down[s]) /\ \A t \in Stream \ {s} : down'[t] = down[t]
    BY <1>t, <2>1 DEF TypeOK
  <2>3. /\ Head(down[s]) \in DownMsg
        /\ Len(Tail(down[s])) = Len(down[s]) - 1 /\ Len(down[s]) \in Nat \ {0}
    BY <1>q, <2>1, HeadTailType
  <2>4. Dispatched \subseteq Dispatched'
    BY <1>5, <1>t, <2>3 DEF DispatchRequest, DispatchCancel, Dispatched, TypeOK
  <2>5. Head(down[s]).type = "request" => Head(down[s]).call \in Dispatched'
    BY <1>5, <1>t, <2>3 DEF DispatchRequest, DispatchCancel, Dispatched, TypeOK, DownMsg
  <2>6. StreamUsed'
    BY <2>1 DEF OrderInv, StreamUsed
  <2>7. InOrder'
    <3> SUFFICES ASSUME NEW t \in Stream PROVE Ordered(down'[t], Dispatched')
      BY DEF InOrder
    <3>1. Ordered(down[t], Dispatched')
      BY <2>4, OrderedGrows DEF OrderInv, InOrder
    <3> QED
      BY <1>q, <2>1, <2>2, <2>5, <3>1, OrderedTail
  <2>8. RequestSent'
    <3> SUFFICES ASSUME NEW c \in Call, pc[c] \in {"waiting", "expired"}, c \notin Dispatched',
                        streamState[callStream[c]] = "up"
                 PROVE  Ahead(down'[callStream[c]], c, Len(down'[callStream[c]]))
      BY <2>1 DEF OrderInv, RequestSent
    <3> DEFINE t == callStream[c]
    <3>1. t \in Stream /\ Ahead(down[t], c, Len(down[t]))
      BY <1>t, <2>4 DEF OrderInv, RequestSent, TypeOK
    <3>2. CASE t # s
      BY <2>2, <3>1, <3>2
    <3>3. CASE t = s
      <4>1. Ahead(Tail(down[s]), c, Len(down[s]) - 1)
        BY <1>q, <2>1, <2>3, <2>5, <3>1, <3>3, AheadInTail
      <4> QED
        BY <2>2, <2>3, <3>3, <4>1
    <3> QED
      BY <3>2, <3>3
  <2> QED
    BY <1>t, <2>6, <2>7, <2>8 DEF OrderInv
<1> QED
  BY <1>1, <1>2, <1>3, <1>4, <1>5 DEF StreamStep

(* A call that sends a message finds its stream, and only c's pc moves.    *)
LEMMA SendOrderInv ==
  ASSUME OrderInv, NEW c \in Call, NEW m \in DownMsg, m.call = c,
         callStream[c] \in Stream, SendDown(callStream[c], m),
         UNCHANGED <<callStream, streamState, run>>,
         \A d \in Call \ {c} : pc'[d] = pc[d],
         \/ m.type = "request" /\ pc'[c] = "waiting"
         \/ m.type = "cancel" /\ pc[c] = "expired" /\ pc'[c] = "returning"
  PROVE  RequestSent' /\ InOrder'
<1> DEFINE s == callStream[c]
<1>q. TypeOK /\ \A t \in Stream : down[t] \in Seq(DownMsg) /\ Len(down[t]) \in Nat
  BY LenProperties DEF OrderInv, TypeOK
<1>d. Dispatched' = Dispatched
  BY DEF Dispatched
<1>1. CASE streamState[s] # "up"
  <2>1. down' = down
    BY <1>1 DEF SendDown
  <2> QED
    BY <1>1, <1>d, <2>1 DEF OrderInv, RequestSent, InOrder
<1>2. CASE streamState[s] = "up"
  <2>1. down'[s] = Append(down[s], m) /\ \A t \in Stream \ {s} : down'[t] = down[t]
    BY <1>2, <1>q DEF SendDown, TypeOK
  <2>2. Len(Append(down[s], m)) = Len(down[s]) + 1
    BY <1>q, AppendProperties
  <2>3. InOrder'
    <3>1. m.type = "cancel" => m.call \in Dispatched \/ Ahead(down[s], m.call, Len(down[s]))
      BY <1>2 DEF OrderInv, RequestSent
    <3>2. Ordered(Append(down[s], m), Dispatched)
      BY <1>q, <3>1, OrderedAppend DEF OrderInv, InOrder
    <3> QED
      BY <1>d, <2>1, <3>2 DEF OrderInv, InOrder
  <2>4. RequestSent'
    <3> SUFFICES ASSUME NEW d \in Call
                 PROVE  /\ pc'[d] \in {"stored", "waiting", "expired"} => callStream[d] # None
                        /\ pc'[d] \in {"waiting", "expired"} =>
                             \/ d \in Dispatched
                             \/ streamState[callStream[d]] # "up"
                             \/ Ahead(down'[callStream[d]], d, Len(down'[callStream[d]]))
      BY <1>d DEF RequestSent
    <3>1. CASE d = c
      <4>1. m.type = "request" => Ahead(Append(down[s], m), c, Len(down[s]) + 1)
        BY <1>q, AheadLast
      <4> QED
        BY <2>1, <2>2, <3>1, <4>1
    <3>2. CASE d # c /\ callStream[d] # s
      BY <2>1, <3>2, <1>q DEF OrderInv, RequestSent, TypeOK
    <3>3. CASE d # c /\ callStream[d] = s
      <4>1. Ahead(down[s], d, Len(down[s])) => Ahead(Append(down[s], m), d, Len(down[s]))
        BY <1>q, AheadInAppend
      <4>2. Ahead(down[s], d, Len(down[s])) => Ahead(Append(down[s], m), d, Len(down[s]) + 1)
        BY <1>q, <4>1, AheadLonger
      <4> QED
        BY <2>1, <2>2, <3>3, <4>2 DEF OrderInv, RequestSent
    <3> QED
      BY <3>1, <3>2, <3>3
  <2> QED
    BY <2>3, <2>4
<1> QED
  BY <1>1, <1>2

LEMMA CallStepOrderInv ==
  ASSUME OrderInv, NEW c \in Call, CallStep(c)
  PROVE  OrderInv'
<1> USE DEF routerVars, streamVars, agentVars
<1>t. TypeOK /\ TypeOK'
  BY CallStepTypeOK DEF OrderInv
<1>i. IdOf(c) \in ReqId
  BY DEF IdOf
<1>1. CASE Refuse(c) \/ SendFails(c) \/ Receive(c) \/ Expire(c) \/ Return(c)
  <2>1. /\ UNCHANGED <<callStream, streamState, route, down, run>>
        /\ \A d \in Call \ {c} : pc'[d] = pc[d]
        /\ \/ pc'[c] \in {"done", "returning"}
           \/ pc[c] = "waiting" /\ pc'[c] = "expired"
    BY <1>1, <1>t DEF Refuse, SendFails, Receive, Expire, Return, TypeOK
  <2>2. StreamUsed' /\ InOrder'
    BY <2>1 DEF OrderInv, StreamUsed, InOrder, Dispatched
  <2>3. RequestSent'
    BY <2>1 DEF OrderInv, RequestSent, Dispatched
  <2> QED
    BY <1>t, <2>2, <2>3 DEF OrderInv
<1>2. CASE StorePending(c)
  <2>1. StreamUsed'
    BY <1>2, <1>t DEF OrderInv, StorePending, StreamUsed, TypeOK
  <2>2. RequestSent' /\ InOrder'
    BY <1>2, <1>t DEF OrderInv, StorePending, RequestSent, InOrder, Dispatched, TypeOK
  <2> QED
    BY <1>t, <2>1, <2>2 DEF OrderInv
<1>3. CASE SendRequest(c) \/ SendCancel(c)
  <2>1. PICK m \in DownMsg :
          /\ m.call = c /\ SendDown(callStream[c], m)
          /\ \/ m.type = "request" /\ pc[c] = "stored" /\ pc' = [pc EXCEPT ![c] = "waiting"]
             \/ m.type = "cancel" /\ pc[c] = "expired" /\ pc' = [pc EXCEPT ![c] = "returning"]
    <3>1. CASE SendRequest(c)
      <4>1. [type |-> "request", req |-> IdOf(c), call |-> c] \in DownMsg
        BY <1>i DEF DownMsg
      <4> QED
        BY <3>1, <4>1 DEF SendRequest
    <3>2. CASE SendCancel(c)
      <4>1. [type |-> "cancel", req |-> IdOf(c), call |-> c] \in DownMsg
        BY <1>i DEF DownMsg
      <4> QED
        BY <3>2, <4>1 DEF SendCancel
    <3> QED
      BY <1>3, <3>1, <3>2
  <2>2. UNCHANGED <<callStream, streamState, route, run>>
    BY <1>3 DEF SendRequest, SendCancel
  <2>3. callStream[c] \in Stream
    BY <1>t, <2>1 DEF OrderInv, RequestSent, TypeOK
  <2>4. \A d \in Call \ {c} : pc'[d] = pc[d]
    BY <1>t, <2>1 DEF TypeOK
  <2>5. \/ m.type = "request" /\ pc'[c] = "waiting"
        \/ m.type = "cancel" /\ pc[c] = "expired" /\ pc'[c] = "returning"
    BY <1>t, <2>1 DEF TypeOK
  <2>6. RequestSent' /\ InOrder'
    BY <2>1, <2>2, <2>3, <2>4, <2>5, SendOrderInv
  <2>7. StreamUsed'
    BY <2>2 DEF OrderInv, StreamUsed
  <2> QED
    BY <1>t, <2>6, <2>7 DEF OrderInv
<1>4. CASE RunAnswers(c) \/ RunEnds(c)
  <2>1. /\ UNCHANGED <<pc, callStream, streamState, route, down>>
        /\ Dispatched' = Dispatched
    BY <1>4, <1>t DEF RunAnswers, RunEnds, Dispatched, TypeOK
  <2>2. StreamUsed' /\ InOrder' /\ RequestSent'
    BY <2>1 DEF OrderInv, StreamUsed, InOrder, RequestSent
  <2> QED
    BY <1>t, <2>2 DEF OrderInv
<1> QED
  BY <1>1, <1>2, <1>3, <1>4 DEF CallStep

(* An agent never reads a cancel before the request it is for, whatever    *)
(* ids the calls have: the stream keeps the order Send sent them in.       *)
THEOREM CancelsFollow == Spec => []CancelFollowsRequest
<1>1. OrderInv /\ [Next]_vars => OrderInv'
  <2>1. OrderInv /\ UNCHANGED vars => OrderInv'
    <3> SUFFICES ASSUME OrderInv, UNCHANGED vars PROVE OrderInv'
      OBVIOUS
    <3>1. TypeOK'
      BY DEF OrderInv, TypeOK, vars, routerVars, streamVars, agentVars
    <3>2. StreamUsed' /\ RequestSent' /\ InOrder'
      BY DEF OrderInv, StreamUsed, RequestSent, InOrder, Dispatched, vars, routerVars,
             streamVars, agentVars
    <3> QED
      BY <3>1, <3>2 DEF OrderInv
  <2> QED
    BY <2>1, StreamStepOrderInv, CallStepOrderInv DEF Next, Quiet
<1>2. OrderInv => CancelFollowsRequest
  <2> SUFFICES ASSUME OrderInv, NEW s \in Stream, NEW i \in 1 .. Len(down[s]),
                      down[s][i].type = "cancel"
               PROVE  \/ run[down[s][i].call] # "none"
                      \/ Ahead(down[s], down[s][i].call, i - 1)
    BY DEF CancelFollowsRequest, Ahead
  <2> QED
    BY DEF OrderInv, InOrder, Ordered, Dispatched
<1> QED
  BY InitOrderInv, <1>1, <1>2, PTL DEF Spec

-----------------------------------------------------------------------------
(* Refinement: every step of ToolRouter is a step of ToolCalls or leaves   *)
(* what the caller can see unchanged.                                      *)

(* A step that changes neither pc, outcome nor run changes nothing the     *)
(* abstract specification sees.                                            *)
LEMMA InvisibleStep ==
  UNCHANGED <<pc, outcome, run>> => UNCHANGED <<CallPhase, CallsExecuted, CallAnswer>>
  BY DEF CallPhase, CallsExecuted, CallAnswer

(* The mapping changes for one call at a time. *)
LEMMA PhaseChange ==
  ASSUME NEW c \in Call, NEW p,
         \A d \in Call : CallPhase'[d] = IF d = c THEN p ELSE CallPhase[d]
  PROVE  CallPhase' = [CallPhase EXCEPT ![c] = p]
<1>1. CallPhase' = [d \in Call |-> CallPhase'[d]] /\ CallPhase = [d \in Call |-> CallPhase[d]]
  BY DEF CallPhase
<1> HIDE DEF CallPhase
<1> QED
  BY <1>1

LEMMA StreamStepRefines ==
  ASSUME IInv, IInv', NEW s \in Stream, StreamStep(s)
  PROVE  [Calls!CallsNext]_(Calls!callVars)
<1> USE DEF routerVars, streamVars, agentVars
<1>t. TypeOK /\ down[s] \in Seq(DownMsg)
  BY DEF IInv, TypeOK
<1>1. CASE Connect(s) \/ Break(s) \/ CloseAtCenter(s) \/ Deliver(s)
  BY <1>1, InvisibleStep DEF Connect, Break, CloseAtCenter, Deliver, Calls!callVars
<1>2. CASE DispatchRequest(s)
  <2> DEFINE c == Head(down[s]).call
  <2>0. Head(down[s]) \in Messages(down[s]) /\ Head(down[s]) \in DownMsg
    BY <1>2, <1>t, MessagesOfTail, HeadTailType DEF DispatchRequest
  <2>1. Head(down[s]) \in Messages(down[s]) /\ c \in Call
    BY <2>0 DEF DownMsg
  <2>2. pc[c] # "idle"
    BY <2>1 DEF IInv, DownIds
  <2>3. UNCHANGED <<CallPhase, CallAnswer>>
    BY <1>2 DEF DispatchRequest, CallPhase, CallAnswer
  <2>4. CallsExecuted' = CallsExecuted \union {c}
    BY <1>2, <1>t, <2>1 DEF DispatchRequest, CallsExecuted, TypeOK
  <2>5. CallPhase[c] # "idle"
    BY <2>1, <2>2 DEF CallPhase
  <2>6. CASE c \in CallsExecuted
    BY <2>3, <2>4, <2>6 DEF Calls!callVars
  <2>7. CASE c \notin CallsExecuted
    <3>1. Calls!Execute(c)
      BY <2>3, <2>4, <2>5, <2>7 DEF Calls!Execute
    <3> QED
      BY <2>1, <3>1 DEF Calls!CallsNext
  <2> QED
    BY <2>6, <2>7
<1>3. CASE DispatchCancel(s)
  <2>1. CallsExecuted' = CallsExecuted
    BY <1>3, <1>t DEF DispatchCancel, CallsExecuted, TypeOK
  <2>2. UNCHANGED <<CallPhase, CallAnswer>>
    BY <1>3 DEF DispatchCancel, CallPhase, CallAnswer
  <2> QED
    BY <2>1, <2>2 DEF Calls!callVars
<1> QED
  BY <1>1, <1>2, <1>3 DEF StreamStep

LEMMA CallStepRefines ==
  ASSUME IInv, IInv', NEW c \in Call, CallStep(c)
  PROVE  [Calls!CallsNext]_(Calls!callVars)
<1> USE DEF routerVars, streamVars, agentVars
<1>t. TypeOK /\ OutcomeSet /\ OutcomeSet'
  BY DEF IInv
<1>n. None \notin Call /\ GivenUp \intersect Answered = {} /\ "none" \notin GivenUp
  BY DEF GivenUp, Answered
<1>1. CASE Refuse(c) \/ SendFails(c) \/ Expire(c)
  <2>1. /\ pc[c] \in {"idle", "stored", "waiting"}
        /\ \E p \in {"done", "returning", "expired"} : pc' = [pc EXCEPT ![c] = p]
        /\ \E k \in {"refused", "sendfailed"} \union GivenUp :
              outcome' = [outcome EXCEPT ![c] = [kind |-> k, run |-> None]]
        /\ run' = run
    BY <1>1 DEF Refuse, SendFails, Expire
  <2>2. outcome[c] = [kind |-> "none", run |-> None]
    BY <1>t, <2>1 DEF OutcomeSet
  <2>3. CallPhase[c] \in {"idle", "active"}
    BY <2>2 DEF CallPhase
  <2>4. CallPhase' = [CallPhase EXCEPT ![c] = "failed"]
    <3>1. pc'[c] # "idle" /\ outcome'[c].kind \notin Answered \union {"none"}
      BY <1>t, <2>1 DEF TypeOK, GivenUp, Answered
    <3>2. \A d \in Call : d # c => pc'[d] = pc[d] /\ outcome'[d] = outcome[d]
      BY <1>t, <2>1 DEF TypeOK
    <3>3. \A d \in Call : CallPhase'[d] = IF d = c THEN "failed" ELSE CallPhase[d]
      BY <3>1, <3>2 DEF CallPhase
    <3> QED
      BY <3>3, PhaseChange
  <2>5. UNCHANGED <<CallsExecuted, CallAnswer>>
    BY <1>t, <2>1, <2>2 DEF CallsExecuted, CallAnswer, TypeOK
  <2>6. Calls!Abandon(c)
    BY <2>3, <2>4, <2>5 DEF Calls!Abandon
  <2> QED
    BY <2>6 DEF Calls!CallsNext
<1>2. CASE StorePending(c)
  <2>1. outcome[c] = [kind |-> "none", run |-> None]
    BY <1>2, <1>t DEF StorePending, OutcomeSet
  <2>2. CallPhase[c] = "idle" /\ CallPhase' = [CallPhase EXCEPT ![c] = "active"]
    <3>1. /\ pc[c] = "idle" /\ pc'[c] = "stored" /\ outcome' = outcome
          /\ \A d \in Call : d # c => pc'[d] = pc[d]
      BY <1>2, <1>t DEF StorePending, TypeOK
    <3>2. \A d \in Call : CallPhase'[d] = IF d = c THEN "active" ELSE CallPhase[d]
      BY <2>1, <3>1 DEF CallPhase
    <3> QED
      BY <3>1, <3>2, PhaseChange DEF CallPhase
  <2>3. UNCHANGED <<CallsExecuted, CallAnswer>>
    BY <1>2 DEF StorePending, CallsExecuted, CallAnswer
  <2>4. Calls!Issue(c)
    BY <2>2, <2>3 DEF Calls!Issue
  <2> QED
    BY <2>4 DEF Calls!CallsNext
<1>3. CASE Receive(c)
  <2>1. slot[c] \in UpMsg /\ slot[c].run = c /\ run[c] # "none" /\ slot[c].kind \in Answered
    BY <1>3, <1>t DEF IInv, Receive, SlotOwn, TypeOK, UpMsg
  <2>2. outcome[c] = [kind |-> "none", run |-> None] /\ pc[c] = "waiting"
    BY <1>3, <1>t DEF Receive, OutcomeSet
  <2>3. CallPhase[c] = "active" /\ c \in CallsExecuted
    BY <2>1, <2>2 DEF CallPhase, CallsExecuted
  <2> DEFINE o == [kind |-> slot[c].kind, run |-> slot[c].run]
  <2>o. /\ outcome'[c] = o /\ pc'[c] = "returning"
        /\ \A d \in Call : d # c => pc'[d] = pc[d] /\ outcome'[d] = outcome[d]
    BY <1>3, <1>t DEF Receive, TypeOK
  <2>4. CallPhase' = [CallPhase EXCEPT ![c] = "answered"]
    <3>1. \A d \in Call : CallPhase'[d] = IF d = c THEN "answered" ELSE CallPhase[d]
      BY <2>o, <2>1 DEF CallPhase, Answered
    <3> QED
      BY <3>1, PhaseChange
  <2>5. CallAnswer' = [CallAnswer EXCEPT ![c] = {c}]
    <3>1. outcome'[c].run = c
      BY <2>o, <2>1
    <3>2. \A d \in Call : CallAnswer'[d] = IF d = c THEN {c} ELSE CallAnswer[d]
      BY <2>o, <1>n, <3>1 DEF CallAnswer
    <3>3. /\ CallAnswer' = [d \in Call |-> CallAnswer'[d]]
          /\ CallAnswer = [d \in Call |-> CallAnswer[d]]
      BY DEF CallAnswer
    <3> HIDE DEF CallAnswer
    <3> QED
      BY <3>2, <3>3
  <2>6. UNCHANGED CallsExecuted
    BY <1>3 DEF Receive, CallsExecuted
  <2>7. Calls!Complete(c)
    BY <2>3, <2>4, <2>5, <2>6 DEF Calls!Complete
  <2> QED
    BY <2>7 DEF Calls!CallsNext
<1>4. CASE SendRequest(c) \/ SendCancel(c) \/ Return(c)
  <2>1. /\ pc[c] \in {"stored", "expired", "returning"}
        /\ \E p \in {"waiting", "returning", "done"} : pc' = [pc EXCEPT ![c] = p]
        /\ UNCHANGED <<outcome, run>>
    BY <1>4 DEF SendRequest, SendCancel, Return
  <2>2. UNCHANGED CallPhase
    BY <1>t, <2>1 DEF CallPhase, TypeOK
  <2>3. UNCHANGED <<CallsExecuted, CallAnswer>>
    BY <2>1 DEF CallsExecuted, CallAnswer
  <2> QED
    BY <2>2, <2>3 DEF Calls!callVars
<1>5. CASE RunAnswers(c) \/ RunEnds(c)
  <2>1. /\ run[c] # "none"
        /\ \E p \in {"returned", "ended"} : run' = [run EXCEPT ![c] = p]
        /\ UNCHANGED <<outcome, pc>>
    BY <1>5 DEF RunAnswers, RunEnds
  <2>2. UNCHANGED CallsExecuted
    BY <1>t, <2>1 DEF CallsExecuted, TypeOK
  <2>3. UNCHANGED <<CallPhase, CallAnswer>>
    BY <2>1 DEF CallPhase, CallAnswer
  <2> QED
    BY <2>2, <2>3 DEF Calls!callVars
<1> QED
  BY <1>1, <1>2, <1>3, <1>4, <1>5 DEF CallStep

(* With an id per call, router, streams and agents implement ToolCalls.    *)
THEOREM Refinement == ASSUME IdsDistinct PROVE Spec => ImplementsCalls
<1>1. Init => Calls!CallsInit
  BY DEF Init, Calls!CallsInit, CallPhase, CallsExecuted, CallAnswer
<1>2. IInv /\ IInv' /\ [Next]_vars => [Calls!CallsNext]_(Calls!callVars)
  <2>1. IInv /\ UNCHANGED vars => UNCHANGED Calls!callVars
    BY InvisibleStep DEF vars, routerVars, agentVars, Calls!callVars
  <2> QED
    BY <2>1, StreamStepRefines, CallStepRefines DEF Next, Quiet
<1> QED
  BY <1>1, <1>2, Invariance, PTL DEF Spec, ImplementsCalls, Calls!CallsSpec
=============================================================================
