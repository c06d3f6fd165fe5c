----------------------------- MODULE ToolRouter -----------------------------
(***************************************************************************)
(* The path of a tool call: sysplane-center's Router.Send with its pending *)
(* map, the gRPC streams to the agents, and the agent's dispatch loop with *)
(* its cancelFns map.                                                      *)
(*                                                                         *)
(* A call is one execution of invokeToolWithRequest and Router.Send.  Its  *)
(* request id is chosen by the caller (admin/service.go): the constant     *)
(* RequestId says which calls share one.  A stream is one Connect          *)
(* call of an agent and is never reused; an agent that lost its stream     *)
(* opens another, and answers of runs started earlier leave on the new one.*)
(***************************************************************************)
EXTENDS Naturals, Sequences, FiniteSets

CONSTANTS
  Agent,      \* hostnames
  Stream,     \* gRPC streams (TunnelService.Connect calls)
  Call,       \* executions of Router.Send
  ReqId,      \* request ids
  None,       \* no call, no stream, no message
  Target,     \* Target[c]: the agent the call is for
  RequestId,  \* RequestId[c]: the id the call is made under
  Owner       \* Owner[s]: the agent that opens the stream

ASSUME RouterAssumption ==
  /\ Target \in [Call -> Agent]
  /\ RequestId \in [Call -> ReqId]
  /\ Owner \in [Stream -> Agent]
  /\ None \notin Call
  /\ None \notin Stream

(* Mutant: every call is made under one id. *)
SharedId(c) == CHOOSE r \in ReqId : TRUE

(* The id c is sent, answered and canceled under.  executeTemplate makes   *)
(* it from the invocation and the target, executeBuiltin uses the bare     *)
(* invocation id, and exec takes the caller's X-Request-Id.                *)
IdOf(c) == RequestId[c]

(* No two calls share an id. *)
IdsDistinct == \A c, d \in Call : IdOf(c) = IdOf(d) => c = d

VARIABLES
  pc,          \* pc[c]: how far Router.Send has come
  callStream,  \* callStream[c]: rec.RouteStream of the record c looked up
  outcome,     \* outcome[c]: what Router.Send returns
  pending,     \* Router.pending: request id -> the call whose slot is stored
  slot,        \* slot[c]: the message in c's slot channel (capacity 1)
  streamState, \* "unused", "up", "broken" (center not yet told), "closed"
  route,       \* route[h]: RouteStream of h's registry record
  link,        \* link[h]: d.stream of h's dialer
  down,        \* down[s]: messages from the center to the agent
  up,          \* up[s]: messages from the agent to the center
  run,         \* run[c]: the goroutine the agent started for c's request
  cancelFn     \* cancelFn[h][r]: Agent.cancelFns, request id -> run

routerVars == <<pc, callStream, outcome, pending, slot>>
streamVars == <<streamState, route, link>>
agentVars  == <<run, cancelFn>>
vars == <<routerVars, streamVars, down, up, agentVars>>

-----------------------------------------------------------------------------
GivenUp  == {"timeout", "canceled"}
Answered == {"result", "error"}
Outcomes == {"none", "refused", "sendfailed"} \union GivenUp \union Answered

(* A message to the agent: call is the call whose Send produced it.        *)
DownMsg == [type : {"request", "cancel"}, req : ReqId, call : Call]
(* A ToolResponse or ErrorResponse: run is the run that produced it.       *)
UpMsg   == [kind : Answered, req : ReqId, run : Call]

TypeOK ==
  /\ pc \in [Call -> {"idle", "stored", "waiting", "expired", "returning", "done"}]
  /\ callStream \in [Call -> Stream \union {None}]
  /\ outcome \in [Call -> [kind : Outcomes, run : Call \union {None}]]
  /\ pending \in [ReqId -> Call \union {None}]
  /\ slot \in [Call -> UpMsg \union {None}]
  /\ streamState \in [Stream -> {"unused", "up", "broken", "closed"}]
  /\ route \in [Agent -> Stream \union {None}]
  /\ link \in [Agent -> Stream \union {None}]
  /\ down \in [Stream -> Seq(DownMsg)]
  /\ up \in [Stream -> Seq(UpMsg)]
  /\ run \in [Call -> {"none", "running", "stopped", "returned", "ended"}]
  /\ cancelFn \in [Agent -> [ReqId -> Call \union {None}]]

Init ==
  /\ pc = [c \in Call |-> "idle"]
  /\ callStream = [c \in Call |-> None]
  /\ outcome = [c \in Call |-> [kind |-> "none", run |-> None]]
  /\ pending = [r \in ReqId |-> None]
  /\ slot = [c \in Call |-> None]
  /\ streamState = [s \in Stream |-> "unused"]
  /\ route = [h \in Agent |-> None]
  /\ link = [h \in Agent |-> None]
  /\ down = [s \in Stream |-> <<>>]
  /\ up = [s \in Stream |-> <<>>]
  /\ run = [c \in Call |-> "none"]
  /\ cancelFn = [h \in Agent |-> [r \in ReqId |-> None]]

-----------------------------------------------------------------------------
(* Streams.                                                                *)

(* The agent's dialer opens s and registers; the center's record for the   *)
(* agent is replaced (the handshake itself is module CenterTunnel's).      *)
Connect(s) ==
  /\ streamState[s] = "unused"
  /\ link[Owner[s]] = None
  /\ streamState' = [streamState EXCEPT ![s] = "up"]
  /\ link' = [link EXCEPT ![Owner[s]] = s]
  /\ route' = [route EXCEPT ![Owner[s]] = s]
  /\ UNCHANGED <<routerVars, down, up, agentVars>>

(* The connection breaks and the agent's read loop returns.  What the      *)
(* center sent is lost; of what the agent sent the center may still read   *)
(* a prefix, for it learns of the break later.                             *)
Break(s) ==
  /\ streamState[s] = "up"
  /\ streamState' = [streamState EXCEPT ![s] = "broken"]
  /\ link' = [link EXCEPT ![Owner[s]] = None]
  /\ down' = [down EXCEPT ![s] = <<>>]
  /\ \E n \in 0 .. Len(up[s]) : up' = [up EXCEPT ![s] = SubSeq(up[s], 1, n)]
  /\ UNCHANGED <<routerVars, route, agentVars>>

(* The center's Recv fails: Connect returns and UnregisterByStream removes *)
(* the record if it still routes to this stream.                           *)
CloseAtCenter(s) ==
  /\ streamState[s] = "broken"
  /\ up[s] = <<>>
  /\ streamState' = [streamState EXCEPT ![s] = "closed"]
  /\ route' = [h \in Agent |-> IF route[h] = s THEN None ELSE route[h]]
  /\ UNCHANGED <<routerVars, link, down, up, agentVars>>

(* RouteStream.Send puts m on the stream; on a broken stream it may seem   *)
(* to succeed, and what it sent is lost.                                   *)
SendDown(s, m) ==
  down' = IF streamState[s] = "up" THEN [down EXCEPT ![s] = Append(@, m)] ELSE down

-----------------------------------------------------------------------------
(* Router.Send, one action per step other goroutines can fall between.     *)

(* invokeToolWithRequest finds no usable record. *)
Refuse(c) ==
  /\ pc[c] = "idle"
  /\ pc' = [pc EXCEPT ![c] = "done"]
  /\ outcome' = [outcome EXCEPT ![c] = [kind |-> "refused", run |-> None]]
  /\ UNCHANGED <<callStream, pending, slot, streamVars, down, up, agentVars>>

(* The record is looked up and the slot stored: a slot another call stored *)
(* under the same id is replaced.                                          *)
StorePending(c) ==
  /\ pc[c] = "idle"
  /\ route[Target[c]] # None
  /\ pc' = [pc EXCEPT ![c] = "stored"]
  /\ callStream' = [callStream EXCEPT ![c] = route[Target[c]]]
  /\ pending' = [pending EXCEPT ![IdOf(c)] = c]
  /\ UNCHANGED <<outcome, slot, streamVars, down, up, agentVars>>

SendRequest(c) ==
  /\ pc[c] = "stored"
  /\ streamState[callStream[c]] # "closed"
  /\ pc' = [pc EXCEPT ![c] = "waiting"]
  /\ SendDown(callStream[c], [type |-> "request", req |-> IdOf(c), call |-> c])
  /\ UNCHANGED <<callStream, outcome, pending, slot, streamVars, up, agentVars>>

(* RouteStream.Send returns an error. *)
SendFails(c) ==
  /\ pc[c] = "stored"
  /\ streamState[callStream[c]] # "up"
  /\ pc' = [pc EXCEPT ![c] = "returning"]
  /\ outcome' = [outcome EXCEPT ![c] = [kind |-> "sendfailed", run |-> None]]
  /\ UNCHANGED <<callStream, pending, slot, streamVars, down, up, agentVars>>

(* Mutant: a message that comes while the cancel is sent still counts. *)
ReceiveLate(c) ==
  /\ pc[c] \in {"waiting", "expired"}
  /\ slot[c] # None
  /\ pc' = [pc EXCEPT ![c] = "returning"]
  /\ slot' = [slot EXCEPT ![c] = None]
  /\ outcome' = [outcome EXCEPT ![c] = [kind |-> slot[c].kind, run |-> slot[c].run]]
  /\ UNCHANGED <<callStream, pending, streamVars, down, up, agentVars>>

(* select takes the message out of the slot. *)
Receive(c) ==
  /\ pc[c] = "waiting"
  /\ slot[c] # None
  /\ pc' = [pc EXCEPT ![c] = "returning"]
  /\ slot' = [slot EXCEPT ![c] = None]
  /\ outcome' = [outcome EXCEPT ![c] = [kind |-> slot[c].kind, run |-> slot[c].run]]
  /\ UNCHANGED <<callStream, pending, streamVars, down, up, agentVars>>

(* Mutant: the deadline already runs while the request is being sent. *)
ExpireEarly(c) ==
  /\ pc[c] \in {"stored", "waiting"}
  /\ pc' = [pc EXCEPT ![c] = "expired"]
  /\ \E why \in GivenUp :
        outcome' = [outcome EXCEPT ![c] = [kind |-> why, run |-> None]]
  /\ UNCHANGED <<callStream, pending, slot, streamVars, down, up, agentVars>>

(* Mutant: no deadline; Send only gives up when the connection is gone. *)
ExpireOnBreak(c) ==
  /\ pc[c] = "waiting"
  /\ streamState[callStream[c]] # "up"
  /\ pc' = [pc EXCEPT ![c] = "expired"]
  /\ \E why \in GivenUp :
        outcome' = [outcome EXCEPT ![c] = [kind |-> why, run |-> None]]
  /\ UNCHANGED <<callStream, pending, slot, streamVars, down, up, agentVars>>

(* select takes ctx.Done instead, which it may do with a message ready:    *)
(* the router's deadline passed or the caller's context was canceled.      *)
Expire(c) ==
  /\ pc[c] = "waiting"
  /\ pc' = [pc EXCEPT ![c] = "expired"]
  /\ \E why \in GivenUp :
        outcome' = [outcome EXCEPT ![c] = [kind |-> why, run |-> None]]
  /\ UNCHANGED <<callStream, pending, slot, streamVars, down, up, agentVars>>

(* Mutant: Send returns its timeout without telling the agent. *)
SkipCancel(c) ==
  /\ pc[c] = "expired"
  /\ pc' = [pc EXCEPT ![c] = "returning"]
  /\ UNCHANGED <<callStream, outcome, pending, slot, streamVars, down, up, agentVars>>

(* The agent is told to stop; an error of this Send is ignored. *)
SendCancel(c) ==
  /\ pc[c] = "expired"
  /\ pc' = [pc EXCEPT ![c] = "returning"]
  /\ SendDown(callStream[c], [type |-> "cancel", req |-> IdOf(c), call |-> c])
  /\ UNCHANGED <<callStream, outcome, pending, slot, streamVars, up, agentVars>>

(* Mutant: the slot is deleted only when an answer was received. *)
ReturnKeepsSlot(c) ==
  /\ pc[c] = "returning"
  /\ pc' = [pc EXCEPT ![c] = "done"]
  /\ pending' = IF outcome[c].kind \in Answered
                THEN [pending EXCEPT ![IdOf(c)] = None] ELSE pending
  /\ UNCHANGED <<callStream, outcome, slot, streamVars, down, up, agentVars>>

(* The deferred pending.Delete(requestID), by id and not by slot. *)
Return(c) ==
  /\ pc[c] = "returning"
  /\ pc' = [pc EXCEPT ![c] = "done"]
  /\ pending' = [pending EXCEPT ![IdOf(c)] = None]
  /\ UNCHANGED <<callStream, outcome, slot, streamVars, down, up, agentVars>>

(* The stream's read loop calls DeliverFromMessage: the message goes to the*)
(* slot stored under its id, unless there is none or the slot is full.     *)
Deliver(s) ==
  /\ streamState[s] \in {"up", "broken"}
  /\ up[s] # <<>>
  /\ up' = [up EXCEPT ![s] = Tail(@)]
  /\ LET m == Head(up[s])
         c == pending[m.req]
     IN  slot' = IF c # None /\ slot[c] = None
                 THEN [slot EXCEPT ![c] = m]
                 ELSE slot
  /\ UNCHANGED <<pc, callStream, outcome, pending, streamVars, down, agentVars>>

-----------------------------------------------------------------------------
(* The agent: Agent.dispatch and the goroutine it starts per request.      *)

(* Mutant: the run starts without its cancel function being stored. *)
DispatchUnstored(s) ==
  /\ streamState[s] = "up"
  /\ down[s] # <<>>
  /\ Head(down[s]).type = "request"
  /\ down' = [down EXCEPT ![s] = Tail(@)]
  /\ run' = [run EXCEPT ![Head(down[s]).call] = "running"]
  /\ UNCHANGED <<routerVars, streamVars, up, cancelFn>>

(* dispatch of a ToolRequest: the run's cancel function is stored under    *)
(* the request id, over any other run's, and the run starts.               *)
DispatchRequest(s) ==
  /\ streamState[s] = "up"
  /\ down[s] # <<>>
  /\ Head(down[s]).type = "request"
  /\ down' = [down EXCEPT ![s] = Tail(@)]
  /\ run' = [run EXCEPT ![Head(down[s]).call] = "running"]
  /\ cancelFn' = [cancelFn EXCEPT ![Owner[s]][Head(down[s]).req] = Head(down[s]).call]
  /\ UNCHANGED <<routerVars, streamVars, up>>

(* dispatch of a CancelRequest: LoadAndDelete, then cancel what was stored. *)
DispatchCancel(s) ==
  /\ streamState[s] = "up"
  /\ down[s] # <<>>
  /\ Head(down[s]).type = "cancel"
  /\ down' = [down EXCEPT ![s] = Tail(@)]
  /\ LET c == cancelFn[Owner[s]][Head(down[s]).req]
     IN  run' = IF c # None /\ run[c] = "running"
                THEN [run EXCEPT ![c] = "stopped"]
                ELSE run
  /\ cancelFn' = [cancelFn EXCEPT ![Owner[s]][Head(down[s]).req] = None]
  /\ UNCHANGED <<routerVars, streamVars, up>>

(* The handler returns, by itself or because its context ended, and the    *)
(* answer is sent on the stream the dialer has now; without one it is lost.*)
RunAnswers(c) ==
  /\ run[c] \in {"running", "stopped"}
  /\ run' = [run EXCEPT ![c] = "returned"]
  /\ LET s == link[Target[c]]
     IN  \E kind \in Answered :
           up' = IF s = None THEN up
                 ELSE [up EXCEPT ![s] =
                         Append(@, [kind |-> kind, req |-> IdOf(c), run |-> c])]
  /\ UNCHANGED <<routerVars, streamVars, down, cancelFn>>

(* The run's deferred cancel and cancelFns.Delete, by id. *)
RunEnds(c) ==
  /\ run[c] = "returned"
  /\ run' = [run EXCEPT ![c] = "ended"]
  /\ cancelFn' = [cancelFn EXCEPT ![Target[c]][IdOf(c)] = None]
  /\ UNCHANGED <<routerVars, streamVars, down, up>>

-----------------------------------------------------------------------------
(* Nothing is left to do: the model stops here and nowhere else. *)
Quiet ==
  /\ \A c \in Call : pc[c] = "done" /\ run[c] \in {"none", "ended"}
  /\ \A s \in Stream : streamState[s] = "closed"
  /\ UNCHANGED vars

StreamStep(s) ==
  Connect(s) \/ Break(s) \/ CloseAtCenter(s)
    \/ Deliver(s) \/ DispatchRequest(s) \/ DispatchCancel(s)

CallStep(c) ==
  Refuse(c) \/ StorePending(c) \/ SendRequest(c) \/ SendFails(c) \/ Receive(c)
    \/ Expire(c) \/ SendCancel(c) \/ Return(c) \/ RunAnswers(c) \/ RunEnds(c)

Next == (\E s \in Stream : StreamStep(s)) \/ (\E c \in Call : CallStep(c)) \/ Quiet

Spec == Init /\ [][Next]_vars

(* Send returns once its timer fires, goroutines that can run do run, and  *)
(* messages on an open stream are read in the end.  Handlers need not      *)
(* return and connections need not break or be made.                       *)
Fairness ==
  /\ \A c \in Call :
       /\ WF_vars(SendRequest(c) \/ SendFails(c))
       /\ WF_vars(Receive(c) \/ Expire(c))
       /\ WF_vars(SendCancel(c))
       /\ WF_vars(Return(c))
       /\ WF_vars(RunEnds(c))
  /\ \A s \in Stream :
       /\ WF_vars(Deliver(s))
       /\ WF_vars(DispatchRequest(s) \/ DispatchCancel(s))

FairSpec == Spec /\ Fairness

-----------------------------------------------------------------------------
(* Correctness.                                                            *)

(* The messages of a queue. *)
Messages(q) == {q[i] : i \in 1 .. Len(q)}

(* Whatever a call returns as its answer was produced by the run the agent *)
(* started for this very call: Router.pending never pairs a response with  *)
(* another caller, over late, lost and reordered responses.                *)
AnswerIsOwn == \A c \in Call : outcome[c].run \in {c, None}

(* A call's slot is in Router.pending exactly from the Store to the        *)
(* deferred Delete: no slot leaks, and no Send waits without one.          *)
PendingExact ==
  \A c \in Call :
    pending[IdOf(c)] = c
      <=> pc[c] \in {"stored", "waiting", "expired", "returning"}

(* The agent only ever cancels the run of a call whose caller gave up: a   *)
(* CancelRequest never stops somebody else's run through cancelFns.        *)
OnlyAbandonedRunsStop ==
  \A c \in Call : run[c] = "stopped" => outcome[c].kind \in GivenUp

(* As long as a run works, the agent can find its cancel function: the     *)
(* deferred cancelFns.Delete of another run never takes it away.           *)
RunningIsCancelable ==
  \A c \in Call : run[c] = "running" => cancelFn[Target[c]][IdOf(c)] = c

(* A CancelRequest the agent reads finds its request already dispatched or *)
(* ahead of it on the stream: a cancel that came first would be ignored    *)
(* and the run would go on.                                                *)
CancelFollowsRequest ==
  \A s \in Stream : \A i \in 1 .. Len(down[s]) :
    down[s][i].type = "cancel" =>
      LET c == down[s][i].call
      IN  \/ run[c] # "none"
          \/ \E j \in 1 .. i - 1 : down[s][j].type = "request" /\ down[s][j].call = c

(* Every Send returns, whatever the agent and the connection do. *)
EveryCallReturns == \A c \in Call : pc[c] = "stored" ~> pc[c] = "done"

(* After its caller gave up, a run is canceled or has returned, unless the *)
(* stream it was requested on broke: the cancel reaches the right run.     *)
AbandonedRunStops ==
  \A c \in Call :
    pc[c] = "expired" ~>
      \/ run[c] \in {"stopped", "returned", "ended"}
      \/ \A s \in Stream : callStream[c] = s => streamState[s] # "up"

(* The refinement mapping to ToolCalls. *)
CallPhase == [c \in Call |->
  IF pc[c] = "idle" THEN "idle"
  ELSE IF outcome[c].kind = "none" THEN "active"
  ELSE IF outcome[c].kind \in Answered THEN "answered"
  ELSE "failed"]
CallsExecuted == {c \in Call : run[c] # "none"}
CallAnswer == [c \in Call |-> {outcome[c].run} \ {None}]

Calls == INSTANCE ToolCalls
  WITH phase <- CallPhase, executed <- CallsExecuted, answer <- CallAnswer

(* The center's router, the streams and the agents keep the promise of     *)
(* ToolCalls: at most one execution per call, and no answer but its own.   *)
ImplementsCalls == Calls!CallsSpec
=============================================================================
