---------------------------- MODULE CenterForward ----------------------------
(***************************************************************************)
(* Several center processes that share a database: each announces itself   *)
(* in center_instances (ha/registration.go), keeps the agents connected to *)
(* it in its registry and in agent_instances, and forwards a call to an    *)
(* agent it does not know to the center the database names                 *)
(* (ha/router_bridge.go, ha/forwarder.go, the /internal/forward handler of *)
(* run.go).  Processes crash, stop and are started again under the same    *)
(* instance id.                                                            *)
(*                                                                         *)
(* Registration is CenterTunnel's and Router.Send is ToolRouter's, both    *)
(* without the detail that does not matter here.  A call has a request id  *)
(* of its own, and so a row of tool_call_logs of its own.                  *)
(***************************************************************************)

CONSTANTS
  Process,     \* executions of sysplane-center
  Instance,    \* instance ids, hostname and gRPC address
  Host,        \* agents
  Stream,      \* TunnelService.Connect calls, each used once
  Call,        \* executions of invokeToolWithRequest
  None,        \* no row, no record, no process
  Id,          \* Id[p]: the instance id of p
  HostOf,      \* HostOf[s]: the agent that opens s
  ServerOf,    \* ServerOf[s]: the process s is opened to
  TargetOf,    \* TargetOf[c]: the agent c is for
  OriginOf     \* OriginOf[c]: the process that is asked

ASSUME ForwardAssumption ==
  /\ Id \in [Process -> Instance]
  /\ HostOf \in [Stream -> Host]
  /\ ServerOf \in [Stream -> Process]
  /\ TargetOf \in [Call -> Host]
  /\ OriginOf \in [Call -> Process]
  /\ None \notin Process \union Instance \union Stream

VARIABLES
  proc,       \* proc[p]: the life of the process
  centerRow,  \* the instance ids that have a row in center_instances
  conn,       \* the streams that are open as their agents see it
  hpc,        \* hpc[s]: the handler of s
  reg,        \* reg[p][h]: RouteStream of h's record in p's registry
  agentRow,   \* agentRow[h]: center_id of h's row in agent_instances
  pc,         \* pc[c]: how far invokeToolWithRequest has come
  where,      \* where[c]: the center_id ForwardIfNeeded read
  remote,     \* remote[c]: the /internal/forward handler: process, step, reply
  outcome,    \* outcome[c]: what invokeToolWithRequest returns
  log,        \* log[c]: c's row in tool_call_logs
  failed,     \* history: the calls one of whose statements failed
  home        \* home[c]: history, see Watch

processVars == <<proc, centerRow>>
tunnelVars  == <<conn, hpc, reg, agentRow>>
callVars    == <<pc, where, outcome>>
vars == <<processVars, tunnelVars, callVars, remote, log, failed, home>>

-----------------------------------------------------------------------------
(* A process is registered in center_instances before it listens.  Its     *)
(* context is canceled when it is stopping; it has left after DeleteCenter.*)
Alive(p) == proc[p] \in {"registered", "serving", "stopping", "left"}

Active(c) == pc[c] \notin {"idle", "done", "dead"}

(* blank: completed with neither a result nor an error. *)
Rows     == {"none", "open", "blank", "error", "result"}
(* errNodeNotFound is notfound, with nothing known of the agent's center,   *)
(* or unaddressed, with an error about its address that is dropped; missing *)
(* is the error of a center that does not know the agent.                   *)
Outcomes == {"none", "refused", "notfound", "unaddressed", "missing", "failed", "result"}
Replies  == {"none", "missing", "failed", "result"}

TypeOK ==
  /\ proc \in [Process -> {"new", "registered", "serving", "stopping", "left", "ended"}]
  /\ centerRow \subseteq Instance
  /\ conn \subseteq Stream
  /\ hpc \in [Stream -> {"unused", "persisting", "persisted", "reading", "returned"}]
  /\ reg \in [Process -> [Host -> Stream \union {None}]]
  /\ agentRow \in [Host -> Instance \union {None}]
  /\ pc \in [Call -> {"idle", "missed", "located", "addressed", "posted", "sending",
                      "returned", "done", "dead"}]
  /\ where \in [Call -> Instance \union {None}]
  /\ remote \in [Call -> [at : Process \union {None},
                          pc : {"none", "arrived", "sending", "sent", "replied", "lost"},
                          reply : Replies]]
  /\ outcome \in [Call -> Outcomes]
  /\ log \in [Call -> Rows]
  /\ failed \subseteq Call
  /\ home \in [Call -> Process \union {None}]

Init ==
  /\ proc = [p \in Process |-> "new"]
  /\ centerRow = {}
  /\ conn = {}
  /\ hpc = [s \in Stream |-> "unused"]
  /\ reg = [p \in Process |-> [h \in Host |-> None]]
  /\ agentRow = [h \in Host |-> None]
  /\ pc = [c \in Call |-> "idle"]
  /\ where = [c \in Call |-> None]
  /\ remote = [c \in Call |-> [at |-> None, pc |-> "none", reply |-> "none"]]
  /\ outcome = [c \in Call |-> "none"]
  /\ log = [c \in Call |-> "none"]
  /\ failed = {}
  /\ home = [c \in Call |-> None]

-----------------------------------------------------------------------------
(* The life of a center process.                                           *)

Turns(p, from, to) ==
  /\ proc[p] \in from
  /\ proc' = [proc EXCEPT ![p] = to]

(* The process is no more: streams break, handlers of both kinds vanish,   *)
(* and so do the calls it was asked for.                                   *)
Ends(p) ==
  /\ Alive(p)
  /\ proc' = [proc EXCEPT ![p] = "ended"]
  /\ conn' = {s \in conn : ServerOf[s] # p}
  /\ hpc' = [s \in Stream |-> IF ServerOf[s] = p /\ hpc[s] # "unused" THEN "returned" ELSE hpc[s]]
  /\ reg' = [reg EXCEPT ![p] = [h \in Host |-> None]]
  /\ pc' = [c \in Call |-> IF OriginOf[c] = p /\ Active(c) THEN "dead" ELSE pc[c]]
  /\ remote' = [c \in Call |->
                 IF remote[c].at = p /\ remote[c].pc # "replied"
                   THEN [remote[c] EXCEPT !.pc = "lost"] ELSE remote[c]]
  /\ UNCHANGED <<centerRow, agentRow, where, outcome, log, failed>>

(* setupStore with UpsertCenter: without it the process does not start. *)
Start(p) ==
  /\ Turns(p, {"new"}, "registered")
  /\ centerRow' = centerRow \union {Id[p]}
  /\ UNCHANGED <<tunnelVars, callVars, remote, log, failed>>

StartFails(p) ==
  /\ Turns(p, {"new"}, "ended")
  /\ UNCHANGED <<centerRow, tunnelVars, callVars, remote, log, failed>>

Serving(p) == proc[p] = "serving"

(* Mutant: processes with one id may all listen. *)
ListenAlways(p) ==
  /\ Turns(p, {"registered"}, "serving")
  /\ UNCHANGED <<centerRow, tunnelVars, callVars, remote, log, failed>>

(* Of two processes with one id, thus one address, one can listen. *)
Listen(p) ==
  /\ \A q \in Process : Serving(q) => Id[q] # Id[p]
  /\ Turns(p, {"registered"}, "serving")
  /\ UNCHANGED <<centerRow, tunnelVars, callVars, remote, log, failed>>

(* The address is in use, and Run returns the error; or the process is     *)
(* killed.  Neither removes its row.                                       *)
Crash(p) == Ends(p)

(* Mutant: a row that is there is refreshed. *)
HeartbeatUpdates(p) ==
  /\ proc[p] \in {"registered", "serving", "stopping"}
  /\ UNCHANGED <<processVars, tunnelVars, callVars, remote, log, failed>>

(* Every thirty seconds the row is written again, once more perhaps when   *)
(* the context is canceled already; a failure is ignored.                  *)
Heartbeat(p) ==
  /\ proc[p] \in {"registered", "serving", "stopping"}
  /\ centerRow' = centerRow \union {Id[p]}
  /\ UNCHANGED <<proc, tunnelVars, callVars, remote, log, failed>>

(* SIGTERM cancels the context of Run: both servers close their listeners. *)
(* Tunnel streams stay until their agents close them, requests under way   *)
(* go on.                                                                  *)
Stop(p) ==
  /\ Turns(p, {"registered", "serving"}, "stopping")
  /\ UNCHANGED <<centerRow, tunnelVars, callVars, remote, log, failed>>

(* The registrar's goroutine removes the row by instance id, whoever wrote *)
(* it last.                                                                *)
Deregister(p) ==
  /\ Turns(p, {"stopping"}, "left")
  /\ centerRow' \in {centerRow \ {Id[p]}, centerRow}
  /\ UNCHANGED <<tunnelVars, callVars, remote, log, failed>>

(* Run returns when GracefulStop has seen the last stream end; it does not *)
(* wait for the registrar, nor for HTTP requests.                          *)
Exit(p) ==
  /\ proc[p] \in {"stopping", "left"}
  /\ \A s \in Stream : ServerOf[s] = p => hpc[s] \in {"unused", "returned"}
  /\ Ends(p)

-----------------------------------------------------------------------------
(* Registration of agents, in short: see CenterTunnel.                     *)

(* An agent has one stream at a time. *)
Dial(s) ==
  /\ Serving(ServerOf[s])
  /\ hpc[s] = "unused"
  /\ \A t \in conn : HostOf[t] # HostOf[s]
  /\ conn' = conn \union {s}
  /\ hpc' = [hpc EXCEPT ![s] = "persisting"]
  /\ UNCHANGED <<processVars, reg, agentRow, callVars, remote, log, failed>>

Break(s) ==
  /\ s \in conn
  /\ conn' = conn \ {s}
  /\ UNCHANGED <<processVars, hpc, reg, agentRow, callVars, remote, log, failed>>

(* UpsertAgent, with a context of its own. *)
Persist(s) ==
  /\ hpc[s] = "persisting"
  /\ hpc' = [hpc EXCEPT ![s] = "persisted"]
  /\ agentRow' = [agentRow EXCEPT ![HostOf[s]] = Id[ServerOf[s]]]
  /\ UNCHANGED <<processVars, conn, reg, callVars, remote, log, failed>>

PersistFails(s) ==
  /\ hpc[s] = "persisting"
  /\ hpc' = [hpc EXCEPT ![s] = "returned"]
  /\ conn' = conn \ {s}
  /\ UNCHANGED <<processVars, reg, agentRow, callVars, remote, log, failed>>

Register(s) ==
  /\ hpc[s] = "persisted"
  /\ hpc' = [hpc EXCEPT ![s] = "reading"]
  /\ reg' = [reg EXCEPT ![ServerOf[s]][HostOf[s]] = s]
  /\ UNCHANGED <<processVars, conn, agentRow, callVars, remote, log, failed>>

(* UnregisterByStream.  The row keeps its center_id. *)
Close(s) ==
  /\ hpc[s] = "reading"
  /\ s \notin conn
  /\ hpc' = [hpc EXCEPT ![s] = "returned"]
  /\ reg' = [reg EXCEPT ![ServerOf[s]] =
              [h \in Host |-> IF reg[ServerOf[s]][h] = s THEN None ELSE reg[ServerOf[s]][h]]]
  /\ UNCHANGED <<processVars, conn, agentRow, callVars, remote, log, failed>>

-----------------------------------------------------------------------------
(* invokeToolWithRequest at the process that was asked.                    *)

Goes(c, from, to) ==
  /\ pc[c] = from
  /\ pc' = [pc EXCEPT ![c] = to]

Returns(c, from, what) ==
  /\ Goes(c, from, "returned")
  /\ outcome' = [outcome EXCEPT ![c] = what]

(* A statement on c's row.  It fails if the database does, or because c's  *)
(* context was canceled: the client left or the invocation was canceled.   *)
(* Its error is ignored.                                                   *)
Writes(c, new) == log' = [log EXCEPT ![c] = new] /\ UNCHANGED failed
Fails(c)       == failed' = failed \union {c}
Logged(c, new) == Writes(c, new) \/ (Fails(c) /\ UNCHANGED log)

(* InsertToolCallLog does nothing if there is a row ... *)
Inserted(c) == IF log[c] = "none" THEN "open" ELSE log[c]

(* ... and CompleteToolCallLog nothing if there is none. *)
Completed(c, new) == IF log[c] = "none" THEN "none" ELSE new

Known(p, c) == reg[p][TargetOf[c]] # None

Asked(c) ==
  /\ pc[c] = "idle"
  /\ Serving(OriginOf[c])

(* The record is there and its agent is online. *)
FindLocal(c) ==
  /\ Asked(c)
  /\ Known(OriginOf[c], c)
  /\ Goes(c, "idle", "sending")
  /\ Logged(c, Inserted(c))
  /\ UNCHANGED <<processVars, tunnelVars, where, outcome, remote>>

(* The record is there and marked offline: no row. *)
RefuseOffline(c) ==
  /\ Asked(c)
  /\ Known(OriginOf[c], c)
  /\ Goes(c, "idle", "done")
  /\ outcome' = [outcome EXCEPT ![c] = "refused"]
  /\ UNCHANGED <<processVars, tunnelVars, where, remote, log, failed>>

Miss(c) ==
  /\ Asked(c)
  /\ ~ Known(OriginOf[c], c)
  /\ Goes(c, "idle", "missed")
  /\ Logged(c, Inserted(c))
  /\ UNCHANGED <<processVars, tunnelVars, where, outcome, remote>>

(* Router.Send returns with an answer or an error, by its deadline. *)
SendReturns(c) ==
  /\ \E what \in {"result", "failed"} : Returns(c, "sending", what)
  /\ UNCHANGED <<processVars, tunnelVars, where, remote, log, failed>>

(* What CompleteToolCallLog is told of what came back. *)
Record(what) ==
  CASE what = "result"   -> "result"
    [] what = "notfound" -> "blank"
    [] OTHER             -> "error"

(* Mutant: what came back from another center is not logged. *)
CompleteLocal(c) ==
  /\ Goes(c, "returned", "done")
  /\ Logged(c, IF remote[c].at = None THEN Completed(c, Record(outcome[c])) ELSE log[c])
  /\ UNCHANGED <<processVars, tunnelVars, where, outcome, remote>>

(* With or without an error. *)
Complete(c) ==
  /\ Goes(c, "returned", "done")
  /\ Logged(c, Completed(c, Record(outcome[c])))
  /\ UNCHANGED <<processVars, tunnelVars, where, outcome, remote>>

-----------------------------------------------------------------------------
(* ForwardIfNeeded.                                                        *)

(* GetAgent: no row, this process' own id, or the id of another center. *)
ReadRow(c) ==
  /\ \/ /\ agentRow[TargetOf[c]] \in {None, Id[OriginOf[c]]}
        /\ Returns(c, "missed", "notfound")
        /\ UNCHANGED where
     \/ /\ agentRow[TargetOf[c]] \notin {None, Id[OriginOf[c]]}
        /\ Goes(c, "missed", "located")
        /\ where' = [where EXCEPT ![c] = agentRow[TargetOf[c]]]
        /\ UNCHANGED outcome
  /\ UNCHANGED <<processVars, tunnelVars, remote, log, failed>>

(* An error of GetAgent is returned as such ... *)
ReadRowFails(c) ==
  /\ Fails(c)
  /\ Returns(c, "missed", "failed")
  /\ UNCHANGED <<processVars, tunnelVars, where, remote, log>>

(* GetCenterAddress. *)
ReadAddress(c) ==
  /\ where[c] \in centerRow
  /\ Goes(c, "located", "addressed")
  /\ UNCHANGED <<processVars, tunnelVars, where, outcome, remote, log, failed>>

(* ... one of GetCenterAddress is returned with forwarded = false, like no *)
(* row: the caller makes both errNodeNotFound.                             *)
ReadAddressFails(c) ==
  /\ (where[c] \notin centerRow /\ UNCHANGED failed) \/ Fails(c)
  /\ Returns(c, "located", "unaddressed")
  /\ UNCHANGED <<processVars, tunnelVars, where, remote, log>>

(* ForwardToCenter: the request reaches the process that listens there. *)
Post(c, q) ==
  /\ Serving(q)
  /\ Id[q] = where[c]
  /\ Goes(c, "addressed", "posted")
  /\ remote' = [remote EXCEPT ![c] = [at |-> q, pc |-> "arrived", reply |-> "none"]]
  /\ UNCHANGED <<processVars, tunnelVars, where, outcome, log, failed>>

(* Mutant: no deadline, and a center that vanished is not noticed. *)
PostFailsWithReply(c) ==
  /\ \/ Returns(c, "addressed", "failed")
     \/ /\ remote[c].pc = "replied"
        /\ Returns(c, "posted", "failed")
  /\ UNCHANGED <<processVars, tunnelVars, where, remote, log, failed>>

(* Nobody listens, the connection breaks, the secrets differ, the deadline *)
(* of thirty seconds passes, or the client leaves.                         *)
PostFails(c) ==
  /\ \E from \in {"addressed", "posted"} : Returns(c, from, "failed")
  /\ UNCHANGED <<processVars, tunnelVars, where, remote, log, failed>>

(* The response; one of a process that then ended may still arrive. *)
ReceiveReply(c) ==
  /\ remote[c].pc = "replied"
  /\ Returns(c, "posted", remote[c].reply)
  /\ UNCHANGED <<processVars, tunnelVars, where, remote, log, failed>>

-----------------------------------------------------------------------------
(* makeInternalForwardHandler.                                             *)

Handles(c, from, to, reply) ==
  /\ remote[c].pc = from
  /\ remote' = [remote EXCEPT ![c].pc = to, ![c].reply = reply]

(* Once the caller has given up the request's context is canceled, sooner  *)
(* or later, and statements do nothing.                                    *)
RemoteLogged(c, new) ==
  \/ Logged(c, new)
  \/ pc[c] # "posted" /\ UNCHANGED <<log, failed>>

RemoteMiss(c) ==
  /\ Handles(c, "arrived", "replied", "missing")
  /\ ~ Known(remote[c].at, c)
  /\ UNCHANGED <<processVars, tunnelVars, callVars, log, failed>>

(* Whatever the record's status, and never to a third center. *)
RemoteFind(c) ==
  /\ Handles(c, "arrived", "sending", "none")
  /\ Known(remote[c].at, c)
  /\ RemoteLogged(c, Inserted(c))
  /\ UNCHANGED <<processVars, tunnelVars, callVars>>

(* Router.Send returns. *)
RemoteSent(c) ==
  /\ \E reply \in {"result", "failed"} : Handles(c, "sending", "sent", reply)
  /\ UNCHANGED <<processVars, tunnelVars, callVars, log, failed>>

(* The row is completed before the response is written. *)
RemoteComplete(c) ==
  /\ Handles(c, "sent", "replied", remote[c].reply)
  /\ RemoteLogged(c, Completed(c, Record(remote[c].reply)))
  /\ UNCHANGED <<processVars, tunnelVars, callVars>>

-----------------------------------------------------------------------------
(* Agent h is settled at q: q serves it, and the database says so. *)
SettledAt(h, q) ==
  /\ Serving(q)
  /\ reg[q][h] # None
  /\ agentRow[h] = Id[q]
  /\ Id[q] \in centerRow

Home(h) ==
  IF \E q \in Process : SettledAt(h, q)
    THEN CHOOSE q \in Process : SettledAt(h, q) ELSE None

(* History: the process c's target is settled at when c begins, as long as *)
(* it stays settled there.                                                 *)
Watch ==
  home' = [c \in Call |->
            IF pc[c] = "idle" THEN (IF pc'[c] = "idle" THEN None ELSE Home(TargetOf[c])')
            ELSE IF \E q \in Process : q = home[c] /\ SettledAt(TargetOf[c], q)' THEN home[c]
            ELSE None]

-----------------------------------------------------------------------------
ProcessStep ==
  \E p \in Process :
    \/ Start(p) \/ StartFails(p) \/ Listen(p) \/ Crash(p)
    \/ Heartbeat(p) \/ Stop(p) \/ Deregister(p) \/ Exit(p)

TunnelStep ==
  \E s \in Stream :
    \/ Dial(s) \/ Break(s) \/ Persist(s) \/ PersistFails(s) \/ Register(s) \/ Close(s)

(* What happens to a call at its origin once it was asked for ... *)
Proceeds(c) ==
  \/ SendReturns(c) \/ Complete(c)
  \/ ReadRow(c) \/ ReadRowFails(c) \/ ReadAddress(c) \/ ReadAddressFails(c)
  \/ (\E q \in Process : Post(c, q))
  \/ PostFails(c) \/ ReceiveReply(c)

CallStep ==
  \E c \in Call :
    \/ FindLocal(c) \/ RefuseOffline(c) \/ Miss(c) \/ Proceeds(c)

(* ... and at the center it was forwarded to. *)
RemoteStep ==
  \E c \in Call :
    \/ RemoteMiss(c) \/ RemoteFind(c) \/ RemoteSent(c) \/ RemoteComplete(c)

(* All processes have ended. *)
Quiet ==
  /\ \A p \in Process : proc[p] = "ended"
  /\ UNCHANGED <<processVars, tunnelVars, callVars, remote, log, failed>>

Step == ProcessStep \/ TunnelStep \/ CallStep \/ RemoteStep \/ Quiet

Next == Step /\ Watch

Spec == Init /\ [][Next]_vars

(* The ticker of the registrar ticks and the goroutine of a call runs on:  *)
(* Router.Send and ForwardToCenter have a deadline.                        *)
Fairness ==
  /\ \A p \in Process : WF_centerRow(Heartbeat(p))
  /\ \A c \in Call : WF_pc(Proceeds(c))

FairSpec == Spec /\ Fairness

-----------------------------------------------------------------------------
(* Properties.                                                             *)

(* An agent that is settled at one center from the question on is found:   *)
(* neither the center that was asked nor the one it asked says that there  *)
(* is no such agent, through crashes, restarts under the same id and       *)
(* streams that come and go.                                               *)
NotFoundMeansMoved ==
  \A c \in Call :
    outcome[c] \in {"notfound", "unaddressed", "missing"} /\ c \notin failed =>
      home[c] = None

(* Two centers write one log row.  If no statement fails, it is completed  *)
(* when the call returns, with the result if there was one.                *)
ReturnIsLogged ==
  \A c \in Call :
    pc[c] = "done" /\ outcome[c] # "refused" /\ c \notin failed =>
      /\ log[c] \in {"blank", "error", "result"}
      /\ outcome[c] = "result" => log[c] = "result"

(* Every call returns or dies with its process: a center that was asked    *)
(* for help and hangs, dies or stops is waited for no longer than the      *)
(* deadline.                                                               *)
EveryCallReturns ==
  \A c \in Call : Active(c) ~> ~ Active(c)

(* Again and again every center that serves has its row: a predecessor     *)
(* with the same id that leaves late removes it, and a heartbeat brings it *)
(* back.                                                                   *)
ServingIsAddressed == []<>(\A p \in Process : Serving(p) => Id[p] \in centerRow)

=============================================================================
