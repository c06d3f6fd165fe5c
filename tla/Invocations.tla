----------------------------- MODULE Invocations -----------------------------
(***************************************************************************)
(* Invocations at sysplane-center (admin/service.go): creation, execution  *)
(* on several nodes at once, the summary of the results, cancellation over *)
(* cancelFns, the audit event and the tool_call_logs rows.                 *)
(*                                                                         *)
(* The goroutine of a synchronous invocation is the HTTP request's; an     *)
(* asynchronous one gets its own.  What a tool call returns is chosen      *)
(* freely here: ToolRouter says how Router.Send gets there, and that it    *)
(* does.                                                                   *)
(***************************************************************************)
EXTENDS Naturals

CONSTANTS
  Invocation,  \* invocation ids
  Node,        \* node ids
  Cancel,      \* requests to cancel an invocation
  None,        \* nothing; the target in the log key of a builtin action
  Targets,     \* Targets[i]: the nodes i is for, after dedupe; maybe none
  Async,       \* the asynchronous invocations
  Builtin,     \* the invocations of builtin actions, not of templates
  CancelOf,    \* CancelOf[k]: the invocation that k is about
  DBFails      \* whether statements on tool_call_logs may fail

ASSUME InvocationAssumption ==
  /\ Targets \in [Invocation -> SUBSET Node]
  /\ Async \subseteq Invocation
  /\ Builtin \subseteq Invocation
  /\ CancelOf \in [Cancel -> Invocation]
  /\ None \notin Node
  /\ DBFails \in BOOLEAN

(* One executeTarget each. *)
Work == {w \in Invocation \X Node : w[2] \in Targets[w[1]]}

VARIABLES
  pc,        \* pc[i]: where CreateInvocation and executeInvocation are
  ctx,       \* ctx[i]: the context the targets run with
  status,    \* status[i]: Status of the record in s.invocations
  results,   \* results[i]: s.results, the status of each node's result
  verdict,   \* verdict[i]: finalStatus
  audit,     \* audit[i]: Decision of i's audit event
  cancelFn,  \* the invocations in cancelFns
  told,      \* the invocations whose creator got its response
  work,      \* work[w]: where executeTarget is
  got,       \* got[w]: the status of its result
  row,       \* row[key]: the tool_call_logs row: opened for, closed by
  canceler   \* canceler[k]: where CancelInvocation is and what it saw

recordVars == <<status, results, verdict, audit>>
targetVars == <<work, got, row>>
vars == <<pc, ctx, recordVars, cancelFn, told, targetVars, canceler>>

-----------------------------------------------------------------------------
Outcome == {"succeeded", "failed", "canceled"}
Final   == Outcome \union {"partial"}
Status  == {"none", "pending", "running"} \union Final

(* The request ids the calls are made and logged under. *)
LogKey == Invocation \X (Node \union {None})

(* executeTemplate appends the node id, executeBuiltin does not. *)
KeyOf(w) == IF w[1] \in Builtin THEN <<w[1], None>> ELSE w

NoWork == <<None, None>>

TypeOK ==
  /\ pc \in [Invocation -> {"new", "refused", "recorded", "audited", "cancelable", "launched",
                            "executing", "summarized", "finished", "closing", "done"}]
  /\ ctx \in [Invocation -> {"live", "canceled"}]
  /\ status \in [Invocation -> Status]
  /\ results \in [Invocation -> [Node -> Outcome \union {"none"}]]
  /\ verdict \in [Invocation -> Final \union {"none"}]
  /\ audit \in [Invocation -> Final \union {"none", "accepted"}]
  /\ cancelFn \subseteq Async
  /\ told \subseteq Invocation
  /\ work \in [Work -> {"idle", "started", "calling", "called", "done"}]
  /\ got \in [Work -> Outcome \union {"none"}]
  /\ row \in [LogKey -> [for : Work \union {NoWork}, by : Work \union {NoWork}]]
  /\ canceler \in [Cancel -> [at : {"idle", "found", "active", "called", "answered"},
                              late : BOOLEAN, answer : Status]]

Init ==
  /\ pc = [i \in Invocation |-> "new"]
  /\ ctx = [i \in Invocation |-> "live"]
  /\ status = [i \in Invocation |-> "none"]
  /\ results = [i \in Invocation |-> [n \in Node |-> "none"]]
  /\ verdict = [i \in Invocation |-> "none"]
  /\ audit = [i \in Invocation |-> "none"]
  /\ cancelFn = {}
  /\ told = {}
  /\ work = [w \in Work |-> "idle"]
  /\ got = [w \in Work |-> "none"]
  /\ row = [key \in LogKey |-> [for |-> NoWork, by |-> NoWork]]
  /\ canceler = [k \in Cancel |-> [at |-> "idle", late |-> FALSE, answer |-> "none"]]

-----------------------------------------------------------------------------
(* CreateInvocation.                                                       *)

Goes(i, from, to) ==
  /\ pc[i] = from
  /\ pc' = [pc EXCEPT ![i] = to]

(* preparePlan fails: no record, no audit event. *)
Refuse(i) ==
  /\ Goes(i, "new", "refused")
  /\ told' = told \union {i}
  /\ UNCHANGED <<ctx, recordVars, cancelFn, targetVars, canceler>>

(* The record and an empty list of results can be found from here on. *)
Record(i) ==
  /\ Goes(i, "new", "recorded")
  /\ status' = [status EXCEPT ![i] = "pending"]
  /\ UNCHANGED <<ctx, results, verdict, audit, cancelFn, told, targetVars, canceler>>

AuditStart(i) ==
  /\ Goes(i, "recorded", "audited")
  /\ audit' = [audit EXCEPT ![i] = "accepted"]
  /\ UNCHANGED <<ctx, status, results, verdict, cancelFn, told, targetVars, canceler>>

(* An asynchronous invocation gets a context and a cancel function of its  *)
(* own ...                                                                 *)
StoreCancel(i) ==
  /\ i \in Async
  /\ Goes(i, "audited", "cancelable")
  /\ cancelFn' = cancelFn \union {i}
  /\ UNCHANGED <<ctx, recordVars, told, targetVars, canceler>>

(* ... then its goroutine, and its creator gets the response. *)
Launch(i) ==
  /\ i \in Async
  /\ Goes(i, "cancelable", "launched")
  /\ told' = told \union {i}
  /\ UNCHANGED <<ctx, recordVars, cancelFn, targetVars, canceler>>

(* The client of a synchronous invocation goes away; net/http cancels the  *)
(* request's context.                                                      *)
ClientLeaves(i) ==
  /\ i \notin Async
  /\ i \notin told
  /\ pc[i] # "new"
  /\ ctx[i] = "live"
  /\ ctx' = [ctx EXCEPT ![i] = "canceled"]
  /\ UNCHANGED <<pc, recordVars, cancelFn, told, targetVars, canceler>>

-----------------------------------------------------------------------------
(* executeInvocation.                                                      *)

(* The record is marked running and a goroutine started per target. *)
Start(i) ==
  /\ Goes(i, IF i \in Async THEN "launched" ELSE "audited", "executing")
  /\ status' = [status EXCEPT ![i] = "running"]
  /\ work' = [w \in Work |-> IF w[1] = i THEN "started" ELSE work[w]]
  /\ UNCHANGED <<ctx, results, verdict, audit, cancelFn, told, got, row, canceler>>

(* Mutant: the context is not looked at. *)
SummaryOfResults(outcomes, context) ==
  IF outcomes = {"canceled"} THEN "canceled"
  ELSE IF outcomes = {"succeeded"} THEN "succeeded"
  ELSE IF "succeeded" \notin outcomes THEN "failed"
  ELSE "partial"

(* summarizeInvocationStatus. *)
Summary(outcomes, context) ==
  IF context = "canceled" \/ outcomes = {"canceled"} THEN "canceled"
  ELSE IF outcomes = {"succeeded"} THEN "succeeded"
  ELSE IF "succeeded" \notin outcomes THEN "failed"
  ELSE "partial"

OutcomesOf(i) == {got[w] : w \in {v \in Work : v[1] = i}}

(* Mutant: the first result is enough. *)
SummarizeEarly(i) ==
  /\ \E w \in Work : w[1] = i /\ work[w] = "done"
  /\ Goes(i, "executing", "summarized")
  /\ verdict' = [verdict EXCEPT ![i] = Summary(OutcomesOf(i) \ {"none"}, ctx[i])]
  /\ UNCHANGED <<ctx, status, results, audit, cancelFn, told, targetVars, canceler>>

(* Mutant: the cancel function is dropped when the targets are done. *)
SummarizeDropping(i) ==
  /\ \A w \in Work : w[1] = i => work[w] = "done"
  /\ Goes(i, "executing", "summarized")
  /\ verdict' = [verdict EXCEPT ![i] = Summary(OutcomesOf(i), ctx[i])]
  /\ cancelFn' = cancelFn \ {i}
  /\ UNCHANGED <<ctx, status, results, audit, told, targetVars, canceler>>

(* wg.Wait returns. *)
Summarize(i) ==
  /\ \A w \in Work : w[1] = i => work[w] = "done"
  /\ Goes(i, "executing", "summarized")
  /\ verdict' = [verdict EXCEPT ![i] = Summary(OutcomesOf(i), ctx[i])]
  /\ UNCHANGED <<ctx, status, results, audit, cancelFn, told, targetVars, canceler>>

(* Status and results are published together. *)
Finish(i) ==
  /\ Goes(i, "summarized", "finished")
  /\ status' = [status EXCEPT ![i] = verdict[i]]
  /\ results' = [results EXCEPT ![i] =
                   [n \in Node |-> IF n \in Targets[i] THEN got[<<i, n>>] ELSE "none"]]
  /\ UNCHANGED <<ctx, verdict, audit, cancelFn, told, targetVars, canceler>>

(* Mutant: the decision is summarized once more. *)
FinishAuditAgain(i) ==
  /\ Goes(i, "finished", "closing")
  /\ audit' = [audit EXCEPT ![i] = Summary(OutcomesOf(i), ctx[i])]
  /\ UNCHANGED <<ctx, status, results, verdict, cancelFn, told, targetVars, canceler>>

(* Mutant: so is the status, which a late cancellation changes. *)
FinishAuditMarking(i) ==
  /\ Goes(i, "finished", "closing")
  /\ status' = [status EXCEPT ![i] = Summary(OutcomesOf(i), ctx[i])]
  /\ audit' = [audit EXCEPT ![i] = Summary(OutcomesOf(i), ctx[i])]
  /\ UNCHANGED <<ctx, results, verdict, cancelFn, told, targetVars, canceler>>

FinishAudit(i) ==
  /\ Goes(i, "finished", "closing")
  /\ audit' = [audit EXCEPT ![i] = verdict[i]]
  /\ UNCHANGED <<ctx, status, results, verdict, cancelFn, told, targetVars, canceler>>

(* Mutant: the cancel function stays. *)
ReturnKeeping(i) ==
  /\ Goes(i, "closing", "done")
  /\ told' = told \union {i}
  /\ UNCHANGED <<ctx, recordVars, cancelFn, targetVars, canceler>>

(* The cancel function is dropped; a synchronous creator gets its response.*)
Return(i) ==
  /\ Goes(i, "closing", "done")
  /\ cancelFn' = cancelFn \ {i}
  /\ told' = told \union {i}
  /\ UNCHANGED <<ctx, recordVars, targetVars, canceler>>

-----------------------------------------------------------------------------
(* executeTarget and invokeToolWithRequest.                                *)

Proceeds(w, from, to) ==
  /\ work[w] = from
  /\ work' = [work EXCEPT ![w] = to]

(* A statement with the invocation's context: it does nothing once that is *)
(* canceled, and its error is ignored.                                     *)
Logged(w, new) ==
  row' \in IF ctx[w[1]] = "canceled" THEN {row}
           ELSE IF DBFails THEN {row, new}
           ELSE {new}

(* Wrong parameters or platform, node unknown, offline or a proxy. *)
TargetFails(w) ==
  /\ Proceeds(w, "started", "done")
  /\ got' = [got EXCEPT ![w] = "failed"]
  /\ UNCHANGED <<pc, ctx, recordVars, cancelFn, told, row, canceler>>

(* InsertToolCallLog: a row that exists under the request id stays. *)
OpenRow(w) ==
  /\ Proceeds(w, "started", "calling")
  /\ Logged(w, IF row[KeyOf(w)].for # NoWork THEN row
               ELSE [row EXCEPT ![KeyOf(w)] = [for |-> w, by |-> NoWork]])
  /\ UNCHANGED <<pc, ctx, recordVars, cancelFn, told, got, canceler>>

(* Router.Send or ForwardIfNeeded returns: with a result, which            *)
(* spec.Transform or the exit code may turn into a failure, with an error  *)
(* or a timeout, or, only if the context was canceled, with CANCELED.      *)
Call(w) ==
  /\ Proceeds(w, "calling", "called")
  /\ \E outcome \in Outcome :
       /\ outcome = "canceled" => ctx[w[1]] = "canceled"
       /\ got' = [got EXCEPT ![w] = outcome]
  /\ UNCHANGED <<pc, ctx, recordVars, cancelFn, told, row, canceler>>

(* Mutant: a failed call leaves its row open. *)
CloseRowOnSuccess(w) ==
  /\ Proceeds(w, "called", "done")
  /\ Logged(w, IF row[KeyOf(w)].for = NoWork \/ got[w] # "succeeded" THEN row
               ELSE [row EXCEPT ![KeyOf(w)] = [for |-> row[KeyOf(w)].for, by |-> w]])
  /\ UNCHANGED <<pc, ctx, recordVars, cancelFn, told, got, canceler>>

(* CompleteToolCallLog: an UPDATE, whoever inserted the row. *)
CloseRow(w) ==
  /\ Proceeds(w, "called", "done")
  /\ Logged(w, IF row[KeyOf(w)].for = NoWork THEN row
               ELSE [row EXCEPT ![KeyOf(w)] = [for |-> row[KeyOf(w)].for, by |-> w]])
  /\ UNCHANGED <<pc, ctx, recordVars, cancelFn, told, got, canceler>>

-----------------------------------------------------------------------------
(* CancelInvocation.                                                       *)

Sees(k, at, answer) ==
  canceler' = [canceler EXCEPT ![k] = [at |-> at, late |-> canceler[k].late, answer |-> answer]]

(* The record is looked up under the lock; late says that the creator had  *)
(* its response by then.                                                   *)
FindInvocation(k) ==
  /\ canceler[k].at = "idle"
  /\ status[CancelOf[k]] # "none"
  /\ canceler' = [canceler EXCEPT ![k] = [at |-> "found", late |-> CancelOf[k] \in told,
                                          answer |-> "none"]]
  /\ UNCHANGED <<pc, ctx, recordVars, cancelFn, told, targetVars>>

(* Its status is read without the lock: what a torn read of two status     *)
(* strings gives is either the new one or none of the final ones, like the *)
(* old one.  A final status is the answer.                                 *)
ReadStatus(k) ==
  /\ canceler[k].at = "found"
  /\ IF status[CancelOf[k]] \in Final THEN Sees(k, "answered", status[CancelOf[k]])
     ELSE Sees(k, "active", "none")
  /\ UNCHANGED <<pc, ctx, recordVars, cancelFn, told, targetVars>>

(* The cancel function is called, if there is one. *)
CallCancel(k) ==
  /\ canceler[k].at = "active"
  /\ ctx' = IF CancelOf[k] \in cancelFn THEN [ctx EXCEPT ![CancelOf[k]] = "canceled"] ELSE ctx
  /\ Sees(k, "called", "none")
  /\ UNCHANGED <<pc, recordVars, cancelFn, told, targetVars>>

(* The answer is the record as it is now. *)
AnswerCancel(k) ==
  /\ canceler[k].at = "called"
  /\ Sees(k, "answered", status[CancelOf[k]])
  /\ UNCHANGED <<pc, ctx, recordVars, cancelFn, told, targetVars>>

-----------------------------------------------------------------------------
CreatorStep(i) ==
  Record(i) \/ Refuse(i) \/ AuditStart(i) \/ StoreCancel(i) \/ Launch(i)

ExecutorStep(i) ==
  Start(i) \/ Summarize(i) \/ Finish(i) \/ FinishAudit(i) \/ Return(i)

TargetStep(w) == TargetFails(w) \/ OpenRow(w) \/ Call(w) \/ CloseRow(w)

CancelerStep(k) ==
  FindInvocation(k) \/ ReadStatus(k) \/ CallCancel(k) \/ AnswerCancel(k)

(* All requests were served. *)
Quiet ==
  /\ \A i \in Invocation : pc[i] \in {"refused", "done"}
  /\ UNCHANGED vars

Next ==
  \/ \E i \in Invocation : CreatorStep(i) \/ ExecutorStep(i) \/ ClientLeaves(i)
  \/ \E w \in Work : TargetStep(w)
  \/ \E k \in Cancel : CancelerStep(k)
  \/ Quiet

Spec == Init /\ [][Next]_vars

(* Goroutines run, and every tool call returns: Router.Send has a deadline *)
(* (EveryCallReturns in ToolRouter) and so has ForwardToCenter.            *)
Fairness ==
  /\ \A i \in Invocation : WF_vars(pc[i] # "new" /\ (CreatorStep(i) \/ ExecutorStep(i)))
  /\ \A w \in Work : WF_vars(TargetStep(w))

FairSpec == Spec /\ Fairness

-----------------------------------------------------------------------------
(* Correctness.                                                            *)

(* Whoever sees a final status finds the result of every target, and the   *)
(* status says what they are: succeeded if all did, failed if none did,    *)
(* partial if some did.  Status and results are read by two requests.      *)
FinalMatchesResults ==
  \A i \in Invocation : status[i] \in Final =>
    LET shown == {results[i][n] : n \in Targets[i]}
    IN  /\ "none" \notin shown
        /\ status[i] = "succeeded" => shown = {"succeeded"}
        /\ status[i] = "failed" => "succeeded" \notin shown
        /\ status[i] = "partial" => {"succeeded"} \subseteq shown /\ shown # {"succeeded"}

(* A poller sees pending, running and one final status, in this order: a   *)
(* cancellation that races the end of the execution cannot change it.      *)
StatusMovesForward ==
  [][\A i \in Invocation : status'[i] # status[i] =>
       \/ status[i] = "none" /\ status'[i] = "pending"
       \/ status[i] = "pending" /\ status'[i] = "running"
       \/ status[i] = "running" /\ status'[i] \in Final]_vars

(* Only who was asked to cancel is canceled: a result or an invocation     *)
(* that only timed out or failed never says so.                            *)
CanceledWasAsked ==
  \A i \in Invocation :
    "canceled" \in {status[i], audit[i]} \union OutcomesOf(i) => ctx[i] = "canceled"

(* CancelInvocation of an asynchronous invocation whose id its creator was *)
(* told has canceled the execution, unless it answers with a final status: *)
(* the function is in cancelFns from before the response until after the   *)
(* final status was published.                                             *)
CancelTakesHold ==
  \A k \in Cancel :
    (/\ canceler[k].at = "answered" /\ canceler[k].late
     /\ CancelOf[k] \in Async /\ canceler[k].answer \notin Final) =>
      ctx[CancelOf[k]] = "canceled"

(* The audit event never says anything but what the record says, and is    *)
(* there before the execution begins.                                      *)
AuditAgrees ==
  \A i \in Invocation :
    /\ audit[i] \notin {"none", "accepted"} => audit[i] = status[i]
    /\ status[i] \in {"running"} \union Final => audit[i] # "none"

(* No two calls are logged under one request id. *)
KeysDistinct == \A v, w \in Work : KeyOf(v) = KeyOf(w) => v = w

(* A row of tool_call_logs is completed by the call it was inserted for.   *)
RowIsOwn == \A key \in LogKey : row[key].by \in {row[key].for, NoWork}

(* With a sound database, a call that ended in a live context has          *)
(* completed the row it inserted, whether it succeeded or failed.          *)
RowIsCompleted ==
  \A w \in Work :
    work[w] = "done" /\ ctx[w[1]] = "live" /\ row[KeyOf(w)].for = w /\ ~ DBFails =>
      row[KeyOf(w)].by # NoWork

(* Every accepted invocation ends, record and audit event, with nothing    *)
(* left in cancelFns.                                                      *)
EveryInvocationEnds ==
  \A i \in Invocation :
    status[i] = "pending" ~>
      status[i] \in Final /\ audit[i] = status[i] /\ i \notin cancelFn

(* An execution that is canceled while a target still works ends canceled, *)
(* whatever the targets answer.                                            *)
CancelWins ==
  \A i \in Invocation :
    (ctx[i] = "canceled" /\ \E w \in Work : w[1] = i /\ work[w] \in {"started", "calling", "called"})
      ~> status[i] = "canceled"
=============================================================================
