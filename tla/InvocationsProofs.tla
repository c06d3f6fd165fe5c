-------------------------- MODULE InvocationsProofs --------------------------
(***************************************************************************)
(* Proofs about Invocations for any number of invocations, targets and     *)
(* cancellations.                                                          *)
(***************************************************************************)
EXTENDS Invocations, TLAPS

USE InvocationAssumption

-----------------------------------------------------------------------------
(* The inductive invariant.                                                *)

Unlaunched == {"new", "refused", "recorded", "audited", "cancelable", "launched"}
Ended      == {"finished", "closing", "done"}
Summarized == {"summarized"} \union Ended

(* The record follows the goroutine: it is final from Finish on. *)
StatusFollows ==
  \A i \in Invocation :
    /\ pc[i] \in {"new", "refused"} => status[i] = "none"
    /\ pc[i] \in {"recorded", "audited", "cancelable", "launched"} => status[i] = "pending"
    /\ pc[i] \in {"executing", "summarized"} => status[i] = "running"
    /\ pc[i] \in Ended =>
         /\ status[i] = verdict[i]
         /\ \A w \in Work : w[1] = i => results[i][w[2]] = got[w]

(* No target works before the execution starts or after its summary. *)
WorkFollows ==
  \A w \in Work :
    /\ pc[w[1]] \in Unlaunched => work[w] = "idle"
    /\ pc[w[1]] \in Summarized => work[w] = "done"
    /\ pc[w[1]] = "executing" => work[w] # "idle"
    /\ work[w] \in {"called", "done"} => got[w] \in Outcome

(* What was summarized is what the targets returned. *)
VerdictFits ==
  \A i \in Invocation : pc[i] \in Summarized =>
    /\ verdict[i] \in Final
    /\ verdict[i] = "succeeded" =>
         /\ \E w \in Work : w[1] = i
         /\ \A w \in Work : w[1] = i => got[w] = "succeeded"
    /\ verdict[i] = "failed" => \A w \in Work : w[1] = i => got[w] # "succeeded"
    /\ verdict[i] = "partial" =>
         /\ \E w \in Work : w[1] = i /\ got[w] = "succeeded"
         /\ \E w \in Work : w[1] = i /\ got[w] # "succeeded"
    /\ verdict[i] = "canceled" => ctx[i] = "canceled"

GotWasAsked == \A w \in Work : got[w] = "canceled" => ctx[w[1]] = "canceled"

AuditFollows ==
  \A i \in Invocation :
    /\ pc[i] \in {"new", "refused", "recorded"} => audit[i] = "none"
    /\ pc[i] \in {"audited", "cancelable", "launched", "executing", "summarized",
                  "finished"} => audit[i] = "accepted"
    /\ pc[i] \in {"closing", "done"} => audit[i] = verdict[i]

(* An asynchronous invocation can be canceled from before its creator is   *)
(* told until its end.                                                     *)
CancelableFollows ==
  \A i \in Async :
    /\ pc[i] \in {"cancelable", "launched", "executing", "summarized", "finished", "closing"}
         => i \in cancelFn
    /\ i \in told => pc[i] \notin {"new", "recorded", "audited", "cancelable"}

(* What a late cancellation has achieved at each of its steps. *)
CancelerFollows ==
  \A k \in Cancel :
    canceler[k].late /\ canceler[k].at # "idle" /\ CancelOf[k] \in Async =>
      /\ CancelOf[k] \in told /\ status[CancelOf[k]] # "none"
      /\ canceler[k].at = "called" =>
           ctx[CancelOf[k]] = "canceled" \/ status[CancelOf[k]] \in Final
      /\ canceler[k].at = "answered" =>
           ctx[CancelOf[k]] = "canceled" \/ canceler[k].answer \in Final

(* A row is filed under the request id of the calls that wrote it. *)
RowsFiled ==
  \A key \in LogKey :
    /\ row[key].for # NoWork => KeyOf(row[key].for) = key
    /\ row[key].by # NoWork => KeyOf(row[key].by) = key /\ row[key].for # NoWork

IInv ==
  /\ TypeOK
  /\ StatusFollows
  /\ WorkFollows
  /\ VerdictFits
  /\ GotWasAsked
  /\ AuditFollows
  /\ CancelableFollows
  /\ CancelerFollows
  /\ RowsFiled

-----------------------------------------------------------------------------
(* Facts about targets and keys.                                           *)

LEMMA WorkFacts ==
  /\ \A w \in Work : w[1] \in Invocation /\ w[2] \in Targets[w[1]] /\ w[2] \in Node
  /\ \A w \in Work : w = <<w[1], w[2]>>
  /\ \A i \in Invocation : \A n \in Targets[i] : <<i, n>> \in Work
  /\ NoWork \notin Work
<1>1. \A w \in Work : w \in Invocation \X Node /\ w[2] \in Targets[w[1]]
  BY DEF Work
<1>2. \A i \in Invocation : \A n \in Targets[i] : <<i, n>> \in Work
  BY DEF Work
<1>3. NoWork \notin Work
  BY <1>1 DEF NoWork
<1> QED
  BY <1>1, <1>2, <1>3

LEMMA KeyFacts == \A w \in Work : KeyOf(w) \in LogKey
<1> TAKE w \in Work
<1>1. w \in Invocation \X Node
  BY DEF Work
<1> QED
  BY <1>1 DEF KeyOf, LogKey

(* A target works only while its invocation executes. *)
LEMMA WorkingExecutes ==
  ASSUME TypeOK, WorkFollows, NEW w \in Work, work[w] \in {"started", "calling"}
  PROVE  pc[w[1]] = "executing" /\ w[1] \in Invocation
<1>1. w[1] \in Invocation
  BY WorkFacts
<1>2. pc[w[1]] \notin Unlaunched /\ pc[w[1]] \notin Summarized
  BY DEF WorkFollows
<1>3. pc[w[1]] \in Unlaunched \union {"executing"} \union Summarized
  BY <1>1 DEF TypeOK, Unlaunched, Summarized, Ended
<1> QED
  BY <1>1, <1>2, <1>3

(* What summarizeInvocationStatus says of the results of all targets.      *)
LEMMA SummaryFits ==
  ASSUME TypeOK, GotWasAsked, NEW i \in Invocation,
         \A w \in Work : w[1] = i => got[w] \in Outcome
  PROVE  LET s == Summary(OutcomesOf(i), ctx[i])
         IN  /\ s \in Final
             /\ s = "succeeded" =>
                  /\ \E w \in Work : w[1] = i
                  /\ \A w \in Work : w[1] = i => got[w] = "succeeded"
             /\ s = "failed" => \A w \in Work : w[1] = i => got[w] # "succeeded"
             /\ s = "partial" =>
                  /\ \E w \in Work : w[1] = i /\ got[w] = "succeeded"
                  /\ \E w \in Work : w[1] = i /\ got[w] # "succeeded"
             /\ s = "canceled" => ctx[i] = "canceled"
<1> DEFINE O == OutcomesOf(i)
<1>1. \A w \in Work : w[1] = i => got[w] \in O
  BY DEF OutcomesOf
<1>2. \A o \in O : \E w \in Work : w[1] = i /\ got[w] = o
  BY DEF OutcomesOf
<1>3. O = {"succeeded"} => \E w \in Work : w[1] = i
  BY <1>2
<1>4. O = {"canceled"} => ctx[i] = "canceled"
  BY <1>2 DEF GotWasAsked
<1>5. O # {"succeeded"} /\ "succeeded" \in O =>
        \E w \in Work : w[1] = i /\ got[w] # "succeeded"
  BY <1>2
<1>6. O = {"succeeded"} => \A w \in Work : w[1] = i => got[w] = "succeeded"
  BY <1>1
<1> HIDE DEF O
<1>7. LET s == Summary(O, ctx[i])
      IN  /\ s \in Final
          /\ s = "succeeded" => O = {"succeeded"}
          /\ s = "failed" => "succeeded" \notin O
          /\ s = "partial" => "succeeded" \in O /\ O # {"succeeded"}
          /\ s = "canceled" => ctx[i] = "canceled"
  BY <1>4 DEF Summary, Final, Outcome
<1> QED
  BY <1>1, <1>2, <1>3, <1>5, <1>6, <1>7 DEF O

-----------------------------------------------------------------------------
(* The type invariant.                                                     *)

LEMMA InitIsInvariant == Init => IInv
<1> SUFFICES ASSUME Init PROVE IInv
  OBVIOUS
<1>1. TypeOK
  BY DEF Init, TypeOK, Status, Outcome, Final
<1>2. StatusFollows /\ VerdictFits /\ AuditFollows /\ CancelableFollows
  BY DEF Init, StatusFollows, VerdictFits, AuditFollows, CancelableFollows, Summarized, Ended
<1>3. WorkFollows /\ GotWasAsked
  BY WorkFacts DEF Init, WorkFollows, GotWasAsked, Summarized, Ended
<1>4. CancelerFollows /\ RowsFiled
  BY DEF Init, CancelerFollows, RowsFiled
<1> QED
  BY <1>1, <1>2, <1>3, <1>4 DEF IInv

(* A statement on the log keeps the type of the rows and where they are    *)
(* filed.                                                                  *)
LEMMA OpenLogged ==
  ASSUME TypeOK, RowsFiled, NEW w \in Work, OpenRow(w)
  PROVE  row' \in [LogKey -> [for : Work \union {NoWork}, by : Work \union {NoWork}]]
         /\ RowsFiled'
<1> DEFINE key == KeyOf(w)
           new == [row EXCEPT ![key] = [for |-> w, by |-> NoWork]]
<1>1. key \in LogKey /\ w # NoWork
  BY KeyFacts, WorkFacts
<1>2. row' = row \/ row' = new
  BY DEF OpenRow, Logged
<1>3. CASE row' = row
  BY <1>3 DEF TypeOK, RowsFiled
<1>4. CASE row' = new
  <2>1. /\ row'[key] = [for |-> w, by |-> NoWork]
        /\ \A k \in LogKey : k # key => row'[k] = row[k]
    BY <1>1, <1>4 DEF TypeOK
  <2>2. row' \in [LogKey -> [for : Work \union {NoWork}, by : Work \union {NoWork}]]
    BY <1>1, <1>4 DEF TypeOK
  <2>3. RowsFiled'
    BY <1>1, <2>1 DEF RowsFiled
  <2> QED
    BY <2>2, <2>3
<1> QED
  BY <1>2, <1>3, <1>4

LEMMA CloseLogged ==
  ASSUME TypeOK, RowsFiled, NEW w \in Work, CloseRow(w)
  PROVE  row' \in [LogKey -> [for : Work \union {NoWork}, by : Work \union {NoWork}]]
         /\ RowsFiled'
<1> DEFINE key == KeyOf(w)
           new == [row EXCEPT ![key] = [for |-> row[key].for, by |-> w]]
<1>1. key \in LogKey
  BY KeyFacts
<1>2. row' = row \/ (row' = new /\ row[key].for # NoWork)
  BY DEF CloseRow, Logged
<1>3. CASE row' = row
  BY <1>3 DEF TypeOK, RowsFiled
<1>4. CASE row' = new /\ row[key].for # NoWork
  <2>1. /\ row'[key] = [for |-> row[key].for, by |-> w]
        /\ \A k \in LogKey : k # key => row'[k] = row[k]
    BY <1>1, <1>4 DEF TypeOK
  <2>2. row[key].for \in Work \union {NoWork}
    BY <1>1 DEF TypeOK
  <2>3. row' \in [LogKey -> [for : Work \union {NoWork}, by : Work \union {NoWork}]]
    BY <1>1, <1>4, <2>2 DEF TypeOK
  <2>4. RowsFiled'
    BY <1>1, <1>4, <2>1 DEF RowsFiled
  <2> QED
    BY <2>3, <2>4
<1> QED
  BY <1>2, <1>3, <1>4

-----------------------------------------------------------------------------
(* Every step keeps the invariant: one lemma per action. *)

LEMMA RefuseStep ==
  ASSUME IInv, NEW i \in Invocation, Refuse(i)
  PROVE  IInv'
<1>1. TypeOK'
  BY DEF IInv, Refuse, Goes, TypeOK, recordVars, targetVars, Status, Outcome, Final
<1>2. StatusFollows'
  BY WorkFacts DEF IInv, Refuse, Goes, TypeOK, StatusFollows, recordVars, targetVars, Unlaunched, Ended, Summarized
<1>3. WorkFollows'
  BY WorkFacts DEF IInv, Refuse, Goes, TypeOK, WorkFollows, targetVars, Unlaunched, Ended, Summarized
<1>4. VerdictFits'
  BY WorkFacts DEF IInv, Refuse, Goes, TypeOK, VerdictFits, recordVars, targetVars, Unlaunched, Ended, Summarized
<1>5. AuditFollows'
  BY DEF IInv, Refuse, Goes, TypeOK, AuditFollows, recordVars, Unlaunched, Ended, Summarized
<1>6. CancelableFollows'
  BY DEF IInv, Refuse, Goes, TypeOK, CancelableFollows
<1>7. CancelerFollows'
  BY DEF IInv, Refuse, Goes, TypeOK, CancelerFollows, recordVars
<1>8. GotWasAsked' /\ RowsFiled'
  BY DEF IInv, Refuse, Goes, GotWasAsked, RowsFiled, recordVars, targetVars
<1> QED
  BY <1>1, <1>2, <1>3, <1>4, <1>5, <1>6, <1>7, <1>8 DEF IInv

LEMMA RecordStep ==
  ASSUME IInv, NEW i \in Invocation, Record(i)
  PROVE  IInv'
<1>1. TypeOK'
  BY DEF IInv, Record, Goes, TypeOK, targetVars, Status, Outcome, Final
<1>2. StatusFollows'
  BY WorkFacts DEF IInv, Record, Goes, TypeOK, StatusFollows, targetVars, Unlaunched, Ended, Summarized
<1>3. WorkFollows'
  BY WorkFacts DEF IInv, Record, Goes, TypeOK, WorkFollows, targetVars, Unlaunched, Ended, Summarized
<1>4. VerdictFits'
  BY WorkFacts DEF IInv, Record, Goes, TypeOK, VerdictFits, targetVars, Unlaunched, Ended, Summarized
<1>5. AuditFollows'
  BY DEF IInv, Record, Goes, TypeOK, AuditFollows, Unlaunched, Ended, Summarized
<1>6. CancelableFollows'
  BY DEF IInv, Record, Goes, TypeOK, CancelableFollows
<1>7. CancelerFollows'
  <2>1. status'[i] # "none" /\ status[i] \notin Final
    BY DEF IInv, Record, Goes, TypeOK, StatusFollows, VerdictFits, Summarized, Final, Outcome
  <2>2. \A j \in Invocation : j # i => status'[j] = status[j]
    BY DEF IInv, Record, TypeOK
  <2>3. ctx' = ctx /\ told' = told /\ canceler' = canceler
    BY DEF Record
  <2> QED
    BY <2>1, <2>2, <2>3 DEF IInv, CancelerFollows
<1>8. GotWasAsked' /\ RowsFiled'
  BY DEF IInv, Record, Goes, GotWasAsked, RowsFiled, recordVars, targetVars
<1> QED
  BY <1>1, <1>2, <1>3, <1>4, <1>5, <1>6, <1>7, <1>8 DEF IInv

LEMMA AuditStartStep ==
  ASSUME IInv, NEW i \in Invocation, AuditStart(i)
  PROVE  IInv'
<1>1. TypeOK'
  BY DEF IInv, AuditStart, Goes, TypeOK, targetVars, Status, Outcome, Final
<1>2. StatusFollows'
  BY WorkFacts DEF IInv, AuditStart, Goes, TypeOK, StatusFollows, targetVars, Unlaunched, Ended, Summarized
<1>3. WorkFollows'
  BY WorkFacts DEF IInv, AuditStart, Goes, TypeOK, WorkFollows, targetVars, Unlaunched, Ended, Summarized
<1>4. VerdictFits'
  BY WorkFacts DEF IInv, AuditStart, Goes, TypeOK, VerdictFits, targetVars, Unlaunched, Ended, Summarized
<1>5. AuditFollows'
  BY DEF IInv, AuditStart, Goes, TypeOK, AuditFollows, Unlaunched, Ended, Summarized
<1>6. CancelableFollows'
  BY DEF IInv, AuditStart, Goes, TypeOK, CancelableFollows
<1>7. GotWasAsked' /\ CancelerFollows' /\ RowsFiled'
  BY DEF IInv, AuditStart, Goes, GotWasAsked, CancelerFollows, RowsFiled, recordVars, targetVars
<1> QED
  BY <1>1, <1>2, <1>3, <1>4, <1>5, <1>6, <1>7 DEF IInv

LEMMA StoreCancelStep ==
  ASSUME IInv, NEW i \in Invocation, StoreCancel(i)
  PROVE  IInv'
<1>1. TypeOK'
  BY DEF IInv, StoreCancel, Goes, TypeOK, recordVars, targetVars, Status, Outcome, Final
<1>2. StatusFollows'
  BY WorkFacts DEF IInv, StoreCancel, Goes, TypeOK, StatusFollows, recordVars, targetVars, Unlaunched, Ended, Summarized
<1>3. WorkFollows'
  BY WorkFacts DEF IInv, StoreCancel, Goes, TypeOK, WorkFollows, targetVars, Unlaunched, Ended, Summarized
<1>4. VerdictFits'
  BY WorkFacts DEF IInv, StoreCancel, Goes, TypeOK, VerdictFits, recordVars, targetVars, Unlaunched, Ended, Summarized
<1>5. AuditFollows'
  BY DEF IInv, StoreCancel, Goes, TypeOK, AuditFollows, recordVars, Unlaunched, Ended, Summarized
<1>6. CancelableFollows'
  BY DEF IInv, StoreCancel, Goes, TypeOK, CancelableFollows
<1>7. GotWasAsked' /\ CancelerFollows' /\ RowsFiled'
  BY DEF IInv, StoreCancel, Goes, GotWasAsked, CancelerFollows, RowsFiled, recordVars, targetVars
<1> QED
  BY <1>1, <1>2, <1>3, <1>4, <1>5, <1>6, <1>7 DEF IInv

LEMMA LaunchStep ==
  ASSUME IInv, NEW i \in Invocation, Launch(i)
  PROVE  IInv'
<1>1. TypeOK'
  BY DEF IInv, Launch, Goes, TypeOK, recordVars, targetVars, Status, Outcome, Final
<1>2. StatusFollows'
  BY WorkFacts DEF IInv, Launch, Goes, TypeOK, StatusFollows, recordVars, targetVars, Unlaunched, Ended, Summarized
<1>3. WorkFollows'
  BY WorkFacts DEF IInv, Launch, Goes, TypeOK, WorkFollows, targetVars, Unlaunched, Ended, Summarized
<1>4. VerdictFits'
  BY WorkFacts DEF IInv, Launch, Goes, TypeOK, VerdictFits, recordVars, targetVars, Unlaunched, Ended, Summarized
<1>5. AuditFollows'
  BY DEF IInv, Launch, Goes, TypeOK, AuditFollows, recordVars, Unlaunched, Ended, Summarized
<1>6. CancelableFollows'
  BY DEF IInv, Launch, Goes, TypeOK, CancelableFollows
<1>7. CancelerFollows'
  BY DEF IInv, Launch, Goes, TypeOK, CancelerFollows, recordVars
<1>8. GotWasAsked' /\ RowsFiled'
  BY DEF IInv, Launch, Goes, GotWasAsked, RowsFiled, recordVars, targetVars
<1> QED
  BY <1>1, <1>2, <1>3, <1>4, <1>5, <1>6, <1>7, <1>8 DEF IInv

LEMMA ClientLeavesStep ==
  ASSUME IInv, NEW i \in Invocation, ClientLeaves(i)
  PROVE  IInv'
<1>1. TypeOK'
  BY DEF IInv, ClientLeaves, TypeOK, recordVars, targetVars, Status, Outcome, Final
<1>2. VerdictFits'
  BY WorkFacts DEF IInv, ClientLeaves, TypeOK, VerdictFits, recordVars, targetVars, Unlaunched, Ended, Summarized
<1>3. GotWasAsked'
  BY WorkFacts DEF IInv, ClientLeaves, TypeOK, GotWasAsked, targetVars
<1>4. CancelerFollows'
  BY DEF IInv, ClientLeaves, TypeOK, CancelerFollows, recordVars
<1>5. StatusFollows' /\ WorkFollows' /\ AuditFollows' /\ CancelableFollows' /\ RowsFiled'
  BY DEF IInv, ClientLeaves, StatusFollows, WorkFollows, AuditFollows, CancelableFollows, RowsFiled, recordVars, targetVars
<1> QED
  BY <1>1, <1>2, <1>3, <1>4, <1>5 DEF IInv

LEMMA StartStep ==
  ASSUME IInv, NEW i \in Invocation, Start(i)
  PROVE  IInv'
<1>1. TypeOK'
  BY DEF IInv, Start, Goes, TypeOK, Status, Outcome, Final
<1>2. StatusFollows'
  BY WorkFacts DEF IInv, Start, Goes, TypeOK, StatusFollows, Unlaunched, Ended, Summarized
<1>3. WorkFollows'
  BY WorkFacts DEF IInv, Start, Goes, TypeOK, WorkFollows, Unlaunched, Ended, Summarized
<1>4. VerdictFits'
  BY WorkFacts DEF IInv, Start, Goes, TypeOK, VerdictFits, Unlaunched, Ended, Summarized
<1>5. AuditFollows'
  BY DEF IInv, Start, Goes, TypeOK, AuditFollows, Unlaunched, Ended, Summarized
<1>6. CancelableFollows'
  BY DEF IInv, Start, Goes, TypeOK, CancelableFollows
<1>7. CancelerFollows'
  <2>1. status'[i] # "none" /\ status[i] \notin Final
    BY DEF IInv, Start, Goes, TypeOK, StatusFollows, VerdictFits, Summarized, Final, Outcome
  <2>2. \A j \in Invocation : j # i => status'[j] = status[j]
    BY DEF IInv, Start, TypeOK
  <2>3. ctx' = ctx /\ told' = told /\ canceler' = canceler
    BY DEF Start
  <2> QED
    BY <2>1, <2>2, <2>3 DEF IInv, CancelerFollows
<1>8. GotWasAsked' /\ RowsFiled'
  BY DEF IInv, Start, Goes, GotWasAsked, RowsFiled, recordVars, targetVars
<1> QED
  BY <1>1, <1>2, <1>3, <1>4, <1>5, <1>6, <1>7, <1>8 DEF IInv

LEMMA SummarizeStep ==
  ASSUME IInv, NEW i \in Invocation, Summarize(i)
  PROVE  IInv'
<1>1. TypeOK'
  <2>1. \A w \in Work : w[1] = i => got[w] \in Outcome
    BY DEF IInv, Summarize, WorkFollows
  <2>2. Summary(OutcomesOf(i), ctx[i]) \in Final
    BY <2>1, SummaryFits DEF IInv
  <2> QED
    BY <2>2 DEF IInv, Summarize, Goes, TypeOK, recordVars, targetVars
<1>2. StatusFollows'
  BY WorkFacts DEF IInv, Summarize, Goes, TypeOK, StatusFollows, targetVars, Unlaunched, Ended, Summarized
<1>3. WorkFollows'
  BY WorkFacts DEF IInv, Summarize, Goes, TypeOK, WorkFollows, targetVars, Unlaunched, Ended, Summarized
<1>4. VerdictFits'
  <2> DEFINE s == Summary(OutcomesOf(i), ctx[i])
  <2>1. \A w \in Work : w[1] = i => got[w] \in Outcome
    BY DEF IInv, Summarize, WorkFollows
  <2>2. /\ s \in Final
        /\ s = "succeeded" =>
             /\ \E w \in Work : w[1] = i
             /\ \A w \in Work : w[1] = i => got[w] = "succeeded"
        /\ s = "failed" => \A w \in Work : w[1] = i => got[w] # "succeeded"
        /\ s = "partial" =>
             /\ \E w \in Work : w[1] = i /\ got[w] = "succeeded"
             /\ \E w \in Work : w[1] = i /\ got[w] # "succeeded"
        /\ s = "canceled" => ctx[i] = "canceled"
    BY <2>1, SummaryFits DEF IInv
  <2>3. /\ verdict'[i] = s
        /\ \A j \in Invocation : j # i => verdict'[j] = verdict[j] /\ pc'[j] = pc[j]
        /\ got' = got /\ ctx' = ctx
    BY DEF IInv, Summarize, Goes, TypeOK, targetVars
  <2> HIDE DEF s
  <2> QED
    BY <2>2, <2>3 DEF IInv, VerdictFits
<1>5. AuditFollows'
  BY DEF IInv, Summarize, Goes, TypeOK, AuditFollows, Unlaunched, Ended, Summarized
<1>6. CancelableFollows'
  BY DEF IInv, Summarize, Goes, TypeOK, CancelableFollows
<1>7. GotWasAsked' /\ CancelerFollows' /\ RowsFiled'
  BY DEF IInv, Summarize, Goes, GotWasAsked, CancelerFollows, RowsFiled, recordVars, targetVars
<1> QED
  BY <1>1, <1>2, <1>3, <1>4, <1>5, <1>6, <1>7 DEF IInv

LEMMA FinishStep ==
  ASSUME IInv, NEW i \in Invocation, Finish(i)
  PROVE  IInv'
<1>1. TypeOK'
  <2>1. verdict[i] \in Final
    BY DEF IInv, Finish, Goes, VerdictFits, Summarized
  <2>2. \A n \in Targets[i] : got[<<i, n>>] \in Outcome
    <3>1. \A n \in Targets[i] : <<i, n>> \in Work /\ <<i, n>>[1] = i
      BY WorkFacts
    <3> QED
      BY <3>1 DEF IInv, Finish, Goes, WorkFollows, Summarized
  <2> DEFINE shown == [n \in Node |-> IF n \in Targets[i] THEN got[<<i, n>>] ELSE "none"]
  <2>3. shown \in [Node -> Outcome \union {"none"}]
    BY <2>2
  <2> HIDE DEF shown
  <2>4. results' = [results EXCEPT ![i] = shown]
    BY DEF Finish, shown
  <2> QED
    BY <2>1, <2>3, <2>4 DEF IInv, Finish, Goes, TypeOK, Status, targetVars
<1>2. StatusFollows'
  BY WorkFacts DEF IInv, Finish, Goes, TypeOK, StatusFollows, targetVars, Unlaunched, Ended, Summarized
<1>3. WorkFollows'
  BY WorkFacts DEF IInv, Finish, Goes, TypeOK, WorkFollows, targetVars, Unlaunched, Ended, Summarized
<1>4. VerdictFits'
  BY WorkFacts DEF IInv, Finish, Goes, TypeOK, VerdictFits, targetVars, Unlaunched, Ended, Summarized
<1>5. AuditFollows'
  BY DEF IInv, Finish, Goes, TypeOK, AuditFollows, Unlaunched, Ended, Summarized
<1>6. CancelableFollows'
  BY DEF IInv, Finish, Goes, TypeOK, CancelableFollows
<1>7. CancelerFollows'
  <2>1. pc[i] = "summarized" /\ verdict[i] \in Final /\ status[i] = "running"
    BY DEF IInv, Finish, Goes, StatusFollows, VerdictFits, Summarized
  <2>2. status'[i] = verdict[i]
    BY DEF IInv, Finish, TypeOK
  <2>3. status'[i] # "none" /\ status[i] \notin Final /\ status'[i] \in Final
    BY <2>1, <2>2 DEF Final, Outcome
  <2>4. \A j \in Invocation : j # i => status'[j] = status[j]
    BY DEF IInv, Finish, TypeOK
  <2>5. ctx' = ctx /\ told' = told /\ canceler' = canceler
    BY DEF Finish
  <2> QED
    BY <2>3, <2>4, <2>5 DEF IInv, CancelerFollows
<1>8. GotWasAsked' /\ RowsFiled'
  BY DEF IInv, Finish, Goes, GotWasAsked, RowsFiled, recordVars, targetVars
<1> QED
  BY <1>1, <1>2, <1>3, <1>4, <1>5, <1>6, <1>7, <1>8 DEF IInv

LEMMA FinishAuditStep ==
  ASSUME IInv, NEW i \in Invocation, FinishAudit(i)
  PROVE  IInv'
<1>1. TypeOK'
  BY DEF IInv, FinishAudit, Goes, TypeOK, targetVars, Status, Outcome, Final
<1>2. StatusFollows'
  BY WorkFacts DEF IInv, FinishAudit, Goes, TypeOK, StatusFollows, targetVars, Unlaunched, Ended, Summarized
<1>3. WorkFollows'
  BY WorkFacts DEF IInv, FinishAudit, Goes, TypeOK, WorkFollows, targetVars, Unlaunched, Ended, Summarized
<1>4. VerdictFits'
  BY WorkFacts DEF IInv, FinishAudit, Goes, TypeOK, VerdictFits, targetVars, Unlaunched, Ended, Summarized
<1>5. AuditFollows'
  BY DEF IInv, FinishAudit, Goes, TypeOK, AuditFollows, Unlaunched, Ended, Summarized
<1>6. CancelableFollows'
  BY DEF IInv, FinishAudit, Goes, TypeOK, CancelableFollows
<1>7. GotWasAsked' /\ CancelerFollows' /\ RowsFiled'
  BY DEF IInv, FinishAudit, Goes, GotWasAsked, CancelerFollows, RowsFiled, recordVars, targetVars
<1> QED
  BY <1>1, <1>2, <1>3, <1>4, <1>5, <1>6, <1>7 DEF IInv

LEMMA ReturnStep ==
  ASSUME IInv, NEW i \in Invocation, Return(i)
  PROVE  IInv'
<1>1. TypeOK'
  BY DEF IInv, Return, Goes, TypeOK, recordVars, targetVars, Status, Outcome, Final
<1>2. StatusFollows'
  BY WorkFacts DEF IInv, Return, Goes, TypeOK, StatusFollows, recordVars, targetVars, Unlaunched, Ended, Summarized
<1>3. WorkFollows'
  BY WorkFacts DEF IInv, Return, Goes, TypeOK, WorkFollows, targetVars, Unlaunched, Ended, Summarized
<1>4. VerdictFits'
  BY WorkFacts DEF IInv, Return, Goes, TypeOK, VerdictFits, recordVars, targetVars, Unlaunched, Ended, Summarized
<1>5. AuditFollows'
  BY DEF IInv, Return, Goes, TypeOK, AuditFollows, recordVars, Unlaunched, Ended, Summarized
<1>6. CancelableFollows'
  BY DEF IInv, Return, Goes, TypeOK, CancelableFollows
<1>7. CancelerFollows'
  BY DEF IInv, Return, Goes, TypeOK, CancelerFollows, recordVars
<1>8. GotWasAsked' /\ RowsFiled'
  BY DEF IInv, Return, Goes, GotWasAsked, RowsFiled, recordVars, targetVars
<1> QED
  BY <1>1, <1>2, <1>3, <1>4, <1>5, <1>6, <1>7, <1>8 DEF IInv

LEMMA TargetFailsStep ==
  ASSUME IInv, NEW w \in Work, TargetFails(w)
  PROVE  IInv'
<1>1. TypeOK'
  BY DEF IInv, TargetFails, Proceeds, TypeOK, recordVars, Status, Outcome, Final
<1>2. StatusFollows'
  <2>1. pc[w[1]] = "executing" /\ w[1] \in Invocation
    BY WorkingExecutes DEF IInv, TargetFails, Proceeds
  <2>2. pc' = pc /\ status' = status /\ verdict' = verdict /\ results' = results
    BY DEF TargetFails, recordVars
  <2>3. \A v \in Work : v # w => got'[v] = got[v]
    BY DEF IInv, TypeOK, TargetFails
  <2> QED
    BY <2>1, <2>2, <2>3 DEF IInv, StatusFollows, Ended
<1>3. WorkFollows'
  <2>1. pc[w[1]] = "executing" /\ w[1] \in Invocation
    BY WorkingExecutes DEF IInv, TargetFails, Proceeds
  <2>2. pc' = pc /\ work'[w] = "done" /\ got'[w] = "failed"
    BY DEF IInv, TypeOK, TargetFails, Proceeds
  <2>3. \A v \in Work : v # w => got'[v] = got[v] /\ work'[v] = work[v]
    BY DEF IInv, TypeOK, TargetFails, Proceeds
  <2> QED
    BY <2>1, <2>2, <2>3 DEF IInv, WorkFollows, Outcome, Unlaunched, Summarized, Ended
<1>4. VerdictFits'
  <2>1. pc[w[1]] = "executing" /\ w[1] \in Invocation
    BY WorkingExecutes DEF IInv, TargetFails, Proceeds
  <2>2. pc' = pc /\ ctx' = ctx /\ verdict' = verdict
    BY DEF TargetFails, recordVars
  <2>3. \A v \in Work : v # w => got'[v] = got[v]
    BY DEF IInv, TypeOK, TargetFails
  <2>4. ASSUME NEW j \in Invocation, pc[j] \in Summarized
        PROVE  \A v \in Work : v[1] = j => got'[v] = got[v]
    BY <2>1, <2>3, <2>4 DEF Summarized, Ended
  <2> QED
    BY <2>2, <2>4 DEF IInv, VerdictFits
<1>5. GotWasAsked'
  BY WorkFacts DEF IInv, TargetFails, Proceeds, TypeOK, GotWasAsked
<1>6. AuditFollows' /\ CancelableFollows' /\ CancelerFollows' /\ RowsFiled'
  BY DEF IInv, TargetFails, Proceeds, AuditFollows, CancelableFollows, CancelerFollows, RowsFiled, recordVars, targetVars
<1> QED
  BY <1>1, <1>2, <1>3, <1>4, <1>5, <1>6 DEF IInv

LEMMA OpenRowStep ==
  ASSUME IInv, NEW w \in Work, OpenRow(w)
  PROVE  IInv'
<1>1. TypeOK'
  BY OpenLogged DEF IInv, OpenRow, Proceeds, TypeOK, recordVars
<1>2. WorkFollows'
  BY WorkFacts DEF IInv, OpenRow, Proceeds, TypeOK, WorkFollows, Unlaunched, Ended, Summarized
<1>3. RowsFiled'
  BY OpenLogged DEF IInv
<1>4. StatusFollows' /\ VerdictFits' /\ GotWasAsked' /\ AuditFollows' /\ CancelableFollows' /\ CancelerFollows'
  BY DEF IInv, OpenRow, Proceeds, StatusFollows, VerdictFits, GotWasAsked, AuditFollows, CancelableFollows, CancelerFollows, recordVars, targetVars
<1> QED
  BY <1>1, <1>2, <1>3, <1>4 DEF IInv

LEMMA CallStep ==
  ASSUME IInv, NEW w \in Work, Call(w)
  PROVE  IInv'
<1>1. TypeOK'
  BY DEF IInv, Call, Proceeds, TypeOK, recordVars, Status, Outcome, Final
<1>2. StatusFollows'
  <2>1. pc[w[1]] = "executing" /\ w[1] \in Invocation
    BY WorkingExecutes DEF IInv, Call, Proceeds
  <2>2. pc' = pc /\ status' = status /\ verdict' = verdict /\ results' = results
    BY DEF Call, recordVars
  <2>3. \A v \in Work : v # w => got'[v] = got[v]
    BY DEF IInv, TypeOK, Call
  <2> QED
    BY <2>1, <2>2, <2>3 DEF IInv, StatusFollows, Ended
<1>3. WorkFollows'
  BY WorkFacts DEF IInv, Call, Proceeds, TypeOK, WorkFollows, Unlaunched, Ended, Summarized
<1>4. VerdictFits'
  <2>1. pc[w[1]] = "executing" /\ w[1] \in Invocation
    BY WorkingExecutes DEF IInv, Call, Proceeds
  <2>2. pc' = pc /\ ctx' = ctx /\ verdict' = verdict
    BY DEF Call, recordVars
  <2>3. \A v \in Work : v # w => got'[v] = got[v]
    BY DEF IInv, TypeOK, Call
  <2>4. ASSUME NEW j \in Invocation, pc[j] \in Summarized
        PROVE  \A v \in Work : v[1] = j => got'[v] = got[v]
    BY <2>1, <2>3, <2>4 DEF Summarized, Ended
  <2> QED
    BY <2>2, <2>4 DEF IInv, VerdictFits
<1>5. GotWasAsked'
  BY WorkFacts DEF IInv, Call, Proceeds, TypeOK, GotWasAsked
<1>6. AuditFollows' /\ CancelableFollows' /\ CancelerFollows' /\ RowsFiled'
  BY DEF IInv, Call, Proceeds, AuditFollows, CancelableFollows, CancelerFollows, RowsFiled, recordVars, targetVars
<1> QED
  BY <1>1, <1>2, <1>3, <1>4, <1>5, <1>6 DEF IInv

LEMMA CloseRowStep ==
  ASSUME IInv, NEW w \in Work, CloseRow(w)
  PROVE  IInv'
<1>1. TypeOK'
  BY CloseLogged DEF IInv, CloseRow, Proceeds, TypeOK, recordVars
<1>2. WorkFollows'
  BY WorkFacts DEF IInv, CloseRow, Proceeds, TypeOK, WorkFollows, Unlaunched, Ended, Summarized
<1>3. RowsFiled'
  BY CloseLogged DEF IInv
<1>4. StatusFollows' /\ VerdictFits' /\ GotWasAsked' /\ AuditFollows' /\ CancelableFollows' /\ CancelerFollows'
  BY DEF IInv, CloseRow, Proceeds, StatusFollows, VerdictFits, GotWasAsked, AuditFollows, CancelableFollows, CancelerFollows, recordVars, targetVars
<1> QED
  BY <1>1, <1>2, <1>3, <1>4 DEF IInv

LEMMA FindInvocationStep ==
  ASSUME IInv, NEW k \in Cancel, FindInvocation(k)
  PROVE  IInv'
<1>1. TypeOK'
  BY DEF IInv, FindInvocation, TypeOK, recordVars, targetVars, Status, Outcome, Final
<1>2. CancelerFollows'
  BY DEF IInv, FindInvocation, TypeOK, CancelerFollows, recordVars
<1>3. StatusFollows' /\ WorkFollows' /\ VerdictFits' /\ GotWasAsked' /\ AuditFollows' /\ CancelableFollows' /\ RowsFiled'
  BY DEF IInv, FindInvocation, StatusFollows, WorkFollows, VerdictFits, GotWasAsked, AuditFollows, CancelableFollows, RowsFiled, recordVars, targetVars
<1> QED
  BY <1>1, <1>2, <1>3 DEF IInv

LEMMA ReadStatusStep ==
  ASSUME IInv, NEW k \in Cancel, ReadStatus(k)
  PROVE  IInv'
<1>1. TypeOK'
  <2>1. CASE status[CancelOf[k]] \in Final
    <3>1. status[CancelOf[k]] \in Status
      BY <2>1 DEF Status
    <3>2. Sees(k, "answered", status[CancelOf[k]])
      BY <2>1 DEF ReadStatus
    <3> HIDE DEF Status
    <3> QED
      BY <3>1, <3>2 DEF IInv, ReadStatus, Sees, TypeOK, recordVars, targetVars
  <2>2. CASE status[CancelOf[k]] \notin Final
    <3>1. "none" \in Status
      BY DEF Status
    <3>2. Sees(k, "active", "none")
      BY <2>2 DEF ReadStatus
    <3> QED
      BY <3>1, <3>2 DEF IInv, ReadStatus, Sees, TypeOK, recordVars, targetVars
  <2> QED
    BY <2>1, <2>2
<1>2. CancelerFollows'
  <2>1. \A j \in Cancel : j # k => canceler'[j] = canceler[j]
    BY DEF IInv, TypeOK, ReadStatus, Sees
  <2>2. canceler'[k].late = canceler[k].late /\ canceler[k].at # "idle"
    BY DEF IInv, TypeOK, ReadStatus, Sees
  <2>3. \/ canceler'[k].at = "answered" /\ canceler'[k].answer \in Final
        \/ canceler'[k].at = "active"
    BY DEF IInv, TypeOK, ReadStatus, Sees
  <2>4. ctx' = ctx /\ told' = told /\ status' = status
    BY DEF ReadStatus, recordVars
  <2> QED
    BY <2>1, <2>2, <2>3, <2>4 DEF IInv, CancelerFollows
<1>3. StatusFollows' /\ WorkFollows' /\ VerdictFits' /\ GotWasAsked' /\ AuditFollows' /\ CancelableFollows' /\ RowsFiled'
  BY DEF IInv, ReadStatus, StatusFollows, WorkFollows, VerdictFits, GotWasAsked, AuditFollows, CancelableFollows, RowsFiled, recordVars, targetVars
<1> QED
  BY <1>1, <1>2, <1>3 DEF IInv

LEMMA CallCancelStep ==
  ASSUME IInv, NEW k \in Cancel, CallCancel(k)
  PROVE  IInv'
<1>1. TypeOK'
  BY DEF IInv, CallCancel, Sees, TypeOK, recordVars, targetVars, Status, Outcome, Final
<1>2. VerdictFits'
  BY WorkFacts DEF IInv, CallCancel, Sees, TypeOK, VerdictFits, recordVars, targetVars, Unlaunched, Ended, Summarized
<1>3. GotWasAsked'
  BY WorkFacts DEF IInv, CallCancel, Sees, TypeOK, GotWasAsked, targetVars
<1>4. CancelerFollows'
  <2>1. \A j \in Cancel : j # k => canceler'[j] = canceler[j]
    BY DEF IInv, TypeOK, CallCancel, Sees
  <2>2. canceler'[k].late = canceler[k].late /\ canceler[k].at # "idle"
    BY DEF IInv, TypeOK, CallCancel, Sees
  <2>3. canceler'[k].at = "called"
    BY DEF IInv, TypeOK, CallCancel, Sees
  <2>4. told' = told /\ status' = status
    BY DEF CallCancel, recordVars
  <2>5. \A i \in Invocation : ctx[i] = "canceled" => ctx'[i] = "canceled"
    BY DEF IInv, TypeOK, CallCancel
  <2>6. ASSUME CancelOf[k] \in Async, CancelOf[k] \in told, status[CancelOf[k]] # "none"
        PROVE  ctx'[CancelOf[k]] = "canceled" \/ status[CancelOf[k]] \in Final
    <3> DEFINE i == CancelOf[k]
    <3>1. i \in Invocation /\ i \in Async
      BY <2>6
    <3>2. pc[i] \notin {"new", "recorded", "audited", "cancelable", "refused"}
      BY <3>1, <2>6 DEF IInv, CancelableFollows, StatusFollows
    <3>3. CASE pc[i] = "done"
      BY <3>1, <3>3 DEF IInv, StatusFollows, VerdictFits, Summarized, Ended
    <3>4. CASE pc[i] # "done"
      <4>1. i \in cancelFn
        BY <3>1, <3>2, <3>4 DEF IInv, TypeOK, CancelableFollows
      <4> QED
        BY <3>1, <4>1 DEF IInv, TypeOK, CallCancel
    <3> QED
      BY <3>3, <3>4
  <2> QED
    BY <2>1, <2>2, <2>3, <2>4, <2>5, <2>6 DEF IInv, CancelerFollows
<1>5. StatusFollows' /\ WorkFollows' /\ AuditFollows' /\ CancelableFollows' /\ RowsFiled'
  BY DEF IInv, CallCancel, StatusFollows, WorkFollows, AuditFollows, CancelableFollows, RowsFiled, recordVars, targetVars
<1> QED
  BY <1>1, <1>2, <1>3, <1>4, <1>5 DEF IInv

LEMMA AnswerCancelStep ==
  ASSUME IInv, NEW k \in Cancel, AnswerCancel(k)
  PROVE  IInv'
<1>1. TypeOK'
  BY DEF IInv, AnswerCancel, Sees, TypeOK, recordVars, targetVars, Status, Outcome, Final
<1>2. CancelerFollows'
  BY DEF IInv, AnswerCancel, Sees, TypeOK, CancelerFollows, recordVars
<1>3. StatusFollows' /\ WorkFollows' /\ VerdictFits' /\ GotWasAsked' /\ AuditFollows' /\ CancelableFollows' /\ RowsFiled'
  BY DEF IInv, AnswerCancel, StatusFollows, WorkFollows, VerdictFits, GotWasAsked, AuditFollows, CancelableFollows, RowsFiled, recordVars, targetVars
<1> QED
  BY <1>1, <1>2, <1>3 DEF IInv

-----------------------------------------------------------------------------
(* The invariant holds of every behaviour.                                 *)

LEMMA StutterStep ==
  ASSUME IInv, UNCHANGED vars
  PROVE  IInv'
<1>1. TypeOK' /\ StatusFollows' /\ WorkFollows' /\ VerdictFits'
  BY DEF IInv, vars, recordVars, targetVars, TypeOK, StatusFollows, WorkFollows, VerdictFits
<1>2. GotWasAsked' /\ AuditFollows' /\ CancelableFollows' /\ CancelerFollows' /\ RowsFiled'
  BY DEF IInv, vars, recordVars, targetVars, GotWasAsked, AuditFollows, CancelableFollows,
         CancelerFollows, RowsFiled
<1> QED
  BY <1>1, <1>2 DEF IInv

LEMMA InvariantStep == IInv /\ [Next]_vars => IInv'
<1> SUFFICES ASSUME IInv, [Next]_vars PROVE IInv'
  OBVIOUS
<1>1. ASSUME NEW i \in Invocation, CreatorStep(i) PROVE IInv'
  BY <1>1, RecordStep, RefuseStep, AuditStartStep, StoreCancelStep, LaunchStep DEF CreatorStep
<1>2. ASSUME NEW i \in Invocation, ExecutorStep(i) PROVE IInv'
  BY <1>2, StartStep, SummarizeStep, FinishStep, FinishAuditStep, ReturnStep DEF ExecutorStep
<1>3. ASSUME NEW i \in Invocation, ClientLeaves(i) PROVE IInv'
  BY <1>3, ClientLeavesStep
<1>4. ASSUME NEW w \in Work, TargetStep(w) PROVE IInv'
  BY <1>4, TargetFailsStep, OpenRowStep, CallStep, CloseRowStep DEF TargetStep
<1>5. ASSUME NEW k \in Cancel, CancelerStep(k) PROVE IInv'
  BY <1>5, FindInvocationStep, ReadStatusStep, CallCancelStep, AnswerCancelStep DEF CancelerStep
<1>6. CASE UNCHANGED vars
  BY <1>6, StutterStep
<1> QED
  BY <1>1, <1>2, <1>3, <1>4, <1>5, <1>6 DEF Next, Quiet

(* Every reachable state of the invocation service satisfies the inductive *)
(* invariant: records, results, audit events and cancelFns follow the      *)
(* goroutine of executeInvocation.                                         *)
THEOREM Invariance == Spec => []IInv
<1> QED
  BY InitIsInvariant, InvariantStep, PTL DEF Spec

(* Every variable of the service keeps its type.                           *)
THEOREM TypeCorrect == Spec => []TypeOK
<1>1. IInv => TypeOK
  BY DEF IInv
<1> QED
  BY <1>1, Invariance, PTL

-----------------------------------------------------------------------------
(* What follows from it.                                                   *)

LEMMA FinalIsEnded ==
  ASSUME IInv, NEW i \in Invocation, status[i] \in Final
  PROVE  pc[i] \in Ended
<1>1. status[i] \notin {"none", "pending", "running"}
  BY DEF Final, Outcome
<1> QED
  BY <1>1 DEF IInv, TypeOK, StatusFollows, Ended

LEMMA ShownAreGot ==
  ASSUME IInv, NEW i \in Invocation, pc[i] \in Ended
  PROVE  \A n \in Targets[i] : LET w == <<i, n>>
                               IN  w \in Work /\ w[1] = i /\ results[i][n] = got[w]
<1> TAKE n \in Targets[i]
<1>1. <<i, n>> \in Work /\ <<i, n>>[1] = i /\ <<i, n>>[2] = n
  BY WorkFacts
<1> QED
  BY <1>1 DEF IInv, StatusFollows

(* Whoever reads a final status in GetInvocation finds all results next to *)
(* it, and the status is their summary, however many targets there are.    *)
THEOREM FinalMatches == Spec => []FinalMatchesResults
<1>1. IInv => FinalMatchesResults
  <2> SUFFICES ASSUME IInv, NEW i \in Invocation, status[i] \in Final
               PROVE  LET shown == {results[i][n] : n \in Targets[i]}
                      IN  /\ "none" \notin shown
                          /\ status[i] = "succeeded" => shown = {"succeeded"}
                          /\ status[i] = "failed" => "succeeded" \notin shown
                          /\ status[i] = "partial" =>
                               {"succeeded"} \subseteq shown /\ shown # {"succeeded"}
    BY DEF FinalMatchesResults
  <2> DEFINE shown == {results[i][n] : n \in Targets[i]}
  <2>1. pc[i] \in Ended /\ pc[i] \in Summarized /\ status[i] = verdict[i]
    BY FinalIsEnded DEF IInv, StatusFollows, Summarized
  <2>2. \A w \in Work : w[1] = i => got[w] \in Outcome
    BY <2>1 DEF IInv, WorkFollows
  <2>3. \A w \in Work : w[1] = i => got[w] \in shown
    <3> TAKE w \in Work
    <3>1. w[1] = i => w[2] \in Targets[i] /\ results[i][w[2]] = got[w]
      BY <2>1, WorkFacts DEF IInv, StatusFollows
    <3> QED
      BY <3>1
  <2>4. \A x \in shown : \E w \in Work : w[1] = i /\ got[w] = x
    <3> TAKE x \in shown
    <3>1. PICK n \in Targets[i] : x = results[i][n]
      OBVIOUS
    <3> QED
      BY <2>1, <3>1, ShownAreGot
  <2>5. status[i] = "succeeded" => \E w \in Work : w[1] = i
    BY <2>1 DEF IInv, VerdictFits
  <2> HIDE DEF shown
  <2>6. "none" \notin shown
    BY <2>2, <2>4 DEF Outcome
  <2>7. status[i] = "succeeded" => shown = {"succeeded"}
    <3> HAVE status[i] = "succeeded"
    <3>1. \A w \in Work : w[1] = i => got[w] = "succeeded"
      BY <2>1 DEF IInv, VerdictFits
    <3>2. \A x \in shown : x = "succeeded"
      BY <3>1, <2>4
    <3>3. "succeeded" \in shown
      BY <3>1, <2>3, <2>5
    <3> QED
      BY <3>2, <3>3
  <2>8. status[i] = "failed" => "succeeded" \notin shown
    BY <2>1, <2>4 DEF IInv, VerdictFits
  <2>9. status[i] = "partial" => {"succeeded"} \subseteq shown /\ shown # {"succeeded"}
    <3> HAVE status[i] = "partial"
    <3>1. PICK v \in Work : v[1] = i /\ got[v] = "succeeded"
      BY <2>1 DEF IInv, VerdictFits
    <3>2. PICK w \in Work : w[1] = i /\ got[w] # "succeeded"
      BY <2>1 DEF IInv, VerdictFits
    <3>3. "succeeded" \in shown /\ got[w] \in shown
      BY <3>1, <3>2, <2>3
    <3> QED
      BY <3>2, <3>3
  <2> QED
    BY <2>6, <2>7, <2>8, <2>9 DEF shown
<1> QED
  BY <1>1, Invariance, PTL

(* No status, audit event or result says canceled but after the context    *)
(* was canceled, by CancelInvocation or a client that left.                *)
THEOREM CanceledAsked == Spec => []CanceledWasAsked
<1>1. IInv => CanceledWasAsked
  <2> SUFFICES ASSUME IInv, NEW i \in Invocation,
                      "canceled" \in {status[i], audit[i]} \union OutcomesOf(i)
               PROVE  ctx[i] = "canceled"
    BY DEF CanceledWasAsked
  <2>1. CASE status[i] = "canceled"
    <3>1. pc[i] \in Ended
      BY <2>1, FinalIsEnded DEF Final, Outcome
    <3> QED
      BY <2>1, <3>1 DEF IInv, StatusFollows, VerdictFits, Summarized
  <2>2. CASE audit[i] = "canceled"
    <3>1. pc[i] \in {"closing", "done"}
      BY <2>2 DEF IInv, TypeOK, AuditFollows
    <3> QED
      BY <2>2, <3>1 DEF IInv, AuditFollows, VerdictFits, Summarized, Ended
  <2>3. CASE "canceled" \in OutcomesOf(i)
    <3>1. PICK w \in Work : w[1] = i /\ got[w] = "canceled"
      BY <2>3 DEF OutcomesOf
    <3> QED
      BY <3>1 DEF IInv, GotWasAsked
  <2> QED
    BY <2>1, <2>2, <2>3
<1> QED
  BY <1>1, Invariance, PTL

(* CancelInvocation of an asynchronous invocation, asked after its creator *)
(* had the response, takes effect or answers with a final status.          *)
THEOREM CancelHolds == Spec => []CancelTakesHold
<1>1. IInv => CancelTakesHold
  BY DEF IInv, CancelerFollows, CancelTakesHold
<1> QED
  BY <1>1, Invariance, PTL

(* The audit event is there before the execution, and what finishAudit     *)
(* writes into it is the status of the record.                             *)
THEOREM AuditIsRecord == Spec => []AuditAgrees
<1>1. IInv => AuditAgrees
  <2> SUFFICES ASSUME IInv, NEW i \in Invocation
               PROVE  /\ audit[i] \notin {"none", "accepted"} => audit[i] = status[i]
                      /\ status[i] \in {"running"} \union Final => audit[i] # "none"
    BY DEF AuditAgrees
  <2>1. audit[i] \notin {"none", "accepted"} => audit[i] = status[i]
    BY DEF IInv, TypeOK, AuditFollows, StatusFollows, Ended
  <2>2. ASSUME status[i] \in {"running"} \union Final PROVE audit[i] # "none"
    <3>1. pc[i] \in {"executing", "summarized"} \union Ended
      <4>1. status[i] \notin {"none", "pending"}
        BY <2>2 DEF Final, Outcome
      <4> QED
        BY <4>1 DEF IInv, TypeOK, StatusFollows, Ended
    <3>2. pc[i] \in {"closing", "done"} => verdict[i] \in Final
      BY DEF IInv, VerdictFits, Summarized, Ended
    <3> QED
      BY <3>1, <3>2 DEF IInv, AuditFollows, Ended, Final, Outcome
  <2> QED
    BY <2>1, <2>2
<1> QED
  BY <1>1, Invariance, PTL

(* Where no two calls are logged under one request id, which is so of      *)
(* templates and of builtin actions on one node, every row of              *)
(* tool_call_logs is completed by the call that inserted it.               *)
THEOREM RowsAreOwn ==
  ASSUME KeysDistinct
  PROVE  Spec => []RowIsOwn
<1>1. IInv => RowIsOwn
  <2> SUFFICES ASSUME IInv, NEW key \in LogKey
               PROVE  row[key].by \in {row[key].for, NoWork}
    BY DEF RowIsOwn
  <2>1. row[key].for \in Work \union {NoWork} /\ row[key].by \in Work \union {NoWork}
    BY DEF IInv, TypeOK
  <2> QED
    BY <2>1 DEF IInv, RowsFiled, KeysDistinct
<1> QED
  BY <1>1, Invariance, PTL

(* pending, running, one final status: no cancellation or late result      *)
(* takes the status of a record back or changes a final one.               *)
THEOREM StatusForward == Spec => StatusMovesForward
<1> DEFINE Forward(i) == status'[i] # status[i] =>
             \/ status[i] = "none" /\ status'[i] = "pending"
             \/ status[i] = "pending" /\ status'[i] = "running"
             \/ status[i] = "running" /\ status'[i] \in Final
<1>1. IInv /\ [Next]_vars => [\A i \in Invocation : Forward(i)]_vars
  <2> SUFFICES ASSUME IInv, [Next]_vars, NEW i \in Invocation, status' # status
               PROVE  Forward(i)
    BY DEF vars, recordVars
  <2>1. PICK j \in Invocation : Record(j) \/ Start(j) \/ Finish(j)
    BY DEF Next, CreatorStep, ExecutorStep, TargetStep, CancelerStep, Quiet, vars, recordVars,
           Refuse, AuditStart, StoreCancel, Launch, ClientLeaves, Summarize, FinishAudit, Return,
           TargetFails, OpenRow, Call, CloseRow, FindInvocation, ReadStatus, CallCancel,
           AnswerCancel
  <2>2. CASE Record(j)
    BY <2>2 DEF IInv, TypeOK, StatusFollows, Record, Goes
  <2>3. CASE Start(j)
    <3>1. pc[j] \in {"launched", "audited"} /\ status' = [status EXCEPT ![j] = "running"]
      BY <2>3 DEF Start, Goes
    <3> QED
      BY <3>1 DEF IInv, TypeOK, StatusFollows
  <2>4. CASE Finish(j)
    <3>1. pc[j] = "summarized" /\ status' = [status EXCEPT ![j] = verdict[j]]
      BY <2>4 DEF Finish, Goes
    <3>2. verdict[j] \in Final /\ status[j] = "running"
      BY <3>1 DEF IInv, StatusFollows, VerdictFits, Summarized
    <3> QED
      BY <3>1, <3>2 DEF IInv, TypeOK
  <2> QED
    BY <2>1, <2>2, <2>3, <2>4
<1> QED
  BY <1>1, Invariance, PTL DEF Spec, StatusMovesForward

-----------------------------------------------------------------------------
(* The rows of ended calls.  RowIsCompleted needs in addition that a row   *)
(* was inserted by a call that got as far as its tool.                     *)
RowsOpened ==
  \A w \in Work : row[KeyOf(w)].for = w => work[w] \in {"calling", "called", "done"}

RowsInv == IInv /\ RowsOpened /\ RowIsCompleted

(* Steps that write no row and end no call. *)
LEMMA RowsStay ==
  ASSUME RowsInv, IInv', row' = row,
         \A w \in Work : work'[w] = work[w] \/ (work[w] = "idle" /\ work'[w] = "started")
                           \/ (work[w] = "calling" /\ work'[w] = "called"),
         \A i \in Invocation : ctx'[i] = "live" => ctx[i] = "live"
  PROVE  RowsInv'
<1>1. RowsOpened'
  BY DEF RowsInv, RowsOpened
<1>2. RowIsCompleted'
  BY WorkFacts DEF RowsInv, RowIsCompleted
<1> QED
  BY <1>1, <1>2 DEF RowsInv

LEMMA RowsNext == RowsInv /\ [Next]_vars => RowsInv'
<1> SUFFICES ASSUME RowsInv, [Next]_vars PROVE RowsInv'
  OBVIOUS
<1>0. IInv' /\ TypeOK
  BY InvariantStep DEF RowsInv, IInv
<1>1. CASE row' = row /\ work' = work /\ \A i \in Invocation : ctx'[i] = "live" => ctx[i] = "live"
  BY <1>0, <1>1, RowsStay
<1>2. ASSUME NEW i \in Invocation, Start(i) PROVE RowsInv'
  <2>1. pc[i] \in Unlaunched
    BY <1>2 DEF Start, Goes, Unlaunched
  <2>2. \A w \in Work : w[1] = i => work[w] = "idle"
    BY <2>1 DEF RowsInv, IInv, WorkFollows
  <2>3. /\ row' = row /\ ctx' = ctx
        /\ \A w \in Work : work'[w] = IF w[1] = i THEN "started" ELSE work[w]
    BY <1>2 DEF Start
  <2> QED
    BY <1>0, <2>2, <2>3, RowsStay
<1>3. ASSUME NEW w \in Work, TargetFails(w) PROVE RowsInv'
  <2>1. work[w] = "started" /\ row' = row /\ ctx' = ctx /\ work' = [work EXCEPT ![w] = "done"]
    BY <1>3 DEF TargetFails, Proceeds
  <2>2. row[KeyOf(w)].for # w
    BY <2>1 DEF RowsInv, RowsOpened
  <2>3. RowsOpened' /\ RowIsCompleted'
    BY <1>0, <2>1, <2>2 DEF RowsInv, RowsOpened, RowIsCompleted, TypeOK
  <2> QED
    BY <1>0, <2>3 DEF RowsInv
<1>4. ASSUME NEW w \in Work, OpenRow(w) PROVE RowsInv'
  <2>1. /\ work[w] = "started" /\ ctx' = ctx /\ work' = [work EXCEPT ![w] = "calling"]
        /\ row' = row \/ /\ row[KeyOf(w)].for = NoWork
                         /\ row' = [row EXCEPT ![KeyOf(w)] = [for |-> w, by |-> NoWork]]
    BY <1>4 DEF OpenRow, Proceeds, Logged
  <2>2. \A v \in Work : v # w => work'[v] = work[v]
    BY <1>0, <2>1 DEF TypeOK
  <2>3. work'[w] = "calling"
    BY <1>0, <2>1 DEF TypeOK
  <2>4. \A v \in Work : v # w /\ row'[KeyOf(v)].for = v => row'[KeyOf(v)] = row[KeyOf(v)]
    BY <1>0, <2>1, KeyFacts DEF TypeOK
  <2>5. RowsOpened'
    BY <2>2, <2>3, <2>4 DEF RowsInv, RowsOpened
  <2>6. RowIsCompleted'
    BY <2>1, <2>2, <2>3, <2>4 DEF RowsInv, RowIsCompleted
  <2> QED
    BY <1>0, <2>5, <2>6 DEF RowsInv
<1>5. ASSUME NEW w \in Work, Call(w) PROVE RowsInv'
  <2>1. work[w] = "calling" /\ row' = row /\ ctx' = ctx /\ work' = [work EXCEPT ![w] = "called"]
    BY <1>5 DEF Call, Proceeds
  <2>2. \A v \in Work : work'[v] = work[v] \/ (work[v] = "calling" /\ work'[v] = "called")
    BY <1>0, <2>1 DEF TypeOK
  <2> QED
    BY <1>0, <2>1, <2>2, RowsStay
<1>6. ASSUME NEW w \in Work, CloseRow(w) PROVE RowsInv'
  <2> DEFINE closed == [row EXCEPT ![KeyOf(w)] = [for |-> row[KeyOf(w)].for, by |-> w]]
  <2>1. work[w] = "called" /\ ctx' = ctx /\ work' = [work EXCEPT ![w] = "done"]
    BY <1>6 DEF CloseRow, Proceeds
  <2>2. /\ row' = row \/ row' = closed
        /\ ctx[w[1]] = "live" /\ ~DBFails /\ row[KeyOf(w)].for # NoWork => row' = closed
    BY <1>6 DEF CloseRow, Logged
  <2>3. \A v \in Work : v # w => work'[v] = work[v]
    BY <1>0, <2>1 DEF TypeOK
  <2>4. \A v \in Work : row'[KeyOf(v)].for = row[KeyOf(v)].for
                        /\ (row'[KeyOf(v)].by = row[KeyOf(v)].by \/ row'[KeyOf(v)].by # NoWork)
    BY <1>0, <2>2, KeyFacts, WorkFacts DEF TypeOK
  <2>5. row' = closed => row'[KeyOf(w)].by = w
    BY <1>0, KeyFacts DEF TypeOK
  <2>6. w # NoWork
    BY WorkFacts
  <2> HIDE DEF closed
  <2>7. RowsOpened'
    BY <2>1, <2>3, <2>4 DEF RowsInv, RowsOpened
  <2>8. RowIsCompleted'
    <3> SUFFICES ASSUME NEW v \in Work, work'[v] = "done", ctx'[v[1]] = "live",
                        row'[KeyOf(v)].for = v, ~DBFails
                 PROVE  row'[KeyOf(v)].by # NoWork
      BY DEF RowIsCompleted
    <3>1. CASE v = w
      BY <3>1, <2>1, <2>2, <2>4, <2>5, <2>6
    <3>2. CASE v # w
      BY <3>2, <2>1, <2>3, <2>4 DEF RowsInv, RowIsCompleted
    <3> QED
      BY <3>1, <3>2
  <2> QED
    BY <1>0, <2>7, <2>8 DEF RowsInv
<1>7. ASSUME NEW i \in Invocation, ClientLeaves(i) PROVE RowsInv'
  BY <1>0, <1>1, <1>7 DEF ClientLeaves, targetVars, TypeOK
<1>8. ASSUME NEW k \in Cancel, CallCancel(k) PROVE RowsInv'
  BY <1>0, <1>1, <1>8 DEF CallCancel, targetVars, TypeOK
<1>9. CASE UNCHANGED <<row, work, ctx>>
  BY <1>1, <1>9
<1> QED
  BY <1>2, <1>3, <1>4, <1>5, <1>6, <1>7, <1>8, <1>9
  DEF Next, CreatorStep, ExecutorStep, TargetStep, CancelerStep, Quiet, vars, targetVars, Refuse, Record,
      AuditStart, StoreCancel, Launch, Summarize, Finish, FinishAudit, Return, FindInvocation,
      ReadStatus, AnswerCancel

(* With a database whose statements succeed, a call that ended while its   *)
(* context was live leaves no open row of its own: the error paths of      *)
(* invokeToolWithRequest complete it too.                                  *)
THEOREM RowsCompleted == Spec => []RowIsCompleted
<1>1. Init => RowsInv
  <2> SUFFICES ASSUME Init PROVE RowsInv
    OBVIOUS
  <2>1. \A w \in Work : row[KeyOf(w)].for # w /\ work[w] = "idle"
    BY KeyFacts, WorkFacts DEF Init
  <2> QED
    BY <2>1, InitIsInvariant DEF RowsInv, RowsOpened, RowIsCompleted
<1>2. RowsInv => RowIsCompleted
  BY DEF RowsInv
<1> QED
  BY <1>1, <1>2, RowsNext, PTL DEF Spec
=============================================================================
