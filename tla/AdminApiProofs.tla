--------------------------- MODULE AdminApiProofs ---------------------------
(***************************************************************************)
(* Proofs about AdminApi for any requests, templates, nodes and tokens.    *)
(***************************************************************************)
EXTENDS AdminApi, FoldFacts, SequenceTheorems, TLAPS

USE AdminAssumption, ScenarioAssumption

-----------------------------------------------------------------------------
(* Templates.                                                              *)

(* A template that is built has what a template must have. *)
LEMMA BuiltIsSound ==
  ASSUME NEW a \in AsksOf("create"), Buildable(a)
  PROVE  /\ Built(a) \in Template /\ Built(a) # None
         /\ Built(a).name = a.name /\ a.name \in Name
         /\ SchemaOK(Built(a).schema) /\ TimeoutsOK(Built(a))
<1> DEFINE b == Built(a)
<1>1. /\ a.name \in Name /\ a.risk \in Risks /\ a.default \in Int /\ a.max \in Int /\ a.output \in Int
      /\ SchemaOK(a.schema) /\ a.default > 0 /\ a.max > 0 /\ a.default <= a.max
  BY DEF Buildable, TimeoutsOK
<1>2. /\ b.name = a.name /\ b.schema = a.schema /\ b.default = a.default /\ b.max = a.max
  BY DEF Built
<1>3. (IF a.output <= 0 THEN DefaultOutput ELSE a.output) \in Int
  BY <1>1
<1>4. b \in Template
  BY <1>1, <1>3 DEF Built, Template
<1> QED
  BY <1>1, <1>2, <1>4 DEF TimeoutsOK

(* What a patch leaves, good or bad, is a template of the same name with a *)
(* schema that can be read.                                                *)
LEMMA PatchedIsSound ==
  ASSUME NEW t \in Template, NEW a \in AsksOf("update"), SchemaOK(t.schema)
  PROVE  /\ Patched(t, a) \in Template /\ Patched(t, a) # None
         /\ Patched(t, a).name = t.name
         /\ SchemaOK(Patched(t, a).schema)
<1> DEFINE asks == AsksOf("create") \cup AsksOf("update")
           os == {x.os : x \in asks}
           schemas == {x.schema : x \in asks}
           args == {x.args : x \in AsksOf("create")}
           T == [name : Name, risk : Risks, os : os, args : args, schema : schemas,
                 default : Int, max : Int, enabled : BOOLEAN, output : Int]
           first == [t EXCEPT !.risk = Given(a.risk, @), !.os = Given(a.os, @)]
           last == [first EXCEPT !.schema = Given(a.schema, @), !.default = Given(a.default, @),
                      !.max = Given(a.max, @), !.output = Given(a.output, @),
                      !.enabled = Given(a.enabled, @)]
<1>0. Template = T /\ a.os \in os /\ a.schema \in schemas
  BY DEF Template
<1>t. t \in T
  BY <1>0
<1> HIDE DEF os, schemas, args
<1>1. CASE BadRisk(a)
  BY <1>1 DEF Patched
<1>2. CASE ~BadRisk(a)
  <2>1. Given(a.risk, t.risk) \in Risks /\ Given(a.os, t.os) \in os
    BY <1>2, <1>0, <1>t DEF Given, BadRisk
  <2>2. first \in T /\ first.name = t.name /\ first.schema = t.schema
    BY <1>t, <2>1
  <2>3. CASE BadSchema(a)
    <3>1. Patched(t, a) = first
      BY <1>2, <2>3 DEF Patched
    <3> QED
      BY <1>0, <2>2, <3>1
  <2>4. CASE ~BadSchema(a)
    <3>1. Patched(t, a) = last
      BY <1>2, <2>4 DEF Patched
    <3> HIDE DEF first
    <3>2. /\ Given(a.schema, first.schema) \in schemas /\ Given(a.default, first.default) \in Int
          /\ Given(a.max, first.max) \in Int /\ Given(a.output, first.output) \in Int
          /\ Given(a.enabled, first.enabled) \in BOOLEAN
      BY <1>0, <2>2 DEF Given
    <3>3. last \in T /\ last.name = first.name /\ last.schema = Given(a.schema, first.schema)
      BY <2>2, <3>2
    <3>4. SchemaOK(Given(a.schema, first.schema))
      BY <2>2, <2>4 DEF Given, BadSchema
    <3> HIDE DEF last, T
    <3> QED
      BY <1>0, <2>2, <3>1, <3>3, <3>4
  <2> QED
    BY <2>3, <2>4
<1> QED
  BY <1>1, <1>2

-----------------------------------------------------------------------------
(* The store.                                                              *)
StoreShape ==
  /\ ask \in [Request -> Asks \cup {None}]
  /\ templates \in [Request -> Template \cup {None}]
  /\ nameIDs \in [Name -> Request \cup {None}]
  /\ DOMAIN versions = Request /\ DOMAIN pc = Request

(* A stored template is sound, its name leads to it, it is the last of its *)
(* versions, and the request that created it is over.                      *)
Sound(q) == templates[q] # None =>
  /\ SchemaOK(templates[q].schema)
  /\ q \notin spoiled => TimeoutsOK(templates[q])
  /\ nameIDs[templates[q].name] = q
  /\ templates[q] \in versions[q]
  /\ pc[q] = "answered"
NamesLead == \A n \in Name : nameIDs[n] # None => templates[nameIDs[n]] # None
BuiltIsBuildable == \A q \in Request : pc[q] = "built" => IsA(q, {"create"}) /\ Buildable(ask[q])
StoreInv == StoreShape /\ (\A q \in Request : Sound(q)) /\ NamesLead /\ BuiltIsBuildable

LEMMA InitStoreInv == Init => StoreInv
<1> SUFFICES ASSUME Init PROVE StoreInv
  OBVIOUS
<1>1. ask \in [Request -> Asks \cup {None}]
  BY DEF Init
<1> QED
  BY <1>1 DEF Init, StoreInv, StoreShape, Sound, NamesLead, BuiltIsBuildable

LEMMA AnswersMoves ==
  ASSUME StoreShape, NEW q \in Request, NEW from, NEW code, Answers(q, from, code)
  PROVE  pc[q] = from /\ pc'[q] = "answered" /\ DOMAIN pc' = Request /\ \A r \in Request \ {q} : pc'[r] = pc[r]
  BY DEF Answers, StoreShape

LEMMA GoesMoves ==
  ASSUME StoreShape, NEW q \in Request, NEW from, NEW to, Goes(q, from, to)
  PROVE  pc[q] = from /\ pc'[q] = to /\ DOMAIN pc' = Request /\ \A r \in Request \ {q} : pc'[r] = pc[r]
  BY DEF Goes, StoreShape

(* Steps that leave the store alone. *)
LEMMA StoreStays ==
  ASSUME StoreInv, UNCHANGED <<storeVars, ask>>, DOMAIN pc' = Request,
         \A r \in Request : pc[r] = "answered" => pc'[r] = "answered",
         \A r \in Request : pc'[r] = "built" => pc[r] = "built" \/ (IsA(r, {"create"}) /\ Buildable(ask[r]))
  PROVE  StoreInv'
<1>1. UNCHANGED <<templates, nameIDs, versions, spoiled, ask>>
  BY DEF storeVars
<1>2. StoreShape'
  BY <1>1 DEF StoreInv, StoreShape
<1>3. \A q \in Request : Sound(q)'
  BY <1>1 DEF StoreInv, Sound
<1>4. NamesLead' /\ BuiltIsBuildable'
  BY <1>1 DEF StoreInv, NamesLead, BuiltIsBuildable, IsA
<1> QED
  BY <1>2, <1>3, <1>4 DEF StoreInv

(* CreateTemplate stores under a free name. *)
LEMMA InsertKeepsStore ==
  ASSUME StoreInv, NEW q \in Request, Insert(q)
  PROVE  StoreInv'
<1> DEFINE b == Built(ask[q])
<1>0. /\ pc[q] = "built" /\ ask' = ask /\ ask[q] \in AsksOf("create") /\ Buildable(ask[q])
  BY DEF Insert, StoreInv, StoreShape, BuiltIsBuildable, IsA, AsksOf
<1>1. StoreShape
  BY DEF StoreInv
<1>2. \E code : Answers(q, "built", code)
  BY DEF Insert
<1>3. pc'[q] = "answered" /\ DOMAIN pc' = Request /\ \A r \in Request \ {q} : pc'[r] = pc[r]
  BY <1>1, <1>2, AnswersMoves
<1>4. CASE nameIDs[ask[q].name] # None
  <2>1. UNCHANGED <<storeVars, ask>>
    BY <1>4 DEF Insert
  <2> QED
    BY <1>3, <2>1, StoreStays
<1>5. CASE nameIDs[ask[q].name] = None
  <2>1. /\ templates' = [templates EXCEPT ![q] = b] /\ versions' = [versions EXCEPT ![q] = {b}]
        /\ nameIDs' = [nameIDs EXCEPT ![ask[q].name] = q] /\ spoiled' = spoiled
    BY <1>5 DEF Insert
  <2>2. /\ b \in Template /\ b # None /\ b.name = ask[q].name /\ ask[q].name \in Name
        /\ SchemaOK(b.schema) /\ TimeoutsOK(b)
    BY <1>0, BuiltIsSound
  <2> HIDE DEF b
  <2>3. /\ templates'[q] = b /\ versions'[q] = {b} /\ nameIDs'[b.name] = q
        /\ \A r \in Request \ {q} : templates'[r] = templates[r] /\ versions'[r] = versions[r]
        /\ \A n \in Name \ {b.name} : nameIDs'[n] = nameIDs[n]
    BY <1>1, <2>1, <2>2 DEF StoreShape
  <2>4. StoreShape'
    BY <1>0, <1>1, <1>3, <2>1, <2>2 DEF StoreShape
  <2>5. Sound(q)'
    BY <1>3, <2>2, <2>3 DEF Sound
  <2>6. ASSUME NEW r \in Request \ {q}, templates[r] # None
        PROVE  templates[r].name \in Name \ {b.name} /\ nameIDs[templates[r].name] = r
    <3>1. templates[r] \in Template
      BY <2>6, <1>1 DEF StoreShape
    <3>2. templates[r].name \in Name
      BY <3>1 DEF Template
    <3>3. nameIDs[templates[r].name] = r /\ r # None
      BY <2>6 DEF StoreInv, Sound
    <3> QED
      BY <1>5, <2>2, <3>2, <3>3
  <2>7. \A r \in Request \ {q} : Sound(r)'
    BY <1>3, <2>1, <2>3, <2>6 DEF StoreInv, Sound
  <2>8. NamesLead'
    BY <1>1, <2>2, <2>3 DEF StoreInv, NamesLead, StoreShape
  <2>9. BuiltIsBuildable'
    BY <1>0, <1>3 DEF StoreInv, BuiltIsBuildable, IsA
  <2> QED
    BY <2>4, <2>5, <2>7, <2>8, <2>9 DEF StoreInv
<1> QED
  BY <1>4, <1>5

(* UpdateTemplate, refused or not. *)
LEMMA UpdateKeepsStore ==
  ASSUME StoreInv, NEW q \in Request, Update(q)
  PROVE  StoreInv'
<1> DEFINE t == ask[q].template
           new == Patched(templates[t], ask[q])
           bad == BadRisk(ask[q]) \/ BadSchema(ask[q])
           ok == ~bad /\ TimeoutsOK(new)
<1>0. /\ ask' = ask /\ ask[q] \in AsksOf("update") /\ t \in Request
  BY DEF Update, StoreInv, StoreShape, IsA, AsksOf
<1>1. StoreShape
  BY DEF StoreInv
<1>2. \E code : Answers(q, "new", code)
  BY DEF Update
<1>3. /\ pc'[q] = "answered" /\ DOMAIN pc' = Request /\ \A r \in Request \ {q} : pc'[r] = pc[r]
  BY <1>1, <1>2, AnswersMoves
<1>4. CASE Domain(q) # "admin" \/ templates[t] = None
  <2>1. UNCHANGED <<storeVars, ask>>
    BY <1>4 DEF Update
  <2> QED
    BY <1>3, <2>1, StoreStays
<1>5. CASE ~(Domain(q) # "admin" \/ templates[t] = None)
  <2>1. /\ templates' = [templates EXCEPT ![t] = new]
        /\ versions' = [versions EXCEPT ![t] = @ \cup {new}]
        /\ spoiled' = IF ok THEN spoiled \ {t} ELSE IF bad THEN spoiled ELSE spoiled \cup {t}
        /\ nameIDs' = nameIDs
    BY <1>5 DEF Update
  <2>2. templates[t] \in Template /\ SchemaOK(templates[t].schema)
    BY <1>0, <1>1, <1>5 DEF StoreInv, StoreShape, Sound
  <2>3. new \in Template /\ new # None /\ new.name = templates[t].name /\ SchemaOK(new.schema)
    BY <1>0, <2>2, PatchedIsSound
  <2>4. bad => new.default = templates[t].default /\ new.max = templates[t].max
    BY <2>2 DEF Patched, Template
  <2>5. t \notin spoiled' => TimeoutsOK(new)
    <3>1. CASE ok
      BY <3>1
    <3>2. CASE bad
      <4>1. t \notin spoiled' => TimeoutsOK(templates[t])
        BY <1>0, <1>5, <2>1, <3>2 DEF StoreInv, Sound
      <4> QED
        BY <2>4, <3>2, <4>1 DEF TimeoutsOK
    <3>3. CASE ~ok /\ ~bad
      BY <2>1, <3>3
    <3> QED
      BY <3>1, <3>2, <3>3
  <2>6. \A r \in Request \ {t} : r \notin spoiled' => r \notin spoiled
    BY <2>1
  <2>7. \A r \in Request : pc[r] = "answered" => pc'[r] = "answered"
    BY <1>3
  <2> HIDE DEF new, bad, ok, t
  <2>8. /\ templates'[t] = new /\ new \in versions'[t]
        /\ \A r \in Request \ {t} : templates'[r] = templates[r] /\ versions'[r] = versions[r]
    BY <1>0, <1>1, <2>1 DEF StoreShape
  <2>9. StoreShape'
    BY <1>0, <1>1, <1>3, <2>1, <2>3 DEF StoreShape
  <2>10. \A r \in Request : r = t => Sound(r)'
    <3>1. nameIDs[templates[t].name] = t /\ pc[t] = "answered"
      BY <1>0, <1>5 DEF StoreInv, Sound, t
    <3> QED
      BY <1>0, <2>1, <2>3, <2>5, <2>7, <2>8, <3>1 DEF Sound
  <2>11. \A r \in Request \ {t} : Sound(r)'
    BY <2>1, <2>6, <2>7, <2>8 DEF StoreInv, Sound
  <2>12. NamesLead'
    BY <1>1, <2>1, <2>3, <2>8 DEF StoreInv, NamesLead, StoreShape
  <2>13. BuiltIsBuildable'
    BY <1>0, <1>3 DEF StoreInv, BuiltIsBuildable, IsA
  <2> QED
    BY <2>9, <2>10, <2>11, <2>12, <2>13 DEF StoreInv
<1> QED
  BY <1>4, <1>5

(* How far a handler comes in a step. *)
LEMMA OtherMoves ==
  ASSUME StoreShape, NEW q \in Request,
         \/ Refuse(q) \/ Build(q) \/ Prepare(q) \/ Record(q) \/ AuditStart(q) \/ Begin(q)
         \/ AnswerExec(q) \/ FinishAudit(q) \/ \E left \in BOOLEAN : Complete(q, left)
  PROVE  /\ UNCHANGED <<storeVars, ask>> /\ DOMAIN pc' = Request
         /\ pc[q] # "answered"
         /\ \A r \in Request \ {q} : pc'[r] = pc[r]
         /\ pc'[q] = "built" => IsA(q, {"create"}) /\ Buildable(ask[q])
<1>1. CASE Refuse(q)
  BY <1>1, AnswersMoves DEF Refuse
<1>2. CASE Build(q)
  <2>1. Goes(q, "new", "built") \/ \E code : Answers(q, "new", code)
    BY <1>2 DEF Build
  <2>2. DOMAIN pc' = Request /\ pc[q] # "answered" /\ \A r \in Request \ {q} : pc'[r] = pc[r]
    BY <2>1, AnswersMoves, GoesMoves
  <2>3. ~Buildable(ask[q]) => pc'[q] = "answered"
    BY <1>2, AnswersMoves DEF Build
  <2> QED
    BY <1>2, <2>2, <2>3 DEF Build
<1>3. CASE Prepare(q)
  <2>1. (\E to \in {"running", "planned"} : Goes(q, "new", to)) \/ \E code : Answers(q, "new", code)
    BY <1>3 DEF Prepare
  <2>2. /\ DOMAIN pc' = Request /\ pc[q] # "answered" /\ \A r \in Request \ {q} : pc'[r] = pc[r]
        /\ pc'[q] # "built"
    BY <2>1, AnswersMoves, GoesMoves
  <2> QED
    BY <1>3, <2>2 DEF Prepare
<1>4. CASE Record(q) \/ Begin(q) \/ \E left \in BOOLEAN : Complete(q, left)
  <2>1. \E from \in {"planned", "audited", "running"}, to \in {"recorded", "running", "completed"} : Goes(q, from, to)
    BY <1>4 DEF Record, Begin, Complete
  <2>2. /\ DOMAIN pc' = Request /\ pc[q] # "answered" /\ \A r \in Request \ {q} : pc'[r] = pc[r]
        /\ pc'[q] # "built"
    BY <2>1, GoesMoves
  <2> QED
    BY <1>4, <2>2 DEF Record, Begin, Complete
<1>5. CASE AuditStart(q)
  BY <1>5 DEF AuditStart, StoreShape
<1>6. CASE AnswerExec(q) \/ FinishAudit(q)
  <2>1. (\E code : Answers(q, "running", code)) \/ \E code : Answers(q, "completed", code)
    BY <1>6 DEF AnswerExec, FinishAudit
  <2>2. /\ DOMAIN pc' = Request /\ pc[q] # "answered" /\ \A r \in Request \ {q} : pc'[r] = pc[r]
        /\ pc'[q] # "built"
    BY <2>1, AnswersMoves
  <2> QED
    BY <1>6, <2>2 DEF AnswerExec, FinishAudit
<1> QED
  BY <1>1, <1>2, <1>3, <1>4, <1>5, <1>6

(* Steps without a handler, and of the nodes. *)
NodeStep(q, n) ==
  CheckNode(q, n) \/ SendCall(q, n) \/ \E outcome \in ToolOutcomes : CallReturns(q, n, outcome)
ElseStep ==
  \/ \E w \in Walk : ReadPage(w)
  \/ \E n \in Node, s \in {"gone", "online", "offline"} : NodeChanges(n, s)

LEMMA NextStoreInv == StoreInv /\ [Next]_vars => StoreInv'
<1> SUFFICES ASSUME StoreInv, [Next]_vars PROVE StoreInv'
  OBVIOUS
<1>0. StoreShape
  BY DEF StoreInv
<1>s. UNCHANGED <<storeVars, ask, pc>> => StoreInv'
  BY <1>0, StoreStays DEF StoreShape
<1>1. ASSUME NEW q \in Request,
             \/ Refuse(q) \/ Build(q) \/ Prepare(q) \/ Record(q) \/ AuditStart(q) \/ Begin(q)
             \/ AnswerExec(q) \/ FinishAudit(q) \/ \E left \in BOOLEAN : Complete(q, left)
      PROVE  StoreInv'
  <2>1. /\ UNCHANGED <<storeVars, ask>> /\ DOMAIN pc' = Request
        /\ pc[q] # "answered"
        /\ \A r \in Request \ {q} : pc'[r] = pc[r]
        /\ pc'[q] = "built" => IsA(q, {"create"}) /\ Buildable(ask[q])
    BY <1>0, <1>1, OtherMoves
  <2> QED
    BY <2>1, StoreStays
<1>2. ASSUME NEW q \in Request, NEW n \in Node, NodeStep(q, n) PROVE StoreInv'
  <2>1. UNCHANGED <<storeVars, ask, pc>>
    BY <1>2 DEF NodeStep, CheckNode, SendCall, CallReturns, OthersOfWork
  <2> QED
    BY <1>s, <2>1
<1>3. CASE ElseStep
  <2>1. UNCHANGED <<storeVars, ask, pc>>
    BY <1>3 DEF ElseStep, ReadPage, NodeChanges
  <2> QED
    BY <1>s, <2>1
<1>4. CASE UNCHANGED vars
  BY <1>s, <1>4 DEF vars
<1> QED
  BY <1>1, <1>2, <1>3, <1>4, InsertKeepsStore, UpdateKeepsStore DEF Next, NodeStep, ElseStep

LEMMA StoreInvariance == Spec => []StoreInv
  BY InitStoreInv, NextStoreInv, PTL DEF Spec

(* Stored templates can be read and run, whatever updates were refused,    *)
(* and a name leads to the one template that has it.                       *)
THEOREM TemplatesStaySound == Spec => []TemplatesAreSound
<1>1. StoreInv => TemplatesAreSound
  <2> SUFFICES ASSUME StoreInv, NEW q \in Request, templates[q] # None
               PROVE  /\ templates[q].risk \in Risks /\ SchemaOK(templates[q].schema)
                      /\ q \notin spoiled => TimeoutsOK(templates[q])
                      /\ nameIDs[templates[q].name] = q
                      /\ \A r \in Request \ {q} : templates[r] # None => templates[r].name # templates[q].name
    BY DEF TemplatesAreSound
  <2>1. templates[q] \in Template
    BY DEF StoreInv, StoreShape
  <2>2. templates[q].risk \in Risks
    BY <2>1 DEF Template
  <2> QED
    BY <2>2 DEF StoreInv, Sound
<1> QED
  BY <1>1, StoreInvariance, PTL

-----------------------------------------------------------------------------
(* Runs.                                                                   *)
Active == {"planned", "recorded", "audited", "running", "completed"}
RunShape ==
  /\ DOMAIN plan = Request /\ DOMAIN work = Request /\ DOMAIN sent = Request
  /\ \A q \in Request : DOMAIN work[q] = Node /\ DOMAIN sent[q] = Node

(* A plan was allowed to its token, and its template is a version that was *)
(* enabled and accepted the parameters.                                    *)
Allowed(q) ==
  /\ DomainsOf(ask[q].token) # {}
  /\ IF plan[q].id = None
     THEN /\ plan[q].template = None /\ ask[q].action \in Actions
          /\ AllowRisk(Domain(q), RiskOf(ask[q].action))
     ELSE /\ plan[q].id \in Request /\ plan[q].template \in Template
          /\ plan[q].template.enabled /\ AllowRisk(Domain(q), plan[q].template.risk)
          /\ ParamsOK(plan[q].template.schema, ask[q].params) /\ ask[q].timeout \in Int
          /\ plan[q].timeout = Timeout(ask[q].timeout, plan[q].template.default, plan[q].template.max)
OfVersion(q) == plan[q].id # None =>
  plan[q].template \in versions[plan[q].id] /\ pc[plan[q].id] = "answered"

(* Once the arguments have been checked they can be rendered; what is sent *)
(* is of the plan.                                                         *)
Rendered(q) == plan[q].template # None => Renders(plan[q].template.args, ask[q].params)
RunOf(q) ==
  /\ (pc[q] \in Active \/ \E n \in Node : sent[q][n] # None) => Allowed(q) /\ OfVersion(q)
  /\ \A n \in Node : work[q][n] = "fits" => Rendered(q)
  /\ \A n \in Node : sent[q][n] # None =>
       /\ pc[q] \in Active \cup {"answered"}
       /\ sent[q][n] = Payload(q) /\ Rendered(q)
RunInv == RunShape /\ \A q \in Request : RunOf(q)

LEMMA InitRunInv == Init => RunInv
  BY DEF Init, RunInv, RunShape, RunOf, Active

(* What has been planned stays so while templates change. *)
LEMMA RunStays ==
  ASSUME RunShape, NEW q \in Request, RunOf(q), ask' = ask,
         plan'[q] = plan[q], work'[q] = work[q], sent'[q] = sent[q],
         pc'[q] \in Active => pc[q] \in Active,
         pc[q] \in Active => pc'[q] \in Active \cup {"answered"},
         pc[q] = "answered" => pc'[q] = "answered",
         \A r \in Request : pc[r] = "answered" => versions[r] \subseteq versions'[r] /\ pc'[r] = "answered"
  PROVE  RunOf(q)'
<1>1. Allowed(q) => Allowed(q)'
  BY DEF Allowed, Domain
<1>2. Allowed(q) /\ OfVersion(q) => OfVersion(q)'
  BY DEF Allowed, OfVersion
<1>3. Rendered(q) => Rendered(q)'
  BY DEF Rendered
<1>4. Payload(q)' = Payload(q)
  BY DEF Payload, PlannedTemplate
<1> QED
  BY <1>1, <1>2, <1>3, <1>4 DEF RunOf

(* preparePlan and the start of ExecTemplate. *)
LEMMA PreparePlans ==
  ASSUME StoreInv, RunInv, NEW q \in Request, Prepare(q)
  PROVE  RunShape' /\ RunOf(q)'
<1> DEFINE id == IF IsA(q, {"builtin"}) THEN None ELSE Resolved(Named(q))
           p == [id |-> id, template |-> IF id = None THEN None ELSE templates[id],
                 timeout |-> IF id = None THEN Timeout(ask[q].timeout, DefaultTimeout, 3 * DefaultTimeout)
                             ELSE Timeout(ask[q].timeout, templates[id].default, templates[id].max)]
           todo == [n \in Node |-> IF n \in Targets(q) THEN "todo" ELSE "none"]
<1>0. /\ StoreShape /\ RunShape /\ RunOf(q) /\ UNCHANGED <<ask, sent, storeVars>> /\ pc[q] = "new"
      /\ IsA(q, {"invoke", "exec", "builtin"})
      /\ Authenticate(ask[q].token, RouteDomains(q)) = 200
  BY DEF Prepare, Admitted, StoreInv, RunInv
<1>1. \A n \in Node : sent[q][n] = None
  BY <1>0 DEF RunOf, Active
<1>2. CASE Refusal(q) # 200
  <2>1. UNCHANGED <<plan, work>> /\ \E code : Answers(q, "new", code)
    BY <1>2 DEF Prepare
  <2>2. pc'[q] = "answered"
    BY <1>0, <2>1, AnswersMoves
  <2>3. RunShape'
    BY <1>0, <2>1 DEF RunShape
  <2>4. Rendered(q) => Rendered(q)'
    BY <1>0, <2>1 DEF Rendered
  <2> QED
    BY <1>0, <1>1, <2>1, <2>2, <2>3, <2>4 DEF RunOf, Active
<1>3. CASE Refusal(q) = 200
  <2>1. /\ plan' = [plan EXCEPT ![q] = p] /\ work' = [work EXCEPT ![q] = todo]
    BY <1>3 DEF Prepare
  <2>2. RunShape' /\ plan'[q] = p /\ work'[q] = todo
    BY <1>0, <2>1 DEF RunShape
  <2>3. \A n \in Node : work'[q][n] # "fits"
    BY <2>2
  <2>4. DomainsOf(ask[q].token) # {}
    BY <1>0 DEF Authenticate
  <2>5. CASE IsA(q, {"builtin"})
    <3>1. id = None
      BY <2>5
    <3>2. plan'[q].id = None /\ plan'[q].template = None
      BY <2>2, <3>1
    <3>3. ask[q].action \in Actions /\ AllowRisk(Domain(q), RiskOf(ask[q].action))
      BY <1>3, <2>5 DEF Refusal, BuiltinRefusal, IsA
    <3>4. Allowed(q)' /\ OfVersion(q)'
      BY <1>0, <2>4, <3>2, <3>3 DEF Allowed, OfVersion, Domain
    <3> HIDE DEF id, p, todo
    <3> QED
      BY <1>0, <1>1, <2>2, <2>3, <3>4 DEF RunOf
  <2>6. CASE ~IsA(q, {"builtin"})
    <3>1. id = Resolved(Named(q)) /\ TemplateRefusal(q) = 200
      BY <1>3, <2>6 DEF Refusal
    <3>2. ask[q] \in AsksOf("invoke") \cup AsksOf("exec")
      BY <1>0, <2>6 DEF IsA, AsksOf, StoreShape
    <3>3. Named(q) \in Request \cup Name /\ ask[q].timeout \in Int
      BY <3>2 DEF Named
    <3>4. /\ id # None /\ templates[id].enabled /\ AllowRisk(Domain(q), templates[id].risk)
          /\ ParamsOK(templates[id].schema, ask[q].params)
      BY <3>1 DEF TemplateRefusal
    <3>5. id \in Request /\ templates[id] # None
      <4>1. CASE Named(q) \in Request
        BY <3>1, <3>4, <4>1 DEF Resolved
      <4>2. CASE Named(q) \in Name
        <5>1. id = nameIDs[Named(q)]
          BY <3>1, <4>2 DEF Resolved
        <5> QED
          BY <1>0, <3>4, <4>2, <5>1 DEF StoreInv, StoreShape, NamesLead
      <4> QED
        BY <3>3, <4>1, <4>2
    <3>6. templates[id] \in Template /\ templates[id] \in versions[id] /\ pc[id] = "answered"
      BY <1>0, <3>5 DEF StoreInv, StoreShape, Sound
    <3>7. /\ plan'[q].id = id /\ plan'[q].template = templates[id]
          /\ plan'[q].timeout = Timeout(ask[q].timeout, templates[id].default, templates[id].max)
      BY <2>2, <3>4
    <3>8. pc'[id] = "answered"
      <4>1. \A r \in Request \ {q} : pc'[r] = pc[r]
        BY <1>0, OtherMoves
      <4> QED
        BY <1>0, <3>5, <3>6, <4>1
    <3> HIDE DEF id, p, todo
    <3>9. Allowed(q)'
      BY <1>0, <2>4, <3>3, <3>4, <3>5, <3>6, <3>7 DEF Allowed, Domain
    <3>10. OfVersion(q)'
      BY <1>0, <3>6, <3>7, <3>8 DEF OfVersion, storeVars
    <3> QED
      BY <1>0, <1>1, <2>2, <2>3, <3>9, <3>10 DEF RunOf
  <2> QED
    BY <2>5, <2>6
<1> QED
  BY <1>2, <1>3

(* The steps of a node. *)
LEMMA NodeRuns ==
  ASSUME RunInv, NEW q \in Request, NEW n \in Node, NodeStep(q, n)
  PROVE  RunInv'
<1>0. RunShape /\ RunOf(q) /\ UNCHANGED <<ask, plan, versions, pc>>
  BY DEF RunInv, NodeStep, CheckNode, SendCall, CallReturns, OthersOfWork, storeVars
<1>1. PICK to : work' = [work EXCEPT ![q][n] = to] /\ (to = "fits" => Rendered(q))
  <2>1. CASE CheckNode(q, n)
    <3> DEFINE t == plan[q].template
               x == IF t = None THEN "fits"
                    ELSE IF ~OSMatches(t.os, n) THEN "CAPABILITY_DISABLED"
                    ELSE IF ~Renders(t.args, ask[q].params) THEN "INVALID_ARGUMENT"
                    ELSE "fits"
    <3>1. work' = [work EXCEPT ![q][n] = x]
      BY <2>1 DEF CheckNode, WorkIs, PlannedTemplate
    <3>2. x = "fits" => Rendered(q)
      BY DEF Rendered
    <3> QED
      BY <3>1, <3>2
  <2>2. CASE SendCall(q, n)
    <3> DEFINE known == nodes[n] # "gone" /\ NodeType[n] = "agent"
               x == IF ~known THEN "NODE_NOT_FOUND" ELSE IF nodes[n] = "offline" THEN "NODE_OFFLINE" ELSE "sent"
    <3>1. work' = [work EXCEPT ![q][n] = x]
      BY <2>2 DEF SendCall, WorkIs
    <3>2. x # "fits"
      OBVIOUS
    <3> QED
      BY <3>1, <3>2
  <2>3. ASSUME NEW outcome \in ToolOutcomes, CallReturns(q, n, outcome)
        PROVE  work' = [work EXCEPT ![q][n] = outcome] /\ outcome # "fits"
    BY <2>3 DEF CallReturns, WorkIs, ToolOutcomes
  <2> QED
    BY <2>1, <2>2, <2>3 DEF NodeStep
<1>2. /\ DOMAIN work' = Request /\ DOMAIN work'[q] = Node /\ work'[q][n] = to
      /\ \A m \in Node \ {n} : work'[q][m] = work[q][m]
      /\ \A r \in Request \ {q} : work'[r] = work[r]
  BY <1>0, <1>1 DEF RunShape
<1>3. /\ DOMAIN sent' = Request /\ DOMAIN sent'[q] = Node
      /\ sent'[q][n] = sent[q][n] \/ (sent'[q][n] = Payload(q) /\ work[q][n] = "fits" /\ pc[q] = "running")
      /\ \A m \in Node \ {n} : sent'[q][m] = sent[q][m]
      /\ \A r \in Request \ {q} : sent'[r] = sent[r]
  <2>1. CASE SendCall(q, n)
    BY <1>0, <2>1 DEF SendCall, WorkIs, RunShape
  <2>2. CASE ~SendCall(q, n)
    <3>1. sent' = sent
      BY <2>2 DEF NodeStep, CheckNode, CallReturns
    <3> QED
      BY <1>0, <3>1 DEF RunShape
  <2> QED
    BY <2>1, <2>2
<1>4. RunShape'
  BY <1>0, <1>2, <1>3 DEF RunShape
<1>5. /\ Allowed(q) => Allowed(q)'
      /\ OfVersion(q) => OfVersion(q)'
      /\ Rendered(q) <=> Rendered(q)'
      /\ Payload(q)' = Payload(q)
  BY <1>0 DEF Allowed, Domain, OfVersion, Rendered, Payload, PlannedTemplate
<1>6. RunOf(q)'
  <2>1. ASSUME pc[q] \in Active \/ \E m \in Node : sent'[q][m] # None
        PROVE  Allowed(q) /\ OfVersion(q)
    BY <1>0, <1>3, <2>1 DEF RunOf, Active
  <2>2. ASSUME NEW m \in Node, work'[q][m] = "fits" PROVE Rendered(q)
    BY <1>0, <1>1, <1>2, <2>2 DEF RunOf
  <2>3. ASSUME NEW m \in Node, sent'[q][m] # None
        PROVE  pc[q] \in Active \cup {"answered"} /\ sent'[q][m] = Payload(q) /\ Rendered(q)
    BY <1>0, <1>3, <2>3 DEF RunOf, Active
  <2> QED
    BY <1>0, <1>5, <2>1, <2>2, <2>3 DEF RunOf
<1>7. \A r \in Request \ {q} : RunOf(r)'
  BY <1>0, <1>2, <1>3, RunStays DEF RunInv
<1> QED
  BY <1>4, <1>6, <1>7 DEF RunInv

LEMMA NextRunInv == StoreInv /\ RunInv /\ [Next]_vars => RunInv'
<1> SUFFICES ASSUME StoreInv, RunInv, [Next]_vars PROVE RunInv'
  OBVIOUS
<1>0. StoreShape /\ RunShape
  BY DEF StoreInv, RunInv
<1>s. ASSUME UNCHANGED <<requestVars, ask>>,
             \A r \in Request : pc'[r] \in Active => pc[r] \in Active,
             \A r \in Request : pc[r] \in Active => pc'[r] \in Active \cup {"answered"},
             \A r \in Request : pc[r] = "answered" => versions[r] \subseteq versions'[r] /\ pc'[r] = "answered"
      PROVE  RunInv'
  <2>1. UNCHANGED <<plan, work, sent, ask>>
    BY <1>s DEF requestVars
  <2>2. RunShape'
    BY <1>0, <2>1 DEF RunShape
  <2>3. \A r \in Request : RunOf(r)'
    BY <1>s, <2>1, RunStays DEF RunInv
  <2> QED
    BY <2>2, <2>3 DEF RunInv
<1>1. ASSUME NEW q \in Request,
             \/ Refuse(q) \/ Build(q) \/ Record(q) \/ AuditStart(q) \/ Begin(q)
             \/ AnswerExec(q) \/ FinishAudit(q) \/ \E left \in BOOLEAN : Complete(q, left)
      PROVE  RunInv'
  <2>1. /\ UNCHANGED <<requestVars, ask, storeVars>> /\ pc[q] # "answered"
        /\ \A r \in Request \ {q} : pc'[r] = pc[r]
    BY <1>0, <1>1, OtherMoves DEF Refuse, Build, Record, AuditStart, Begin, AnswerExec, FinishAudit, Complete
  <2>2. CASE Refuse(q) \/ Build(q)
    <3>1. Goes(q, "new", "built") \/ \E code : Answers(q, "new", code)
      BY <2>2 DEF Refuse, Build
    <3>2. pc[q] \notin Active /\ pc'[q] \notin Active
      BY <1>0, <3>1, GoesMoves, AnswersMoves DEF Active
    <3> QED
      BY <1>s, <2>1, <3>2 DEF storeVars
  <2>3. CASE ~(Refuse(q) \/ Build(q))
    <3>1. pc[q] \in Active /\ pc'[q] \in Active \cup {"answered"}
      <4>1. CASE Record(q) \/ Begin(q) \/ \E left \in BOOLEAN : Complete(q, left)
        <5>1. \E from, to \in Active : Goes(q, from, to)
          BY <4>1 DEF Record, Begin, Complete, Active
        <5> QED
          BY <1>0, <5>1, GoesMoves
      <4>2. CASE AuditStart(q)
        BY <1>0, <4>2 DEF AuditStart, Active, StoreShape
      <4>3. CASE AnswerExec(q) \/ FinishAudit(q)
        <5>1. \E from \in Active : \E code : Answers(q, from, code)
          BY <4>3 DEF AnswerExec, FinishAudit, Active
        <5> QED
          BY <1>0, <5>1, AnswersMoves
      <4> QED
        BY <1>1, <2>3, <4>1, <4>2, <4>3
    <3> QED
      BY <1>s, <2>1, <3>1 DEF storeVars
  <2> QED
    BY <2>2, <2>3
<1>2. ASSUME NEW q \in Request, Insert(q) \/ Update(q) PROVE RunInv'
  <2>1. UNCHANGED <<requestVars, ask>>
    BY <1>2 DEF Insert, Update
  <2>2. (\E code : Answers(q, "built", code)) \/ \E code : Answers(q, "new", code)
    BY <1>2 DEF Insert, Update
  <2>3. pc[q] \in {"built", "new"} /\ pc'[q] = "answered" /\ \A r \in Request \ {q} : pc'[r] = pc[r]
    BY <1>0, <2>2, AnswersMoves
  <2>4. \A r \in Request \ {q} : versions[r] \subseteq versions'[r]
    BY <1>0, <1>2 DEF Insert, Update, StoreShape, storeVars
  <2> QED
    BY <1>s, <2>1, <2>3, <2>4 DEF Active
<1>3. ASSUME NEW q \in Request, Prepare(q) PROVE RunInv'
  <2>1. RunShape' /\ RunOf(q)'
    BY <1>3, PreparePlans
  <2>2. /\ UNCHANGED <<ask, versions>> /\ pc[q] # "answered"
        /\ \A r \in Request \ {q} : pc'[r] = pc[r]
    BY <1>0, <1>3, OtherMoves DEF storeVars
  <2>3. \A r \in Request \ {q} : plan'[r] = plan[r] /\ work'[r] = work[r] /\ sent'[r] = sent[r]
    BY <1>0, <1>3 DEF Prepare, RunShape
  <2>4. \A r \in Request \ {q} : RunOf(r)'
    BY <1>0, <2>2, <2>3, RunStays DEF RunInv
  <2> QED
    BY <2>1, <2>4 DEF RunInv
<1>4. ASSUME NEW q \in Request, NEW n \in Node, NodeStep(q, n) PROVE RunInv'
  BY <1>4, NodeRuns
<1>5. CASE ElseStep \/ UNCHANGED vars
  <2>1. UNCHANGED <<requestVars, ask, versions, pc>>
    BY <1>5 DEF ElseStep, ReadPage, NodeChanges, vars, storeVars
  <2> QED
    BY <1>s, <2>1
<1> QED
  BY <1>1, <1>2, <1>3, <1>4, <1>5 DEF Next, NodeStep, ElseStep

LEMMA RunInvariance == Spec => [](StoreInv /\ RunInv)
  BY InitRunInv, NextRunInv, StoreInvariance, PTL DEF Spec

-----------------------------------------------------------------------------
(* What follows for what nodes are asked.                                  *)

(* normalizeTimeout is positive, and within a maximum unless neither the   *)
(* request nor the template names a positive time.                         *)
LEMMA TimeoutIsBounded ==
  ASSUME NEW requested \in Int, NEW default \in Int, NEW max \in Int
  PROVE  /\ Timeout(requested, default, max) > 0
         /\ max > 0 /\ (default > 0 \/ requested > 0) => Timeout(requested, default, max) <= max
  BY DEF Timeout

(* What is sent for a template is a run of the plan's copy of it. *)
LEMMA SentIsOfPlan ==
  ASSUME StoreInv, RunInv, NEW q \in Request, NEW n \in Node, sent[q][n] # None
  PROVE  /\ Allowed(q) /\ OfVersion(q) /\ Rendered(q)
         /\ plan[q].id = None => sent[q][n] = [tool |-> ToolOf(ask[q].action)]
         /\ plan[q].id # None =>
              /\ plan[q].template # None
              /\ sent[q][n] = [tool |-> "run_process", args |-> plan[q].template.args,
                              timeout |-> plan[q].timeout, output |-> plan[q].template.output]
<1>1. /\ Allowed(q) /\ OfVersion(q) /\ Rendered(q) /\ sent[q][n] = Payload(q)
  BY DEF RunInv, RunOf
<1>2. plan[q].id = None <=> plan[q].template = None
  BY <1>1 DEF Allowed
<1> QED
  BY <1>1, <1>2 DEF Payload, PlannedTemplate

(* A node runs one version of a template, which was enabled and accepted   *)
(* the parameters, with its arguments, output limit and a bounded timeout. *)
THEOREM RunsAreOfOneVersion == Spec => []RunIsOfOneVersion
<1>1. StoreInv /\ RunInv => RunIsOfOneVersion
  <2> SUFFICES ASSUME StoreInv, RunInv, NEW q \in Request, NEW n \in Node,
                      sent[q][n] # None, plan[q].id # None
               PROVE  \E v \in versions[plan[q].id] :
                        /\ v.enabled /\ ParamsOK(v.schema, ask[q].params) /\ Renders(v.args, ask[q].params)
                        /\ sent[q][n].args = v.args /\ sent[q][n].output = v.output
                        /\ sent[q][n].timeout = Timeout(ask[q].timeout, v.default, v.max)
                        /\ sent[q][n].timeout > 0
                        /\ v.max > 0 /\ (v.default > 0 \/ ask[q].timeout > 0) => sent[q][n].timeout <= v.max
    BY DEF RunIsOfOneVersion
  <2> DEFINE v == plan[q].template
  <2>1. /\ Allowed(q) /\ OfVersion(q) /\ Renders(v.args, ask[q].params)
        /\ sent[q][n] = [tool |-> "run_process", args |-> v.args, timeout |-> plan[q].timeout,
                         output |-> v.output]
    BY SentIsOfPlan DEF Rendered
  <2>2. /\ v \in Template /\ v.enabled /\ ParamsOK(v.schema, ask[q].params) /\ ask[q].timeout \in Int
        /\ plan[q].timeout = Timeout(ask[q].timeout, v.default, v.max) /\ v \in versions[plan[q].id]
    BY <2>1 DEF Allowed, OfVersion
  <2>3. v.default \in Int /\ v.max \in Int
    BY <2>2 DEF Template
  <2>4. sent[q][n].args = v.args /\ sent[q][n].output = v.output /\ sent[q][n].timeout = plan[q].timeout
    BY <2>1
  <2> HIDE DEF v
  <2>5. /\ plan[q].timeout > 0
        /\ v.max > 0 /\ (v.default > 0 \/ ask[q].timeout > 0) => plan[q].timeout <= v.max
    BY <2>2, <2>3, TimeoutIsBounded
  <2> QED
    BY <2>1, <2>2, <2>4, <2>5
<1> QED
  BY <1>1, RunInvariance, PTL

(* What is sent for a client token only reads. *)
THEOREM ClientsCanOnlyRead == Spec => []ClientsOnlyRead
<1>1. StoreInv /\ RunInv => ClientsOnlyRead
  <2> SUFFICES ASSUME StoreInv, RunInv, NEW q \in Request, NEW n \in Node,
                      sent[q][n] # None, ask[q].token \notin ToSet(Tokens["admin"])
               PROVE  /\ ask[q].token \in ToSet(Tokens["client"])
                      /\ sent[q][n].tool \notin {"write_file", "set_agent_config"}
                      /\ sent[q][n].tool = "run_process" =>
                           \E v \in versions[plan[q].id] :
                             v.risk = "readonly" /\ v.args = sent[q][n].args /\ v.output = sent[q][n].output
    BY DEF ClientsOnlyRead
  <2>1. Allowed(q) /\ OfVersion(q)
    BY SentIsOfPlan
  <2>2. DomainsOf(ask[q].token) = {"client"} /\ ask[q].token \in ToSet(Tokens["client"])
    BY <2>1 DEF Allowed, DomainsOf, HttpDomains
  <2>3. Domain(q) = "client"
    BY <2>2 DEF Domain
  <2>4. \A risk : AllowRisk(Domain(q), risk) => risk = "readonly"
    BY <2>3 DEF AllowRisk
  <2>5. CASE plan[q].id = None
    <3>a. sent[q][n] = [tool |-> ToolOf(ask[q].action)]
      BY <2>5, SentIsOfPlan
    <3>b. sent[q][n].tool = ToolOf(ask[q].action)
      BY <3>a
    <3>c. ask[q].action \in Actions /\ RiskOf(ask[q].action) = "readonly"
      BY <2>1, <2>4, <2>5 DEF Allowed
    <3>1. sent[q][n].tool = ToolOf(ask[q].action) /\ ask[q].action \in Actions /\ RiskOf(ask[q].action) = "readonly"
      BY <3>b, <3>c
    <3>2. ask[q].action \notin {"fs.write", "config.set"}
      BY <3>1 DEF RiskOf
    <3>3. ToolOf(ask[q].action) \in {"list_directory", "read_file", "stat_file", "get_hardware_info", "get_agent_config"}
      BY <3>1, <3>2 DEF ToolOf, Actions
    <3> QED
      BY <2>2, <3>1, <3>3
  <2>6. CASE plan[q].id # None
    <3>1. sent[q][n] = [tool |-> "run_process", args |-> plan[q].template.args,
                       timeout |-> plan[q].timeout, output |-> plan[q].template.output]
      BY <2>6, SentIsOfPlan
    <3>2. plan[q].template.risk = "readonly" /\ plan[q].template \in versions[plan[q].id]
      BY <2>1, <2>4, <2>6 DEF Allowed, OfVersion
    <3>3. /\ sent[q][n].tool = "run_process" /\ sent[q][n].args = plan[q].template.args
          /\ sent[q][n].output = plan[q].template.output
      BY <3>1
    <3> QED
      BY <2>2, <3>2, <3>3
  <2> QED
    BY <2>5, <2>6
<1> QED
  BY <1>1, RunInvariance, PTL

-----------------------------------------------------------------------------
(* The order of a list.                                                    *)
HIDE ScenarioAssumption
HIDE AdminAssumption

(* What may be on a list, and where it stands among the entries. *)
Thing == Request \cup Node
Placed(kind, x) == \E i \in DOMAIN Entries(kind) : Entries(kind)[i] = <<kind, x>>
Precedes(kind, x, y) ==
  \E i, j \in DOMAIN Entries(kind) :
    i < j /\ Entries(kind)[i] = <<kind, x>> /\ Entries(kind)[j] = <<kind, y>>

(* Each thing is born once: a template and an invocation when its request  *)
(* is taken, an audit event when the request is past its first steps.      *)
BornOf(q) ==
  \A i \in DOMAIN born :
    /\ born[i] \in {<<"templates", q>>, <<"invocations", q>>} => pc[q] # "new"
    /\ born[i] = <<"audits", q>> => pc[q] \notin {"new", "built", "planned"}
Births == {"templates", "invocations", "audits"} \X Request
BornOnce ==
  /\ born \in Seq(Births)
  /\ \A i, j \in DOMAIN born : born[i] = born[j] => i = j
BornInv == DOMAIN pc = Request /\ BornOnce /\ \A q \in Request : BornOf(q)

(* The entries are a sequence of pairs, each there once. *)
LEMMA EntriesOnce ==
  ASSUME BornOnce, NEW kind
  PROVE  \E n \in Nat :
           /\ DOMAIN Entries(kind) = 1 .. n
           /\ \A i \in 1 .. n : /\ Entries(kind)[i] = <<Entries(kind)[i][1], Entries(kind)[i][2]>>
                                /\ Entries(kind)[i][2] \in Thing
           /\ \A i, j \in 1 .. n : Entries(kind)[i] = Entries(kind)[j] => i = j
<1>1. CASE kind = "nodes"
  <2>1. /\ NodesById \in Seq(Node) /\ Len(NodesById) \in Nat /\ DOMAIN NodesById = 1 .. Len(NodesById)
        /\ \A i, j \in DOMAIN NodesById : NodesById[i] = NodesById[j] => i = j
    BY AdminAssumption DEF IsInjective
  <2>2. Entries(kind) = [i \in 1 .. Len(NodesById) |-> <<"nodes", NodesById[i]>>]
    BY <1>1, <2>1 DEF Entries
  <2>3. \A i \in 1 .. Len(NodesById) : Entries(kind)[i] = <<"nodes", NodesById[i]>> /\ NodesById[i] \in Thing
    BY <2>1, <2>2 DEF Thing
  <2>4. DOMAIN Entries(kind) = 1 .. Len(NodesById)
    BY <2>2
  <2>5. \A i, j \in 1 .. Len(NodesById) : Entries(kind)[i] = Entries(kind)[j] => i = j
    BY <2>1, <2>3
  <2>6. \A i \in 1 .. Len(NodesById) : /\ Entries(kind)[i] = <<Entries(kind)[i][1], Entries(kind)[i][2]>>
                                       /\ Entries(kind)[i][2] \in Thing
    BY <2>3
  <2> QED
    BY <2>1, <2>4, <2>5, <2>6
<1>2. CASE kind # "nodes"
  <2> DEFINE n == Len(born)
  <2>1. /\ born \in Seq(Births)
        /\ n \in Nat /\ DOMAIN born = 1 .. n
        /\ \A i, j \in DOMAIN born : born[i] = born[j] => i = j
    BY DEF BornOnce
  <2>2. Entries(kind) = [i \in 1 .. n |-> born[(n - i) + 1]]
    BY <1>2 DEF Entries, Reverse
  <2>3. ASSUME NEW i \in 1 .. n
        PROVE  /\ (n - i) + 1 \in 1 .. n
               /\ Entries(kind)[i] = born[(n - i) + 1]
               /\ born[(n - i) + 1] \in Births
    BY <2>1, <2>2
  <2>4. \A i \in 1 .. n : /\ Entries(kind)[i] = <<Entries(kind)[i][1], Entries(kind)[i][2]>>
                          /\ Entries(kind)[i][2] \in Thing
    BY <2>3 DEF Thing, Births
  <2>5. ASSUME NEW i \in 1 .. n, NEW j \in 1 .. n, Entries(kind)[i] = Entries(kind)[j]
        PROVE  i = j
    <3>0. born[(n - i) + 1] = born[(n - j) + 1] /\ (n - i) + 1 \in 1 .. n /\ (n - j) + 1 \in 1 .. n
      BY <2>3, <2>5
    <3>1. (n - i) + 1 = (n - j) + 1
      BY <2>1, <3>0
    <3> QED
      BY <2>1, <3>1
  <2>6. DOMAIN Entries(kind) = 1 .. n
    BY <2>2
  <2> QED
    BY <2>1, <2>4, <2>5, <2>6
<1> QED
  BY <1>1, <1>2

(* So the order is one. *)
LEMMA OrderIsStrict ==
  ASSUME BornOnce, NEW kind
  PROVE  /\ \A x, y : Precedes(kind, x, y) => Placed(kind, x) /\ Placed(kind, y) /\ ~Precedes(kind, y, x)
         /\ \A x : ~Precedes(kind, x, x)
         /\ \A x, y, z : Precedes(kind, x, y) /\ Precedes(kind, y, z) => Precedes(kind, x, z)
<1>1. PICK n \in Nat : /\ DOMAIN Entries(kind) = 1 .. n
                       /\ \A i, j \in 1 .. n : Entries(kind)[i] = Entries(kind)[j] => i = j
  BY EntriesOnce
<1>2. ASSUME NEW x, NEW y, Precedes(kind, x, y)
      PROVE  Placed(kind, x) /\ Placed(kind, y) /\ ~Precedes(kind, y, x)
  BY <1>1, <1>2 DEF Precedes, Placed
<1>3. ASSUME NEW x, NEW y, NEW z, Precedes(kind, x, y), Precedes(kind, y, z)
      PROVE  Precedes(kind, x, z)
  <2>1. PICK i \in 1 .. n, j \in 1 .. n :
          i < j /\ Entries(kind)[i] = <<kind, x>> /\ Entries(kind)[j] = <<kind, y>>
    BY <1>1, <1>3 DEF Precedes
  <2>2. PICK k \in 1 .. n, m \in 1 .. n :
          k < m /\ Entries(kind)[k] = <<kind, y>> /\ Entries(kind)[m] = <<kind, z>>
    BY <1>1, <1>3 DEF Precedes
  <2>3. j = k
    BY <1>1, <2>1, <2>2
  <2>4. i < m
    BY <2>1, <2>2, <2>3
  <2> QED
    BY <1>1, <2>1, <2>2, <2>4 DEF Precedes
<1> QED
  BY <1>2, <1>3

(* What is born comes before all that was there. *)
LEMMA OrderGrows ==
  ASSUME BornOnce, born' = born \/ \E e \in Births : born' = Append(born, e), NEW kind
  PROVE  /\ \A x : Placed(kind, x) => Placed(kind, x)'
         /\ \A x, y : Precedes(kind, x, y) => Precedes(kind, x, y)'
<1>1. CASE kind = "nodes" \/ born' = born
  <2>1. Entries(kind)' = Entries(kind)
    BY <1>1 DEF Entries
  <2> QED
    BY <2>1 DEF Placed, Precedes
<1>2. CASE kind # "nodes" /\ \E e \in Births : born' = Append(born, e)
  <2> DEFINE n == Len(born)
  <2>1. PICK e \in Births : born' = Append(born, e)
    BY <1>2
  <2>2. n \in Nat /\ DOMAIN born = 1 .. n
    BY DEF BornOnce
  <2>3. Len(born') = n + 1 /\ \A i \in 1 .. n : born'[i] = born[i]
    <3>1. born \in Seq(Births)
      BY DEF BornOnce
    <3>2. Len(Append(born, e)) = n + 1 /\ \A i \in 1 .. n : Append(born, e)[i] = born[i]
      BY <2>2, <3>1
    <3> QED
      BY <2>1, <3>2
  <2>4. Entries(kind) = [i \in 1 .. n |-> born[(n - i) + 1]]
    BY <1>2 DEF Entries, Reverse
  <2>5. Entries(kind)' = [i \in 1 .. n + 1 |-> born'[((n + 1) - i) + 1]]
    BY <1>2, <2>3 DEF Entries, Reverse
  <2>6. ASSUME NEW i \in 1 .. n
        PROVE  i + 1 \in 1 .. n + 1 /\ Entries(kind)'[i + 1] = Entries(kind)[i]
    <3>1. i + 1 \in 1 .. n + 1 /\ ((n + 1) - (i + 1)) + 1 = (n - i) + 1 /\ (n - i) + 1 \in 1 .. n
      BY <2>2
    <3> QED
      BY <2>3, <2>4, <2>5, <3>1
  <2>7. DOMAIN Entries(kind) = 1 .. n /\ DOMAIN Entries(kind)' = 1 .. n + 1
    BY <2>4, <2>5
  <2>8. ASSUME NEW x, Placed(kind, x) PROVE Placed(kind, x)'
    BY <2>6, <2>7, <2>8 DEF Placed
  <2>9. ASSUME NEW x, NEW y, Precedes(kind, x, y) PROVE Precedes(kind, x, y)'
    <3>1. PICK i \in 1 .. n, j \in 1 .. n :
            i < j /\ Entries(kind)[i] = <<kind, x>> /\ Entries(kind)[j] = <<kind, y>>
      BY <2>7, <2>9 DEF Precedes
    <3>2. i + 1 < j + 1
      BY <3>1
    <3> QED
      BY <2>6, <2>7, <3>1, <3>2 DEF Precedes
  <2> QED
    BY <2>8, <2>9
<1> QED
  BY <1>1, <1>2
(* The list is put together entry by entry, from the first. *)
EntriesUpTo(kind, n) ==
  /\ n \in Nat /\ DOMAIN Entries(kind) = 1 .. n
  /\ \A i \in 1 .. n : Entries(kind)[i][2] \in Thing
ListedInSteps(kind, filter, n) ==
  \E g \in [0 .. n -> Seq(Thing)] :
    /\ g[0] = <<>> /\ g[n] = Listed(kind, filter)
    /\ \A i \in 1 .. n :
         LET e == Entries(kind)[i]
         IN g[i] = IF e[1] = kind /\ Belongs(kind, filter, e[2]) THEN Append(g[i - 1], e[2]) ELSE g[i - 1]

LEMMA ListedSteps ==
  ASSUME NEW kind, NEW filter, NEW n, EntriesUpTo(kind, n)
  PROVE  ListedInSteps(kind, filter, n)
<1>0. n \in Nat /\ DOMAIN Entries(kind) = 1 .. n /\ \A i \in 1 .. n : Entries(kind)[i][2] \in Thing
  BY DEF EntriesUpTo
<1> DEFINE seq == Entries(kind)
           Keep(items, e) == IF e[1] = kind /\ Belongs(kind, filter, e[2]) THEN Append(items, e[2]) ELSE items
           Folds(iter) == iter = [s \in SUBSET DOMAIN seq |->
                            IF s = {} THEN <<>> ELSE Keep(iter[s \ {Max(s)}], seq[Max(s)])]
<1>1. \A items \in Seq(Thing), i \in 1 .. n : Keep(items, seq[i]) \in Seq(Thing)
  BY <1>0
<1>2. PICK Op \in [1 .. n -> [Seq(Thing) -> Seq(Thing)]] :
        \A i \in 1 .. n, items \in Seq(Thing) : Op[i][items] = Keep(items, seq[i])
  <2> DEFINE op == [i \in 1 .. n |-> [items \in Seq(Thing) |-> Keep(items, seq[i])]]
  <2>1. op \in [1 .. n -> [Seq(Thing) -> Seq(Thing)]]
    BY <1>1
  <2>2. \A i \in 1 .. n, items \in Seq(Thing) : op[i][items] = Keep(items, seq[i])
    OBVIOUS
  <2> HIDE DEF op
  <2> QED
    BY <2>1, <2>2
<1>3. <<>> \in Seq(Thing)
  OBVIOUS
<1>4. Listed(kind, filter) = (CHOOSE iter : Folds(iter))[1 .. n]
  BY <1>0 DEF Listed, FoldLeft, MapThenFoldSet
<1> HIDE DEF Keep, seq
<1>m. \A s \in SUBSET (1 .. n) : s # {} => Max(s) \in 1 .. n /\ s \ {Max(s)} \in SUBSET (1 .. n)
  BY <1>0, MaxUpTo
<1>5. \E iter : Folds(iter)
  <2>1. DOMAIN seq = 1 .. n
    BY <1>0 DEF seq
  <2>2. PICK it \in [SUBSET (1 .. n) -> Seq(Thing)] : Iterates(it, n, <<>>, Op)
    BY <1>0, <1>2, <1>3, IterationExists
  <2>3. ASSUME NEW s \in SUBSET (1 .. n)
        PROVE  it[s] = IF s = {} THEN <<>> ELSE Keep(it[s \ {Max(s)}], seq[Max(s)])
    <3>1. it[s] = IF s = {} THEN <<>> ELSE Op[Max(s)][it[s \ {Max(s)}]]
      BY <2>2 DEF Iterates
    <3>2. CASE s # {}
      <4>1. Max(s) \in 1 .. n /\ it[s \ {Max(s)}] \in Seq(Thing)
        BY <2>2, <1>m, <3>2
      <4>2. Op[Max(s)][it[s \ {Max(s)}]] = Keep(it[s \ {Max(s)}], seq[Max(s)])
        BY <1>2, <4>1
      <4> QED
        BY <3>1, <3>2, <4>2
    <3>3. CASE s = {}
      BY <3>1, <3>3
    <3> QED
      BY <3>2, <3>3
  <2>4. it = [s \in SUBSET (1 .. n) |-> it[s]]
    BY <2>2
  <2>5. it = [s \in SUBSET (1 .. n) |-> IF s = {} THEN <<>> ELSE Keep(it[s \ {Max(s)}], seq[Max(s)])]
    BY <2>3, <2>4
  <2> QED
    BY <2>1, <2>5
<1>6. PICK fold : Folds(fold) /\ Listed(kind, filter) = fold[1 .. n]
  BY <1>4, <1>5
<1>7. Unfolds(fold, n, Seq(Thing), <<>>, Op)
  <2>1. DOMAIN seq = 1 .. n
    BY <1>0 DEF seq
  <2>2. /\ fold[{}] = <<>>
        /\ \A s \in SUBSET (1 .. n) : s # {} => fold[s] = Keep(fold[s \ {Max(s)}], seq[Max(s)])
    BY <1>6, <2>1
  <2> QED
    BY <1>0, <1>2, <1>3, <1>m, <2>2 DEF Unfolds
<1>8. PICK g \in [0 .. n -> Seq(Thing)] :
        /\ g[0] = <<>> /\ g[n] = fold[1 .. n]
        /\ \A i \in 1 .. n : g[i] = Op[i][g[i - 1]]
  <2>1. GoesThrough(fold, n, Seq(Thing), <<>>, Op)
    BY <1>7, IterationSteps
  <2> QED
    BY <2>1 DEF GoesThrough
<1>9. \A i \in 1 .. n : g[i] = Keep(g[i - 1], seq[i])
  <2>1. \A i \in 1 .. n : g[i - 1] \in Seq(Thing)
    BY <1>0, <1>8
  <2> QED
    BY <1>2, <1>8, <2>1
<1>10. \A i \in 1 .. n :
         LET e == Entries(kind)[i]
         IN g[i] = IF e[1] = kind /\ Belongs(kind, filter, e[2]) THEN Append(g[i - 1], e[2]) ELSE g[i - 1]
  BY <1>9 DEF Keep, seq
<1>11. g[n] = Listed(kind, filter)
  BY <1>6, <1>8
<1> QED
  BY <1>8, <1>10, <1>11 DEF ListedInSteps
(* A list is what belongs to it, in the order of the entries. *)
LEMMA ListedFacts ==
  ASSUME BornOnce, NEW kind, NEW filter
  PROVE  /\ Listed(kind, filter) \in Seq(Thing)
         /\ \A x : x \in ToSet(Listed(kind, filter)) <=> Placed(kind, x) /\ Belongs(kind, filter, x)
         /\ \A k, m \in DOMAIN Listed(kind, filter) :
              k < m => Precedes(kind, Listed(kind, filter)[k], Listed(kind, filter)[m])
<1>1. PICK n \in Nat :
        /\ DOMAIN Entries(kind) = 1 .. n
        /\ \A i \in 1 .. n : /\ Entries(kind)[i] = <<Entries(kind)[i][1], Entries(kind)[i][2]>>
                             /\ Entries(kind)[i][2] \in Thing
  BY EntriesOnce
<1> DEFINE Wanted(i) == Entries(kind)[i][1] = kind /\ Belongs(kind, filter, Entries(kind)[i][2])
<1>2. PICK g \in [0 .. n -> Seq(Thing)] :
        /\ g[0] = <<>> /\ g[n] = Listed(kind, filter)
        /\ \A i \in 1 .. n : g[i] = IF Wanted(i) THEN Append(g[i - 1], Entries(kind)[i][2]) ELSE g[i - 1]
  <2>1. EntriesUpTo(kind, n)
    BY <1>1 DEF EntriesUpTo
  <2>2. ListedInSteps(kind, filter, n)
    BY <2>1, ListedSteps
  <2> QED
    BY <2>2 DEF ListedInSteps
<1> DEFINE From(i, x) == \E a \in 1 .. i : Wanted(a) /\ Entries(kind)[a][2] = x
           Meant(i) == \A k \in DOMAIN g[i] : From(i, g[i][k])
           Whole(i) == \A a \in 1 .. i : Wanted(a) => \E k \in DOMAIN g[i] : g[i][k] = Entries(kind)[a][2]
           Sorted(i) == \A k, m \in DOMAIN g[i] : k < m => Precedes(kind, g[i][k], g[i][m])
           P == {i \in 0 .. n : Meant(i) /\ Whole(i) /\ Sorted(i)}
<1>3. ASSUME NEW a \in 1 .. n, Wanted(a)
      PROVE  Entries(kind)[a] = <<kind, Entries(kind)[a][2]>>
  BY <1>1, <1>3
<1>4. ASSUME NEW a \in 1 .. n, NEW b \in 1 .. n, a < b, Wanted(a), Wanted(b)
      PROVE  Precedes(kind, Entries(kind)[a][2], Entries(kind)[b][2])
  BY <1>1, <1>3, <1>4 DEF Precedes
<1> HIDE DEF Wanted
<1>5. 0 \in P
  BY <1>2
<1>6. ASSUME NEW i \in 1 .. n, i - 1 \in P PROVE i \in P
  <2>0. /\ i \in Nat /\ i - 1 \in 0 .. n /\ g[i - 1] \in Seq(Thing) /\ Len(g[i - 1]) \in Nat
        /\ DOMAIN g[i - 1] = 1 .. Len(g[i - 1]) /\ i \in 0 .. n
        /\ 1 .. i = (1 .. (i - 1)) \cup {i}
    BY <1>2
  <2>1. CASE ~Wanted(i)
    <3>1. g[i] = g[i - 1]
      BY <1>2, <2>1
    <3>2. Meant(i) /\ Whole(i) /\ Sorted(i)
      BY <1>6, <2>0, <2>1, <3>1
    <3> QED
      BY <2>0, <3>2
  <2>2. CASE Wanted(i)
    <3> DEFINE old == g[i - 1]
               x == Entries(kind)[i][2]
               n1 == Len(old)
    <3>1. g[i] = Append(old, x) /\ x \in Thing
      BY <1>1, <1>2, <2>2
    <3>2. /\ DOMAIN g[i] = 1 .. n1 + 1 /\ g[i][n1 + 1] = x /\ \A k \in 1 .. n1 : g[i][k] = old[k]
          /\ 1 .. n1 + 1 = (1 .. n1) \cup {n1 + 1} /\ n1 \in Nat
      BY <2>0, <3>1
    <3>3. Meant(i)
      <4>1. \A k \in 1 .. n1 : From(i, old[k])
        BY <1>6, <2>0
      <4>2. From(i, x)
        BY <2>0, <2>2
      <4> HIDE DEF From, old, x, n1
      <4> QED
        BY <3>2, <4>1, <4>2
    <3>4. Whole(i)
      <4>1. \A a \in 1 .. i - 1 : Wanted(a) => \E k \in 1 .. n1 : old[k] = Entries(kind)[a][2]
        BY <1>6, <2>0
      <4>2. n1 + 1 \in DOMAIN g[i] /\ g[i][n1 + 1] = Entries(kind)[i][2]
        BY <3>2
      <4> HIDE DEF old, x, n1
      <4> QED
        BY <2>0, <3>2, <4>1, <4>2
    <3>5. Sorted(i)
      <4>1. ASSUME NEW k \in 1 .. n1 PROVE Precedes(kind, old[k], x)
        <5>1. PICK a \in 1 .. i - 1 : Wanted(a) /\ Entries(kind)[a][2] = old[k]
          BY <1>6, <2>0
        <5>2. a \in 1 .. n /\ a < i
          BY <2>0
        <5> QED
          BY <1>4, <2>2, <5>1, <5>2
      <4>2. \A k, m \in 1 .. n1 : k < m => Precedes(kind, old[k], old[m])
        BY <1>6, <2>0
      <4> HIDE DEF old, x, n1
      <4>3. ASSUME NEW k \in DOMAIN g[i], NEW m \in DOMAIN g[i], k < m
            PROVE  Precedes(kind, g[i][k], g[i][m])
        <5>1. k \in 1 .. n1
          BY <3>2, <4>3
        <5>2. CASE m \in 1 .. n1
          BY <3>2, <4>2, <4>3, <5>1, <5>2
        <5>3. CASE m = n1 + 1
          BY <3>2, <4>1, <5>1, <5>3
        <5> QED
          BY <3>2, <5>2, <5>3
      <4> QED
        BY <4>3
    <3> QED
      BY <2>0, <3>3, <3>4, <3>5
  <2> QED
    BY <2>1, <2>2
<1>7. n \in P
  <2> HIDE DEF P
  <2>1. \A i \in 0 .. n : i \in P
    BY <1>5, <1>6, UpTo
  <2> QED
    BY <2>1
<1>8. /\ Listed(kind, filter) \in Seq(Thing)
      /\ \A k \in DOMAIN Listed(kind, filter) : From(n, Listed(kind, filter)[k])
      /\ \A a \in 1 .. n : Wanted(a) => \E k \in DOMAIN Listed(kind, filter) : Listed(kind, filter)[k] = Entries(kind)[a][2]
      /\ \A k, m \in DOMAIN Listed(kind, filter) :
           k < m => Precedes(kind, Listed(kind, filter)[k], Listed(kind, filter)[m])
  <2>1. Meant(n) /\ Whole(n) /\ Sorted(n)
    BY <1>7
  <2>2. g[n] = Listed(kind, filter) /\ Listed(kind, filter) \in Seq(Thing)
    BY <1>2
  <2> HIDE DEF From
  <2> QED
    BY <2>1, <2>2
<1>9. ASSUME NEW x PROVE From(n, x) <=> Placed(kind, x) /\ Belongs(kind, filter, x)
  <2>1. ASSUME NEW a \in 1 .. n, Wanted(a), Entries(kind)[a][2] = x
        PROVE  Placed(kind, x) /\ Belongs(kind, filter, x)
    <3>1. Entries(kind)[a] = <<kind, x>> /\ a \in DOMAIN Entries(kind)
      BY <1>1, <1>3, <2>1
    <3> QED
      BY <2>1, <3>1 DEF Placed, Wanted
  <2>2. ASSUME Placed(kind, x), Belongs(kind, filter, x)
        PROVE  From(n, x)
    <3>1. PICK a \in 1 .. n : Entries(kind)[a] = <<kind, x>>
      BY <1>1, <2>2 DEF Placed
    <3>2. Entries(kind)[a][1] = kind /\ Entries(kind)[a][2] = x
      BY <3>1
    <3> QED
      BY <2>2, <3>2 DEF Wanted
  <2> QED
    BY <2>1, <2>2
<1>10. \A x : x \in ToSet(Listed(kind, filter)) <=> From(n, x)
  <2>1. \A x : x \in ToSet(Listed(kind, filter)) <=>
                \E k \in DOMAIN Listed(kind, filter) : Listed(kind, filter)[k] = x
    BY DEF ToSet
  <2>2. ASSUME NEW x, From(n, x)
        PROVE  \E k \in DOMAIN Listed(kind, filter) : Listed(kind, filter)[k] = x
    BY <1>8, <2>2
  <2> HIDE DEF From
  <2> QED
    BY <1>8, <2>1, <2>2
<1> HIDE DEF From
<1> QED
  BY <1>8, <1>9, <1>10
(* A page begins after the cursor, and has at least one item unless it is  *)
(* the last one.                                                           *)
PageOf(page, L, cursor) ==
  \E start, end \in 0 .. Len(L) :
    /\ start <= end
    /\ page.items \in Seq(Thing)
    /\ Len(page.items) = end - start
    /\ \A k \in 1 .. end - start : page.items[k] = L[start + k]
    /\ page.next = IF end < Len(L) THEN L[end] ELSE None
    /\ end < Len(L) => start < end
    /\ cursor = None => start = 0
    /\ cursor \in ToSet(L) => start \in DOMAIN L /\ L[start] = cursor
    /\ cursor \notin ToSet(L) /\ cursor # None => start = Len(L)

LEMMA PageFacts ==
  ASSUME NEW L \in Seq(Thing), NEW cursor \in Thing \cup {None}, NEW limit \in Nat \ {0}
  PROVE  PageOf(Page(L, cursor, limit), L, cursor)
<1> DEFINE start == IF cursor = None THEN 0
                    ELSE IF cursor \in ToSet(L) THEN CHOOSE i \in DOMAIN L : L[i] = cursor
                    ELSE Len(L)
           end == Min({start + limit, Len(L)})
           items == SubSeq(L, start + 1, end)
<1>0. Len(L) \in Nat /\ DOMAIN L = 1 .. Len(L) /\ \A i \in 1 .. Len(L) : L[i] \in Thing
  OBVIOUS
<1>1. cursor \in ToSet(L) => \E i \in DOMAIN L : L[i] = cursor
  BY DEF ToSet
<1>2. ToSet(L) \subseteq Thing
  BY <1>0 DEF ToSet
<1>x. None \notin Thing
  BY AdminAssumption DEF Thing
<1>3. /\ start \in 0 .. Len(L)
      /\ cursor = None => start = 0
      /\ cursor \in ToSet(L) => start \in DOMAIN L /\ L[start] = cursor
      /\ cursor \notin ToSet(L) /\ cursor # None => start = Len(L)
  BY <1>0, <1>1, <1>2, <1>x
<1> HIDE DEF start
<1>n. Len(L) \in Nat
  BY <1>0
<1>s. start \in Nat /\ start <= Len(L)
  <2>1. start \in 0 .. Len(L)
    BY <1>3
  <2> QED
    BY <1>n, <2>1
<1>4. /\ end \in 0 .. Len(L) /\ start <= end
      /\ end < Len(L) => start < end
  <2> DEFINE a == start + limit
             b == Len(L)
  <2>1. a \in Nat /\ b \in Nat /\ start \in Nat /\ start < a /\ start <= b
    BY <1>n, <1>s
  <2> HIDE DEF a, b
  <2>2. PICK m \in {a, b} : \A y \in {a, b} : m =< y
    <3>1. CASE a <= b
      BY <2>1, <3>1
    <3>2. CASE b <= a
      BY <2>1, <3>2
    <3> QED
      BY <2>1, <3>1, <3>2
  <2>3. Min({a, b}) \in {a, b} /\ \A y \in {a, b} : Min({a, b}) =< y
    BY <2>2 DEF Min
  <2>4. end = Min({a, b})
    BY DEF a, b
  <2> HIDE DEF end
  <2>5. end \in 0 .. b /\ start <= end /\ (end < b => start < end)
    BY <2>1, <2>3, <2>4
  <2> QED
    BY <2>5 DEF b
<1> HIDE DEF end
<1>5. /\ items \in Seq(Thing) /\ Len(items) = end - start
      /\ \A k \in 1 .. end - start : items[k] = L[start + k]
  <2>0. start \in Nat /\ end \in Nat /\ end <= Len(L) /\ Len(L) \in Nat
    BY <1>n, <1>s, <1>4
  <2>1. start + 1 \in Int /\ end \in Int /\ \A i \in start + 1 .. end : L[i] \in Thing
    <3>1. \A i \in start + 1 .. end : i \in 1 .. Len(L)
      BY <2>0
    <3> QED
      BY <1>0, <2>0, <3>1
  <2>2. /\ items \in Seq(Thing)
        /\ Len(items) = IF start + 1 <= end THEN end - (start + 1) + 1 ELSE 0
        /\ \A i \in 1 .. end - (start + 1) + 1 : items[i] = L[(start + 1) + i - 1]
    BY <2>1, SubSeqProperties
  <2>3. end - (start + 1) + 1 = end - start
    BY <1>3, <1>4
  <2>4. \A i \in 1 .. end - start : (start + 1) + i - 1 = start + i
    BY <1>3
  <2>5. Len(items) = end - start
    BY <1>3, <1>4, <2>2, <2>3
  <2> HIDE DEF items
  <2> QED
    BY <2>2, <2>3, <2>4, <2>5
<1>6. /\ Page(L, cursor, limit).items = items
      /\ Page(L, cursor, limit).next = IF end < Len(L) THEN L[end] ELSE None
  BY DEF Page, start, end
<1> HIDE DEF items
<1> QED
  BY <1>3, <1>4, <1>5, <1>6 DEF PageOf

LEMMA LimitIsPositive ==
  ASSUME NEW limit \in Int \cup {None}
  PROVE  Limit(limit) \in Nat \ {0}
<1>1. CASE limit = None \/ limit <= 0
  BY <1>1, AdminAssumption DEF Limit
<1>2. CASE ~(limit = None \/ limit <= 0)
  <2>1. limit \in Nat \ {0} /\ MaxLimit \in Nat \ {0}
    BY <1>2, AdminAssumption
  <2>2. \E m \in {limit, MaxLimit} : \A y \in {limit, MaxLimit} : m =< y
    BY <2>1
  <2>3. Min({limit, MaxLimit}) \in {limit, MaxLimit}
    BY <2>2 DEF Min
  <2> QED
    BY <1>2, <2>1, <2>3 DEF Limit
<1> QED
  BY <1>1, <1>2

-----------------------------------------------------------------------------
(* Nothing is born twice.                                                  *)
LEMMA InitBornInv == Init => BornInv
  BY DEF Init, BornInv, BornOnce, BornOf

(* A step of a handler is of one request, never back to its beginning, and *)
(* what it gives a CreatedAt had none.                                     *)
HandlerStep(q) ==
  /\ DOMAIN pc' = Request /\ \A r \in Request \ {q} : pc'[r] = pc[r]
  /\ pc'[q] # "new"
  /\ pc'[q] \in {"built", "planned"} => pc[q] = "new"
Bears(q) ==
  \/ born' = born
  \/ born' \in {Append(born, <<"templates", q>>), Append(born, <<"invocations", q>>)} /\ pc[q] = "new"
  \/ /\ born' = Append(born, <<"audits", q>>)
     /\ pc[q] \in {"new", "built", "planned"} /\ pc'[q] \notin {"new", "built", "planned"}

LEMMA BornKeeps ==
  ASSUME BornInv, NEW q \in Request, HandlerStep(q), Bears(q)
  PROVE  BornInv' /\ (born' = born \/ \E e \in Births : born' = Append(born, e))
<1> DEFINE n == Len(born)
<1>0. born \in Seq(Births) /\ n \in Nat /\ DOMAIN born = 1 .. n
  BY DEF BornInv, BornOnce
<1>1. CASE born' = born
  <2>1. BornOnce'
    BY <1>1 DEF BornInv, BornOnce
  <2>2. \A r \in Request : BornOf(r)'
    BY <1>1 DEF BornInv, BornOf, HandlerStep
  <2> QED
    BY <1>1, <2>1, <2>2 DEF BornInv, HandlerStep
<1>2. CASE born' # born
  <2>1. PICK kind \in {"templates", "invocations", "audits"} :
          /\ born' = Append(born, <<kind, q>>)
          /\ kind # "audits" => pc[q] = "new"
          /\ kind = "audits" => pc[q] \in {"new", "built", "planned"} /\ pc'[q] \notin {"new", "built", "planned"}
    BY <1>2 DEF Bears
  <2>2. <<kind, q>> \in Births
    BY DEF Births
  <2>3. /\ Append(born, <<kind, q>>) \in Seq(Births)
        /\ Len(Append(born, <<kind, q>>)) = n + 1
        /\ DOMAIN Append(born, <<kind, q>>) = 1 .. n + 1
        /\ \A i \in 1 .. n : Append(born, <<kind, q>>)[i] = born[i]
        /\ Append(born, <<kind, q>>)[n + 1] = <<kind, q>>
    BY <1>0, <2>2
  <2>4. /\ born' \in Seq(Births) /\ DOMAIN born' = 1 .. n + 1
        /\ \A i \in 1 .. n : born'[i] = born[i]
        /\ born'[n + 1] = <<kind, q>>
    BY <2>1, <2>3
  <2>5. \A i \in 1 .. n : born[i] # <<kind, q>>
    <3> HIDE DEF n
    <3>1. ASSUME NEW i \in 1 .. n, born[i] = <<kind, q>> PROVE FALSE
      <4>1. /\ born[i] \in {<<"templates", q>>, <<"invocations", q>>} => pc[q] # "new"
            /\ born[i] = <<"audits", q>> => pc[q] \notin {"new", "built", "planned"}
        BY <1>0 DEF BornInv, BornOf
      <4> QED
        BY <2>1, <3>1, <4>1
    <3> QED
      BY <3>1
  <2>6. BornOnce'
    <3>1. ASSUME NEW i \in 1 .. n + 1, NEW j \in 1 .. n + 1, born'[i] = born'[j]
          PROVE  i = j
      <4>1. CASE i \in 1 .. n /\ j \in 1 .. n
        BY <1>0, <2>4, <3>1, <4>1 DEF BornInv, BornOnce
      <4>2. CASE i = n + 1 /\ j \in 1 .. n
        BY <2>4, <2>5, <3>1, <4>2
      <4>3. CASE i \in 1 .. n /\ j = n + 1
        BY <2>4, <2>5, <3>1, <4>3
      <4> QED
        BY <1>0, <4>1, <4>2, <4>3
    <3> QED
      BY <2>4, <3>1 DEF BornOnce
  <2>7. ASSUME NEW r \in Request PROVE BornOf(r)'
    <3>1. ASSUME NEW i \in 1 .. n + 1
          PROVE  /\ born'[i] \in {<<"templates", r>>, <<"invocations", r>>} => pc'[r] # "new"
                 /\ born'[i] = <<"audits", r>> => pc'[r] \notin {"new", "built", "planned"}
      <4>1. CASE i \in 1 .. n
        <5>1. /\ born[i] \in {<<"templates", r>>, <<"invocations", r>>} => pc[r] # "new"
              /\ born[i] = <<"audits", r>> => pc[r] \notin {"new", "built", "planned"}
          BY <1>0, <4>1 DEF BornInv, BornOf
        <5>2. born'[i] = born[i]
          BY <2>4, <4>1
        <5> QED
          BY <5>1, <5>2 DEF HandlerStep
      <4>2. CASE i = n + 1
        <5>1. born'[i] = <<kind, q>>
          BY <2>4, <4>2
        <5> QED
          BY <2>1, <5>1 DEF HandlerStep
      <4> QED
        BY <1>0, <4>1, <4>2
    <3> QED
      BY <2>4, <3>1 DEF BornOf
  <2> QED
    BY <2>1, <2>2, <2>6, <2>7 DEF BornInv, HandlerStep
<1> QED
  BY <1>1, <1>2

LEMMA HandlersBear ==
  ASSUME BornInv, NEW q \in Request,
         \/ Refuse(q) \/ Build(q) \/ Insert(q) \/ Update(q)
         \/ Prepare(q) \/ Record(q) \/ AuditStart(q) \/ Begin(q)
         \/ AnswerExec(q) \/ FinishAudit(q) \/ \E left \in BOOLEAN : Complete(q, left)
  PROVE  HandlerStep(q) /\ Bears(q)
<1>0. DOMAIN pc = Request
  BY DEF BornInv
<1>a. ASSUME NEW from, NEW code, Answers(q, from, code)
      PROVE  HandlerStep(q) /\ pc[q] = from /\ pc'[q] = "answered"
  BY <1>0, <1>a DEF Answers, HandlerStep
<1>g. ASSUME NEW from, NEW to, Goes(q, from, to), to # "new", to \in {"built", "planned"} => from = "new"
      PROVE  HandlerStep(q) /\ pc[q] = from /\ pc'[q] = to
  BY <1>0, <1>g DEF Goes, HandlerStep
<1>1. CASE Refuse(q)
  BY <1>1, <1>a DEF Refuse, Bears
<1>2. CASE Build(q)
  <2>1. CASE Buildable(ask[q])
    <3>1. Goes(q, "new", "built") /\ born' = Append(born, <<"templates", q>>)
      BY <1>2, <2>1 DEF Build
    <3> QED
      BY <1>g, <3>1 DEF Bears
  <2>2. CASE ~Buildable(ask[q])
    BY <1>2, <1>a, <2>2 DEF Build, Bears
  <2> QED
    BY <2>1, <2>2
<1>3. CASE Insert(q)
  <2>1. /\ \E code : Answers(q, "built", code)
        /\ born' = born \/ born' = Append(born, <<"audits", q>>)
    BY <1>3 DEF Insert
  <2> QED
    BY <1>a, <2>1 DEF Bears
<1>4. CASE Update(q)
  <2>1. /\ \E code : Answers(q, "new", code)
        /\ born' = born \/ born' = Append(born, <<"audits", q>>)
    BY <1>4 DEF Update
  <2> QED
    BY <1>a, <2>1 DEF Bears
<1>5. CASE Prepare(q)
  <2>1. CASE Refusal(q) # 200
    BY <1>5, <1>a, <2>1 DEF Prepare, Bears
  <2>2. CASE Refusal(q) = 200
    <3>1. /\ \E to \in {"running", "planned"} : Goes(q, "new", to)
          /\ born' = born \/ born' = Append(born, <<"invocations", q>>)
      BY <1>5, <2>2 DEF Prepare
    <3> QED
      BY <1>g, <3>1 DEF Bears
  <2> QED
    BY <2>1, <2>2
<1>6. CASE Record(q)
  <2>1. Goes(q, "planned", "recorded") /\ born' = Append(born, <<"audits", q>>)
    BY <1>6 DEF Record
  <2> QED
    BY <1>g, <2>1 DEF Bears
<1>7. CASE AuditStart(q)
  BY <1>0, <1>7 DEF AuditStart, HandlerStep, Bears
<1>8. CASE Begin(q)
  BY <1>8, <1>g DEF Begin, Bears
<1>9. CASE AnswerExec(q)
  BY <1>9, <1>a DEF AnswerExec, Bears
<1>10. CASE FinishAudit(q)
  <2>1. (\E code : Answers(q, "completed", code)) /\ born' = born
    BY <1>10 DEF FinishAudit
  <2> QED
    BY <1>a, <2>1 DEF Bears
<1>11. ASSUME NEW left \in BOOLEAN, Complete(q, left)
       PROVE  HandlerStep(q) /\ Bears(q)
  BY <1>11, <1>g DEF Complete, Bears
<1> QED
  BY <1>1, <1>2, <1>3, <1>4, <1>5, <1>6, <1>7, <1>8, <1>9, <1>10, <1>11

LEMMA NextBornInv ==
  ASSUME BornInv, [Next]_vars
  PROVE  BornInv' /\ (born' = born \/ \E e \in Births : born' = Append(born, e))
<1>1. ASSUME NEW q \in Request,
             \/ Refuse(q) \/ Build(q) \/ Insert(q) \/ Update(q)
             \/ Prepare(q) \/ Record(q) \/ AuditStart(q) \/ Begin(q)
             \/ AnswerExec(q) \/ FinishAudit(q) \/ \E left \in BOOLEAN : Complete(q, left)
      PROVE  BornInv' /\ (born' = born \/ \E e \in Births : born' = Append(born, e))
  BY <1>1, HandlersBear, BornKeeps
<1>s. ASSUME UNCHANGED <<born, pc>> PROVE BornInv' /\ born' = born
  BY <1>s DEF BornInv, BornOnce, BornOf
<1>2. ASSUME NEW q \in Request, NEW n \in Node, NodeStep(q, n) PROVE BornInv' /\ born' = born
  <2>1. UNCHANGED <<born, pc>>
    BY <1>2 DEF NodeStep, CheckNode, SendCall, CallReturns, OthersOfWork
  <2> QED
    BY <1>s, <2>1
<1>3. CASE ElseStep \/ UNCHANGED vars
  <2>1. UNCHANGED <<born, pc>>
    BY <1>3 DEF ElseStep, ReadPage, NodeChanges, vars
  <2> QED
    BY <1>s, <2>1
<1> QED
  BY <1>1, <1>2, <1>3 DEF Next, NodeStep, ElseStep
-----------------------------------------------------------------------------
(* What a client has read of a list is in the order of the list, and goes  *)
(* as far as the cursor: what has belonged to the list all the time is     *)
(* read or comes after it.                                                 *)
WalkLists == {s.walks[w] : s \in Scenarios, w \in Walk}
WalkType ==
  [at : {"none", "reading", "over", "refused"}, list : WalkLists, cursor : Thing \cup {None},
   got : Seq(Thing), lost : BOOLEAN]
InOrder(r) ==
  /\ \A i \in DOMAIN r.got : Placed(r.list.kind, r.got[i])
  /\ \A i, j \in DOMAIN r.got : i < j => Precedes(r.list.kind, r.got[i], r.got[j])
UpToCursor(r) ==
  r.at = "reading" => r.cursor = IF r.got = <<>> THEN None ELSE r.got[Len(r.got)]
NoneMissed(r, held) ==
  r.at = "reading" /\ r.got # <<>> =>
    \A x \in held : /\ Belongs(r.list.kind, r.list.filter, x)
                    /\ x \in ToSet(r.got) \/ Precedes(r.list.kind, r.cursor, x)
ListsAll(r, held) == r.at = "over" /\ ~r.lost => held \subseteq ToSet(r.got)
ReadWell(r, held) ==
  /\ r \in WalkType
  /\ r.at # "none" => r.list # None
  /\ InOrder(r) /\ UpToCursor(r) /\ NoneMissed(r, held) /\ ListsAll(r, held)
WalkInv ==
  /\ DOMAIN walk = Walk /\ DOMAIN steady = Walk
  /\ \A w \in Walk : ReadWell(walk[w], steady[w])

LEMMA InitWalkInv == Init => WalkInv
<1> SUFFICES ASSUME Init PROVE WalkInv
  OBVIOUS
<1>1. PICK s \in Scenarios :
        walk = [w \in Walk |-> [at |-> IF s.walks[w] = None THEN "none" ELSE "reading",
                                list |-> s.walks[w], cursor |-> None, got |-> <<>>, lost |-> FALSE]]
  BY DEF Init
<1>2. ASSUME NEW w \in Walk PROVE ReadWell(walk[w], steady[w])
  <2>1. walk[w] = [at |-> IF s.walks[w] = None THEN "none" ELSE "reading",
                   list |-> s.walks[w], cursor |-> None, got |-> <<>>, lost |-> FALSE]
    BY <1>1
  <2>2. /\ walk[w].at = (IF s.walks[w] = None THEN "none" ELSE "reading")
        /\ walk[w].list = s.walks[w] /\ walk[w].cursor = None /\ walk[w].got = <<>>
    BY <2>1
  <2>3. walk[w] \in WalkType
    BY <2>1 DEF WalkType, WalkLists
  <2> QED
    BY <2>2, <2>3 DEF ReadWell, InOrder, UpToCursor, NoneMissed, ListsAll
<1>3. DOMAIN walk = Walk /\ DOMAIN steady = Walk
  BY <1>1 DEF Init
<1> QED
  BY <1>2, <1>3 DEF WalkInv

(* A page is added to what has been read. *)
NextPage(r) ==
  LET page == Page(Listed(r.list.kind, r.list.filter), r.cursor, Limit(r.list.limit))
  IN  [r EXCEPT !.got = @ \o page.items, !.cursor = page.next,
         !.at = IF page.next = None THEN "over" ELSE "reading",
         !.lost = @ \/ (r.cursor # None /\ ~Belongs(r.list.kind, r.list.filter, r.cursor))]

LEMMA NextPageKeeps ==
  ASSUME BornOnce, NEW r, NEW held, r.at = "reading", ReadWell(r, held) \/ r.got = <<>>,
         r \in WalkType, r.list # None, InOrder(r), UpToCursor(r),
         r.got = <<>> => held = ToSet(Listed(r.list.kind, r.list.filter))
  PROVE  ReadWell(NextPage(r), held)
<1> DEFINE kind == r.list.kind
           filter == r.list.filter
           L == Listed(kind, filter)
           limit == Limit(r.list.limit)
           page == Page(L, r.cursor, limit)
           s == NextPage(r)
           got == r.got
           n == Len(got)
           last == Len(L)
<1>1. /\ None \notin Thing /\ r.cursor \in Thing \cup {None} /\ got \in Seq(Thing)
      /\ r.list \in WalkLists /\ r.lost \in BOOLEAN
  <2>1. None \notin Thing
    BY AdminAssumption DEF Thing
  <2>2. r.cursor \in Thing \cup {None} /\ r.got \in Seq(Thing) /\ r.list \in WalkLists /\ r.lost \in BOOLEAN
    BY DEF WalkType
  <2> QED
    BY <2>1, <2>2
<1>2. limit \in Nat \ {0}
  <2>1. r.list.limit \in Int \cup {None}
    <3>1. PICK t \in Scenarios, w \in Walk : r.list = t.walks[w]
      BY <1>1 DEF WalkLists
    <3> QED
      BY <3>1, ScenarioAssumption
  <2> QED
    BY <2>1, LimitIsPositive
<1>3. /\ L \in Seq(Thing)
      /\ \A x : x \in ToSet(L) <=> Placed(kind, x) /\ Belongs(kind, filter, x)
      /\ \A i, j \in DOMAIN L : i < j => Precedes(kind, L[i], L[j])
  BY ListedFacts
<1> HIDE DEF L, limit
<1>4. PICK start \in 0 .. last, end \in 0 .. last :
        /\ start <= end
        /\ page.items \in Seq(Thing)
        /\ Len(page.items) = end - start
        /\ \A i \in 1 .. end - start : page.items[i] = L[start + i]
        /\ page.next = IF end < last THEN L[end] ELSE None
        /\ end < last => start < end
        /\ r.cursor = None => start = 0
        /\ r.cursor \in ToSet(L) => start \in DOMAIN L /\ L[start] = r.cursor
        /\ r.cursor \notin ToSet(L) /\ r.cursor # None => start = last
  <2>1. PageOf(Page(L, r.cursor, limit), L, r.cursor)
    BY <1>1, <1>2, <1>3, PageFacts
  <2> QED
    BY <2>1 DEF PageOf
<1>5. /\ last \in Nat /\ DOMAIN L = 1 .. last /\ n \in Nat /\ DOMAIN got = 1 .. n
      /\ start \in Nat /\ end \in Nat /\ end <= last /\ start <= end /\ end - start \in Nat
  BY <1>1, <1>3, <1>4
<1>6. /\ s.got = got \o page.items /\ s.cursor = page.next /\ s.list = r.list
      /\ s.at = (IF page.next = None THEN "over" ELSE "reading")
      /\ s.lost = (r.lost \/ (r.cursor # None /\ ~Belongs(kind, filter, r.cursor)))
      /\ s = [at |-> s.at, list |-> s.list, cursor |-> s.cursor, got |-> s.got, lost |-> s.lost]
  <2>1. s = [r EXCEPT !.got = @ \o page.items, !.cursor = page.next,
               !.at = IF page.next = None THEN "over" ELSE "reading",
               !.lost = @ \/ (r.cursor # None /\ ~Belongs(kind, filter, r.cursor))]
    BY DEF NextPage, L, limit
  <2>2. r = [at |-> r.at, list |-> r.list, cursor |-> r.cursor, got |-> r.got, lost |-> r.lost]
    BY DEF WalkType
  <2>3. s = [at |-> IF page.next = None THEN "over" ELSE "reading", list |-> r.list,
             cursor |-> page.next, got |-> r.got \o page.items,
             lost |-> r.lost \/ (r.cursor # None /\ ~Belongs(kind, filter, r.cursor))]
    <3> HIDE DEF s, page
    <3> QED
      BY <2>1, <2>2
  <2> HIDE DEF s, page
  <2> QED
    BY <2>3
<1> HIDE DEF page, s
<1>7. /\ s.got \in Seq(Thing) /\ Len(s.got) = n + (end - start) /\ DOMAIN s.got = 1 .. n + (end - start)
      /\ \A i \in 1 .. n : s.got[i] = got[i]
      /\ \A i \in 1 .. end - start : s.got[n + i] = L[start + i]
  <2>1. /\ s.got \in Seq(Thing) /\ Len(s.got) = n + (end - start)
        /\ \A i \in 1 .. n + (end - start) : s.got[i] = IF i <= n THEN got[i] ELSE page.items[i - n]
    <3>1. got \in Seq(Thing) /\ page.items \in Seq(Thing)
      BY <1>1, <1>4
    <3> HIDE DEF got
    <3>2. /\ got \o page.items \in Seq(Thing)
          /\ Len(got \o page.items) = Len(got) + Len(page.items)
          /\ \A i \in 1 .. Len(got) + Len(page.items) :
               (got \o page.items)[i] = IF i <= Len(got) THEN got[i] ELSE page.items[i - Len(got)]
      BY <3>1, ConcatProperties
    <3> QED
      BY <1>4, <1>6, <3>2 DEF got
  <2>2. \A i \in 1 .. n : i \in 1 .. n + (end - start) /\ i <= n
    BY <1>5
  <2>3. \A i \in 1 .. end - start : n + i \in 1 .. n + (end - start) /\ ~(n + i <= n) /\ (n + i) - n = i
    BY <1>5
  <2>4. DOMAIN s.got = 1 .. n + (end - start)
    BY <2>1
  <2> HIDE DEF n, got
  <2>5. ASSUME NEW i \in 1 .. n PROVE s.got[i] = got[i]
    BY <2>1, <2>2
  <2>6. ASSUME NEW i \in 1 .. end - start PROVE s.got[n + i] = L[start + i]
    <3>1. n + i \in 1 .. n + (end - start) /\ ~(n + i <= n) /\ (n + i) - n = i
      BY <2>3
    <3>2. s.got[n + i] = page.items[(n + i) - n]
      BY <2>1, <3>1
    <3> QED
      BY <1>4, <3>1, <3>2
  <2> QED
    BY <2>1, <2>4, <2>5, <2>6
<1> HIDE DEF n, got, last
<1>8. \A i \in 1 .. end - start : start + i \in 1 .. last
  BY <1>5
<1>9. /\ \A i \in 1 .. last : L[i] \in Thing /\ L[i] \in ToSet(L)
      /\ \A x \in ToSet(L) : \E i \in 1 .. last : L[i] = x
  BY <1>3, <1>5 DEF ToSet
<1>10. page.next = None <=> end = last
  BY <1>1, <1>4, <1>5, <1>9
<1>11. got # <<>> => n \in 1 .. n /\ r.cursor = got[n] /\ r.cursor # None
  <2>1. got # <<>> => n >= 1
    BY <1>1 DEF n
  <2>2. got # <<>> => r.cursor = got[n]
    BY DEF UpToCursor, got, n
  <2>3. \A i \in 1 .. n : got[i] \in Thing
    BY <1>1 DEF n
  <2> QED
    BY <1>1, <1>5, <2>1, <2>2, <2>3
<1>12. s \in WalkType
  <2>1. s.cursor \in Thing \cup {None}
    BY <1>4, <1>5, <1>6, <1>9
  <2> QED
    BY <1>1, <1>6, <1>7, <2>1 DEF WalkType
<1>13. \A i, j \in 1 .. last : i < j => Precedes(kind, L[i], L[j])
  BY <1>3, <1>5
<1>14. /\ \A x, y : Precedes(kind, x, y) => Placed(kind, x) /\ Placed(kind, y) /\ ~Precedes(kind, y, x)
       /\ \A x : ~Precedes(kind, x, x)
       /\ \A x, y, z : Precedes(kind, x, y) /\ Precedes(kind, y, z) => Precedes(kind, x, z)
  BY OrderIsStrict
<1>15. /\ \A i \in 1 .. n : Placed(kind, got[i])
       /\ \A i, j \in 1 .. n : i < j => Precedes(kind, got[i], got[j])
  BY <1>5 DEF InOrder, got
<1> HIDE DEF kind, filter
<1>16. ASSUME NEW i \in 1 .. n, NEW m \in 1 .. end - start
       PROVE  Precedes(kind, got[i], L[start + m])
  <2>1. got # <<>> /\ n >= 1 /\ i <= n
    <3>1. got = <<>> => n = 0
      BY DEF n
    <3> QED
      BY <1>5, <3>1
  <2>2. start # last
    BY <1>5
  <2>3. start \in 1 .. last /\ L[start] = r.cursor
    BY <1>4, <1>5, <1>11, <2>1, <2>2
  <2>4. Precedes(kind, r.cursor, L[start + m])
    <3>1. start < start + m
      BY <1>5
    <3> QED
      BY <1>8, <1>13, <2>3, <3>1
  <2>5. CASE i = n
    BY <1>11, <2>1, <2>4, <2>5
  <2>6. CASE i < n
    <3>1. Precedes(kind, got[i], got[n])
      BY <1>11, <1>15, <2>1, <2>6
    <3> QED
      BY <1>11, <1>14, <2>1, <2>4, <3>1
  <2> QED
    BY <1>5, <2>1, <2>5, <2>6
<1>17. \A i \in DOMAIN s.got : i \in 1 .. n \/ \E m \in 1 .. end - start : i = n + m
  <2>1. ASSUME NEW i \in 1 .. n + (end - start), i \notin 1 .. n
        PROVE  i - n \in 1 .. end - start /\ i = n + (i - n)
    BY <1>5, <2>1
  <2> QED
    BY <1>7, <2>1
<1>18. InOrder(s)
  <2>1. ASSUME NEW i \in DOMAIN s.got PROVE Placed(kind, s.got[i])
    <3>1. CASE i \in 1 .. n
      BY <1>7, <1>15, <3>1
    <3>2. ASSUME NEW m \in 1 .. end - start, i = n + m PROVE Placed(kind, s.got[i])
      BY <1>3, <1>7, <1>8, <1>9, <3>2
    <3> QED
      BY <1>17, <3>1, <3>2
  <2>2. ASSUME NEW i \in DOMAIN s.got, NEW j \in DOMAIN s.got, i < j
        PROVE  Precedes(kind, s.got[i], s.got[j])
    <3>1. CASE j \in 1 .. n
      <4>1. i \in 1 .. n
        BY <1>5, <1>7, <2>2, <3>1
      <4> QED
        BY <1>7, <1>15, <2>2, <3>1, <4>1
    <3>2. ASSUME NEW m \in 1 .. end - start, j = n + m PROVE Precedes(kind, s.got[i], s.got[j])
      <4>1. s.got[j] = L[start + m]
        BY <1>7, <3>2
      <4>2. CASE i \in 1 .. n
        <5>1. s.got[i] = got[i]
          BY <1>7, <4>2
        <5> QED
          BY <1>16, <4>1, <4>2, <5>1
      <4>3. ASSUME NEW k \in 1 .. end - start, i = n + k PROVE Precedes(kind, s.got[i], s.got[j])
        <5>1. s.got[i] = L[start + k]
          BY <1>7, <4>3
        <5>2. start + k < start + m
          BY <1>5, <2>2, <3>2, <4>3
        <5> QED
          BY <1>8, <1>13, <4>1, <5>1, <5>2
      <4> QED
        BY <1>17, <4>2, <4>3
    <3> QED
      BY <1>17, <3>1, <3>2
  <2> QED
    BY <1>6, <2>1, <2>2 DEF InOrder, kind
<1>19. ASSUME end < last
       PROVE  s.got # <<>> /\ s.got[Len(s.got)] = L[end] /\ s.cursor = L[end] /\ end \in 1 .. last
  <2>1. end - start \in 1 .. end - start /\ start + (end - start) = end
    BY <1>4, <1>5, <1>19
  <2>2. s.got[n + (end - start)] = L[end]
    BY <1>7, <2>1
  <2>3. Len(s.got) # 0
    BY <1>5, <1>7, <2>1
  <2>4. s.got # <<>>
    BY <2>3
  <2>5. end \in 1 .. last
    BY <1>4, <1>5, <1>19
  <2> QED
    BY <1>4, <1>6, <1>7, <1>19, <2>2, <2>4, <2>5
<1>20. UpToCursor(s)
  BY <1>5, <1>6, <1>10, <1>19, <1>4 DEF UpToCursor
<1>21. ASSUME got = <<>> \/ r.cursor \in ToSet(L), NEW x \in held
       PROVE  /\ Belongs(kind, filter, x)
              /\ x \in ToSet(s.got) \/ \E m \in 1 .. last : end < m /\ L[m] = x
  <2>1. ASSUME NEW m \in 1 .. last, L[m] = x, start < m
        PROVE  x \in ToSet(s.got) \/ \E k \in 1 .. last : end < k /\ L[k] = x
    <3>1. CASE m <= end
      <4>1. m - start \in 1 .. end - start /\ start + (m - start) = m
        BY <1>5, <2>1, <3>1
      <4>2. s.got[n + (m - start)] = x /\ n + (m - start) \in DOMAIN s.got
        <5>1. s.got[n + (m - start)] = L[start + (m - start)]
          BY <1>7, <4>1
        <5>2. n + (m - start) \in 1 .. n + (end - start)
          BY <1>5, <4>1
        <5> QED
          BY <1>7, <2>1, <4>1, <5>1, <5>2
      <4> QED
        BY <4>2 DEF ToSet
    <3>2. CASE end < m
      BY <2>1, <3>2
    <3> QED
      BY <1>5, <3>1, <3>2
  <2>2. CASE got = <<>>
    <3>1. x \in ToSet(L)
      BY <2>2 DEF got, L, kind, filter
    <3>2. Belongs(kind, filter, x)
      BY <1>3, <3>1
    <3>3. PICK m \in 1 .. last : L[m] = x
      BY <1>9, <3>1
    <3>4. start = 0
      BY <1>4, <2>2 DEF UpToCursor, got
    <3> QED
      BY <2>1, <3>2, <3>3, <3>4
  <2>3. CASE got # <<>>
    <3>1. NoneMissed(r, held)
      BY <2>3 DEF ReadWell, got
    <3>2. Belongs(kind, filter, x) /\ (x \in ToSet(got) \/ Precedes(kind, r.cursor, x))
      BY <2>3, <3>1 DEF NoneMissed, got, kind, filter
    <3>3. CASE x \in ToSet(got)
      <4>1. PICK i \in 1 .. n : got[i] = x
        BY <1>5, <3>3 DEF ToSet
      <4>2. s.got[i] = x /\ i \in DOMAIN s.got
        BY <1>5, <1>7, <4>1
      <4> QED
        BY <3>2, <4>2 DEF ToSet
    <3>4. CASE Precedes(kind, r.cursor, x)
      <4>1. start \in 1 .. last /\ L[start] = r.cursor
        BY <1>4, <1>5, <1>21, <2>3
      <4>2. PICK m \in 1 .. last : L[m] = x
        <5>1. x \in ToSet(L)
          BY <1>3, <1>14, <3>2, <3>4
        <5> QED
          BY <1>9, <5>1
      <4>3. start < m
        <5>1. m # start
          BY <1>14, <3>4, <4>1, <4>2
        <5>2. ~(m < start)
          BY <1>13, <1>14, <3>4, <4>1, <4>2
        <5> QED
          BY <1>5, <5>1, <5>2
      <4> QED
        BY <2>1, <3>2, <4>2, <4>3
    <3> QED
      BY <3>2, <3>3, <3>4
  <2> QED
    BY <2>2, <2>3
<1>22. NoneMissed(s, held)
  <2> SUFFICES ASSUME s.at = "reading", NEW x \in held
               PROVE  Belongs(kind, filter, x) /\ (x \in ToSet(s.got) \/ Precedes(kind, s.cursor, x))
    BY <1>6 DEF NoneMissed, kind, filter
  <2>1. end < last
    BY <1>5, <1>6, <1>10
  <2>2. got = <<>> \/ r.cursor \in ToSet(L)
    BY <1>4, <1>5, <1>11, <2>1
  <2>3. /\ Belongs(kind, filter, x)
        /\ x \in ToSet(s.got) \/ \E m \in 1 .. last : end < m /\ L[m] = x
    BY <1>21, <2>2
  <2>4. ASSUME NEW m \in 1 .. last, end < m, L[m] = x PROVE Precedes(kind, s.cursor, x)
    BY <1>13, <1>19, <2>1, <2>4
  <2> QED
    BY <2>3, <2>4
<1>23. ListsAll(s, held)
  <2> SUFFICES ASSUME s.at = "over", ~s.lost, NEW x \in held
               PROVE  x \in ToSet(s.got)
    BY DEF ListsAll
  <2>1. end = last
    BY <1>6, <1>10
  <2>2. got = <<>> \/ r.cursor \in ToSet(L)
    <3> SUFFICES ASSUME got # <<>> PROVE r.cursor \in ToSet(L)
      OBVIOUS
    <3>1. r.cursor # None /\ Belongs(kind, filter, r.cursor)
      BY <1>6, <1>11
    <3>2. Placed(kind, r.cursor)
      BY <1>11, <1>15
    <3> QED
      BY <1>3, <3>1, <3>2
  <2>3. x \in ToSet(s.got) \/ \E m \in 1 .. last : end < m /\ L[m] = x
    BY <1>21, <2>2
  <2> QED
    BY <1>5, <2>1, <2>3
<1> QED
  BY <1>6, <1>12, <1>18, <1>20, <1>22, <1>23 DEF ReadWell, s
(* What has been read stays read well while the lists change, as long as   *)
(* what leaves a list is not expected of it any more.                      *)
Grows == born' = born \/ \E e \in Births : born' = Append(born, e)
LEMMA ReadStaysWell ==
  ASSUME BornOnce, Grows, NEW w \in Walk, ReadWell(walk[w], steady[w]),
         walk'[w] = walk[w], steady'[w] \subseteq steady[w],
         walk[w].at = "reading" /\ walk[w].got # <<>> =>
           \A x \in steady'[w] : Belongs(walk[w].list.kind, walk[w].list.filter, x)'
  PROVE  ReadWell(walk[w], steady[w])'
<1> DEFINE r == walk[w]
<1>1. \A kind : /\ \A x : Placed(kind, x) => Placed(kind, x)'
                /\ \A x, y : Precedes(kind, x, y) => Precedes(kind, x, y)'
  BY OrderGrows DEF Grows
<1>2. InOrder(walk[w])'
  BY <1>1 DEF ReadWell, InOrder
<1>3. UpToCursor(walk[w])'
  BY DEF ReadWell, UpToCursor
<1>4. NoneMissed(walk[w], steady[w])'
  <2> SUFFICES ASSUME walk[w].at = "reading", walk[w].got # <<>>, NEW x \in steady'[w]
               PROVE  /\ Belongs(walk[w].list.kind, walk[w].list.filter, x)'
                      /\ x \in ToSet(walk[w].got) \/ Precedes(walk[w].list.kind, walk[w].cursor, x)'
    BY DEF NoneMissed
  <2>1. Belongs(walk[w].list.kind, walk[w].list.filter, x)'
    OBVIOUS
  <2>2. x \in ToSet(walk[w].got) \/ Precedes(walk[w].list.kind, walk[w].cursor, x)
    BY DEF ReadWell, NoneMissed
  <2>3. Precedes(walk[w].list.kind, walk[w].cursor, x) => Precedes(walk[w].list.kind, walk[w].cursor, x)'
    <3>1. ASSUME NEW kind, NEW y, kind = walk[w].list.kind, y = walk[w].cursor, Precedes(kind, y, x)
          PROVE  Precedes(walk[w].list.kind, walk[w].cursor, x)'
      <4>1. Precedes(kind, y, x)'
        BY <1>1, <3>1
      <4>2. kind = walk'[w].list.kind /\ y = walk'[w].cursor
        BY <3>1
      <4> QED
        BY <4>1, <4>2
    <3> QED
      BY <3>1
  <2> QED
    BY <2>1, <2>2, <2>3
<1>5. ListsAll(walk[w], steady[w])'
  BY DEF ReadWell, ListsAll
<1>6. (walk[w] \in WalkType /\ (walk[w].at # "none" => walk[w].list # None))'
  BY DEF ReadWell, WalkType
<1> QED
  BY <1>2, <1>3, <1>4, <1>5, <1>6 DEF ReadWell

(* Steps that leave the lists alone, and steps that are watched. *)
LEMMA ListsStay ==
  ASSUME WalkInv, BornOnce, Grows, UNCHANGED <<walkVars, templates, status, audits, nodes>>
  PROVE  WalkInv'
<1>1. walk' = walk /\ steady' = steady
  BY DEF walkVars
<1>2. \A kind, filter, x : Belongs(kind, filter, x)' <=> Belongs(kind, filter, x)
  BY DEF Belongs, ListsTemplate, ListsInvocation, ListsAudit, ListsNode
<1>3. ASSUME NEW w \in Walk PROVE ReadWell(walk[w], steady[w])'
  <2>1. ReadWell(walk[w], steady[w])
    BY DEF WalkInv
  <2>2. walk[w].at = "reading" /\ walk[w].got # <<>> =>
          \A x \in steady'[w] : Belongs(walk[w].list.kind, walk[w].list.filter, x)'
    <3>1. walk[w].at = "reading" /\ walk[w].got # <<>> =>
            \A x \in steady'[w] : Belongs(walk[w].list.kind, walk[w].list.filter, x)
      BY <1>1, <2>1 DEF ReadWell, NoneMissed
    <3> QED
      BY <1>1, <1>2, <3>1
  <2> QED
    BY <1>1, <2>1, <2>2, ReadStaysWell
<1> QED
  BY <1>1, <1>3 DEF WalkInv

LEMMA WatchedStays ==
  ASSUME WalkInv, BornOnce, Grows, Watched
  PROVE  WalkInv'
<1>1. /\ walk' = walk
      /\ steady' = [w \in Walk |->
           IF walk[w].at = "reading" /\ walk[w].got # <<>>
           THEN {x \in steady[w] : Belongs(walk[w].list.kind, walk[w].list.filter, x)'}
           ELSE steady[w]]
  BY DEF Watched
<1>2. ASSUME NEW w \in Walk PROVE ReadWell(walk[w], steady[w])'
  <2>1. ReadWell(walk[w], steady[w])
    BY DEF WalkInv
  <2>2. steady'[w] = IF walk[w].at = "reading" /\ walk[w].got # <<>>
                     THEN {x \in steady[w] : Belongs(walk[w].list.kind, walk[w].list.filter, x)'}
                     ELSE steady[w]
    BY <1>1
  <2>3. steady'[w] \subseteq steady[w]
    BY <2>2
  <2>4. walk[w].at = "reading" /\ walk[w].got # <<>> =>
          \A x \in steady'[w] : Belongs(walk[w].list.kind, walk[w].list.filter, x)'
    BY <2>2
  <2> QED
    BY <1>1, <2>1, <2>3, <2>4, ReadStaysWell
<1> QED
  BY <1>1, <1>2 DEF WalkInv

(* A page is read, or refused. *)
LEMMA PageIsRead ==
  ASSUME WalkInv, BornOnce, NEW v \in Walk, ReadPage(v)
  PROVE  WalkInv'
<1>1. /\ DOMAIN walk = Walk /\ DOMAIN steady = Walk /\ \A w \in Walk : ReadWell(walk[w], steady[w])
      /\ walk[v].at = "reading"
      /\ UNCHANGED <<born, templates, status, audits, nodes>>
  BY DEF WalkInv, ReadPage, storeVars, recordVars, nodeVars
<1>2. /\ \A kind, x : Placed(kind, x)' <=> Placed(kind, x)
      /\ \A kind, x, y : Precedes(kind, x, y)' <=> Precedes(kind, x, y)
      /\ \A kind, filter, x : Belongs(kind, filter, x)' <=> Belongs(kind, filter, x)
  <2>1. \A kind : Entries(kind)' = Entries(kind)
    BY <1>1 DEF Entries
  <2>2. \A kind, filter, x : Belongs(kind, filter, x)' <=> Belongs(kind, filter, x)
    BY <1>1 DEF Belongs, ListsTemplate, ListsInvocation, ListsAudit, ListsNode
  <2> QED
    BY <2>1, <2>2 DEF Placed, Precedes
<1>3. PICK r : r = walk[v]
  OBVIOUS
<1>4. PICK held : held = IF r.got = <<>> THEN ToSet(Listed(r.list.kind, r.list.filter)) ELSE steady[v]
  OBVIOUS
<1>5. PICK s : walk' = [walk EXCEPT ![v] = s] /\ s \in {NextPage(r), [r EXCEPT !.at = "refused"]}
  <2> DEFINE l == walk[v].list
             page == Page(Listed(l.kind, l.filter), walk[v].cursor, Limit(l.limit))
  <2>1. CASE Authenticate(l.token, ListDomains(l.kind)) # 200 \/ BadLimit(l)
    <3>1. walk' = [walk EXCEPT ![v].at = "refused"]
      BY <2>1 DEF ReadPage
    <3>2. walk' = [walk EXCEPT ![v] = [r EXCEPT !.at = "refused"]]
      BY <1>3, <3>1
    <3> QED
      BY <3>2
  <2>2. CASE ~(Authenticate(l.token, ListDomains(l.kind)) # 200 \/ BadLimit(l))
    <3>1. walk' = [walk EXCEPT
                ![v].got = @ \o page.items, ![v].cursor = page.next,
                ![v].at = IF page.next = None THEN "over" ELSE "reading",
                ![v].lost = @ \/ (walk[v].cursor # None
                                    /\ ~Belongs(l.kind, l.filter, walk[v].cursor))]
      BY <2>2 DEF ReadPage
    <3>2. walk' = [walk EXCEPT ![v] = NextPage(walk[v])]
      <4> HIDE DEF page
      <4> QED
        BY <3>1 DEF NextPage, page
    <3> QED
      BY <1>3, <3>2
  <2> QED
    BY <2>1, <2>2
<1>6. steady' = [steady EXCEPT ![v] = held]
  BY <1>3, <1>4 DEF ReadPage
<1>7. ReadWell(r, steady[v]) /\ r \in WalkType /\ r.list # None /\ InOrder(r) /\ UpToCursor(r) /\ r.at = "reading"
  BY <1>1, <1>3 DEF ReadWell
<1>8. ReadWell(s, held)
  <2>1. CASE s = NextPage(r)
    <3>1. ReadWell(r, held) \/ r.got = <<>>
      BY <1>4, <1>7
    <3>2. r.got = <<>> => held = ToSet(Listed(r.list.kind, r.list.filter))
      BY <1>4
    <3> QED
      BY <1>7, <2>1, <3>1, <3>2, NextPageKeeps
  <2>2. CASE s = [r EXCEPT !.at = "refused"]
    <3>1. s.got = r.got /\ s.list = r.list /\ s.at = "refused" /\ s \in WalkType
      BY <1>7, <2>2 DEF WalkType
    <3> QED
      BY <1>7, <3>1 DEF ReadWell, InOrder, UpToCursor, NoneMissed, ListsAll
  <2> QED
    BY <1>5, <2>1, <2>2
<1>9. \A t, set : ReadWell(t, set) => /\ InOrder(t)' /\ UpToCursor(t)' /\ NoneMissed(t, set)' /\ ListsAll(t, set)'
                                      /\ t \in WalkType /\ (t.at # "none" => t.list # None)
  BY <1>2 DEF ReadWell, InOrder, UpToCursor, NoneMissed, ListsAll
<1>10. ASSUME NEW w \in Walk PROVE ReadWell(walk[w], steady[w])'
  <2>1. PICK t, set : t = walk'[w] /\ set = steady'[w] /\ ReadWell(t, set)
    <3>1. CASE w = v
      BY <1>1, <1>5, <1>6, <1>8, <3>1
    <3>2. CASE w # v
      BY <1>1, <1>5, <1>6, <3>2
    <3> QED
      BY <3>1, <3>2
  <2> QED
    BY <1>9, <2>1 DEF ReadWell
<1> QED
  BY <1>1, <1>5, <1>6, <1>10 DEF WalkInv

LEMMA NextWalkInv == BornInv /\ WalkInv /\ [Next]_vars => BornInv' /\ WalkInv'
<1> SUFFICES ASSUME BornInv, WalkInv, [Next]_vars PROVE BornInv' /\ WalkInv'
  OBVIOUS
<1>0. BornOnce /\ BornInv' /\ Grows
  BY NextBornInv DEF BornInv, Grows
<1>1. ASSUME NEW q \in Request,
             Insert(q) \/ Update(q) \/ Record(q) \/ AuditStart(q) \/ Begin(q) \/ FinishAudit(q)
               \/ \E left \in BOOLEAN : Complete(q, left)
      PROVE  WalkInv'
  <2>1. Watched
    BY <1>1 DEF Insert, Update, Record, AuditStart, Begin, FinishAudit, Complete
  <2> QED
    BY <1>0, <2>1, WatchedStays
<1>2. ASSUME NEW q \in Request, Refuse(q) \/ Build(q) \/ Prepare(q) \/ AnswerExec(q)
      PROVE  WalkInv'
  <2>1. UNCHANGED <<walkVars, templates, status, audits, nodes>>
    BY <1>2 DEF Refuse, Build, Prepare, AnswerExec, storeVars, recordVars, nodeVars
  <2> QED
    BY <1>0, <2>1, ListsStay
<1>3. ASSUME NEW q \in Request, NEW n \in Node, NodeStep(q, n) PROVE WalkInv'
  <2>1. UNCHANGED <<walkVars, templates, status, audits, nodes>>
    BY <1>3 DEF NodeStep, CheckNode, SendCall, CallReturns, OthersOfWork, storeVars, recordVars, nodeVars
  <2> QED
    BY <1>0, <2>1, ListsStay
<1>4. ASSUME NEW n \in Node, NEW s, NodeChanges(n, s) PROVE WalkInv'
  BY <1>0, <1>4, WatchedStays DEF NodeChanges
<1>5. ASSUME NEW w \in Walk, ReadPage(w) PROVE WalkInv'
  BY <1>0, <1>5, PageIsRead
<1>6. CASE UNCHANGED vars
  <2>1. UNCHANGED <<walkVars, templates, status, audits, nodes>>
    BY <1>6 DEF vars, storeVars, recordVars, nodeVars
  <2> QED
    BY <1>0, <2>1, ListsStay
<1> QED
  BY <1>0, <1>1, <1>2, <1>3, <1>4, <1>5, <1>6 DEF Next, NodeStep

(* Reading page by page misses nothing that is there all the time, and     *)
(* gives nothing twice, for any lists, limits and steps between the pages. *)
THEOREM WalksListAll == Spec => []WalkListsAll
<1>1. BornInv /\ WalkInv => WalkListsAll
  <2> SUFFICES ASSUME BornInv, WalkInv, NEW w \in Walk
               PROVE  /\ \A i, j \in DOMAIN walk[w].got : walk[w].got[i] = walk[w].got[j] => i = j
                      /\ walk[w].at = "over" /\ ~walk[w].lost => steady[w] \subseteq ToSet(walk[w].got)
    BY DEF WalkListsAll
  <2>1. ReadWell(walk[w], steady[w]) /\ BornOnce
    BY DEF WalkInv, BornInv
  <2>2. walk[w].at = "over" /\ ~walk[w].lost => steady[w] \subseteq ToSet(walk[w].got)
    BY <2>1 DEF ReadWell, ListsAll
  <2>3. ASSUME NEW i \in DOMAIN walk[w].got, NEW j \in DOMAIN walk[w].got,
               walk[w].got[i] = walk[w].got[j]
        PROVE  i = j
    <3>1. i \in Int /\ j \in Int
      BY <2>1 DEF ReadWell, WalkType
    <3>2. ~(i < j) /\ ~(j < i)
      BY <2>1, <2>3, OrderIsStrict DEF ReadWell, InOrder
    <3> QED
      BY <3>1, <3>2
  <2> QED
    BY <2>2, <2>3
<1> QED
  BY <1>1, InitBornInv, InitWalkInv, NextWalkInv, PTL DEF Spec
=============================================================================
