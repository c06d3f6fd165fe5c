------------------------------ MODULE AdminApi ------------------------------
(***************************************************************************)
(* The HTTP API of sysplane-center and the part of the admin service below *)
(* it that keeps command templates: who may ask for what, templates that   *)
(* are created and updated while others use them, what the nodes are asked *)
(* to run, and the lists that are read page by page while all of that      *)
(* changes.                                                                *)
(*                                                                         *)
(* Each request is sent once.  The record of a template is named by the    *)
(* request that creates it, an invocation and an audit event by the        *)
(* request they are of.  Invocations has the inner steps of an invocation  *)
(* and its cancellation, CenterForward the way to nodes of other centers.  *)
(***************************************************************************)
EXTENDS Integers, Sequences, FiniteSets, FiniteSetsExt, SequencesExt

CONSTANTS
  Request,      \* ids of requests
  Walk,         \* clients that read a list page by page
  Scenarios,    \* bound: the requests and walks that may come, and node changes
  Tokens,       \* Tokens[d]: the tokens configured for domain d, a sequence
  Blank,        \* the empty token
  Name,         \* template names
  Dotted,       \* Dotted[n]: the name n with dots for colons
  Node,         \* node ids
  NodesById,    \* the nodes in the order of their ids
  NodeType,     \* NodeType[n]: "agent" or "proxy"
  NodeOS,       \* NodeOS[n]: the platform an agent names when it registers
  AnyOS,        \* no platform named
  Unparsable,   \* an argument that is no text template
  None,         \* a field left out; no template, answer or cursor
  DefaultOutput,  \* max_output_bytes of a template that names none
  DefaultTimeout, \* what normalizeTimeout falls back to
  DefaultLimit, \* page size of a list request that names none, or a bad one
  MaxLimit      \* largest page

ASSUME AdminAssumption ==
  /\ {DefaultOutput, DefaultTimeout, DefaultLimit, MaxLimit} \subseteq Nat \ {0}
  /\ Dotted \in [Name -> Name]
  /\ None \notin Request \cup Name \cup Node
  /\ Request \cap Name = {}
  /\ NodesById \in Seq(Node) /\ IsInjective(NodesById)

VARIABLES
  templates,  \* templates[q]: s.templates: the template that q created
  nameIDs,    \* nameIDs[n]: s.templateNameIDs
  status,     \* status[q]: s.invocations: the status of q's invocation
  audits,     \* audits[q]: s.audits: the decision in q's audit event
  born,       \* what has a CreatedAt, in the order of these times
  nodes,      \* nodes[n]: the registry: "gone", "online" or "offline"
  flips,      \* how often nodes may come, go or change their status yet
  ask,        \* ask[q]: the request
  pc,         \* pc[q]: how far its handler has come
  plan,       \* plan[q]: what it resolved
  work,       \* work[q]: how far its nodes have come
  sent,       \* sent[q]: what it has asked each node to run
  answer,     \* answer[q]: the HTTP status it got
  walk,       \* walk[w]: a list that is being read
  steady,     \* steady[w]: history: what has belonged to the list all the time
  versions,   \* history: the records a template has had
  spoiled     \* history: templates left by an update refused for its timeouts

storeVars   == <<templates, nameIDs, versions, spoiled>>
recordVars  == <<status, audits>>
requestVars == <<plan, work, sent>>
nodeVars    == <<nodes, flips>>
walkVars    == <<walk, steady>>
vars == <<storeVars, recordVars, requestVars, nodeVars, walkVars, born, ask, pc, answer>>

-----------------------------------------------------------------------------
(***************************************************************************)
(* Tokens.                                                                 *)
(***************************************************************************)
HttpDomains == {"client", "admin"}

(* NewCatalog accepts no blank token and none that occurs twice, in one    *)
(* domain or in two: the center does not start with others.                *)
CatalogAccepts ==
  /\ \A d \in DOMAIN Tokens : \A i \in DOMAIN Tokens[d] : Tokens[d][i] # Blank
  /\ \A d, e \in DOMAIN Tokens : \A i \in DOMAIN Tokens[d], j \in DOMAIN Tokens[e] :
       Tokens[d][i] = Tokens[e][j] => d = e /\ i = j
ASSUME CatalogAssumption == HttpDomains \subseteq DOMAIN Tokens /\ CatalogAccepts

DomainsOf(token) == {d \in HttpDomains : token \in ToSet(Tokens[d])}

(* AuthenticateHTTP and requireHTTP: the tokens of agents and proxies are  *)
(* none here.                                                              *)
Authenticate(token, allowed) ==
  IF DomainsOf(token) = {} THEN 401
  ELSE IF DomainsOf(token) \cap allowed = {} THEN 403 ELSE 200

-----------------------------------------------------------------------------
(***************************************************************************)
(* Templates: risk, schema, parameters, arguments, time and platform.      *)
(***************************************************************************)
Risks == {"readonly", "mutating", "dangerous"}
Types == {"string", "boolean", "integer", "number"}

(* Mutant: the domains are taken the wrong way round. *)
AllowNotDangerous(domain, risk) == domain = "admin" \/ risk # "dangerous"
AllowRisk(domain, risk) == domain = "admin" \/ risk = "readonly"

SchemaOK(schema) ==
  /\ schema # None /\ schema.type = "object"
  /\ \A p \in DOMAIN schema.props : schema.props[p] \in Types

(* A value is text, a flag, a whole number or a fraction. *)
Fits(value, type) ==
  \/ <<value, type>> \in {<<"text", "string">>, <<"flag", "boolean">>}
  \/ value = "whole" /\ type \in {"integer", "number"}
  \/ value = "fraction" /\ type = "number"

ParamsOK(schema, params) ==
  /\ SchemaOK(schema)
  /\ schema.required \subseteq DOMAIN params
  /\ \A p \in DOMAIN params :
       IF p \in DOMAIN schema.props THEN Fits(params[p], schema.props[p]) ELSE ~schema.closed

(* renderTemplateCommand: every parameter that an argument names is given. *)
Renders(args, params) == args \subseteq DOMAIN params /\ Unparsable \notin args

TimeoutsOK(t) == t.default > 0 /\ t.max > 0 /\ t.default <= t.max

(* normalizeTimeout *)
Timeout(requested, default, max) ==
  LET wanted == IF requested <= 0 THEN default ELSE requested
      capped == IF max > 0 /\ wanted > max THEN max ELSE wanted
  IN  IF capped <= 0 THEN DefaultTimeout ELSE capped

OSMatches(os, n) ==
  os = {} \/ nodes[n] = "gone" \/ NodeOS[n] = AnyOS \/ NodeOS[n] \in os

(* buildTemplate *)
Buildable(t) ==
  /\ t.name # None /\ t.risk \in Risks /\ t.process /\ t.absolute
  /\ SchemaOK(t.schema) /\ TimeoutsOK(t)
Unbuilt(t) == IF Buildable([t EXCEPT !.default = 1, !.max = 1]) THEN 422 ELSE 400
Built(t) ==
  [name |-> t.name, risk |-> t.risk, os |-> t.os, args |-> t.args, schema |-> t.schema,
   default |-> t.default, max |-> t.max, enabled |-> TRUE,
   output |-> IF t.output <= 0 THEN DefaultOutput ELSE t.output]

(* What is asked for, and the templates that come of it. *)
Asks       == {s.ask[q] : s \in Scenarios, q \in Request} \ {None}
AsksOf(op) == {a \in Asks : a.op = op}
Template ==
  LET asks == AsksOf("create") \cup AsksOf("update")
  IN  [name : Name, risk : Risks, os : {a.os : a \in asks}, args : {a.args : a \in AsksOf("create")},
       schema : {a.schema : a \in asks}, default : Int, max : Int, enabled : BOOLEAN, output : Int]

ASSUME ScenarioAssumption ==
  /\ None \notin Template
  /\ \A s \in Scenarios : s.ask \in [Request -> Asks \cup {None}]
  /\ \A a \in AsksOf("create") :
       a.name \in Name \cup {None} /\ {a.default, a.max, a.output} \subseteq Int
  /\ \A a \in AsksOf("update") :
       /\ a.template \in Request /\ a.enabled \in BOOLEAN \cup {None}
       /\ {a.default, a.max, a.output} \subseteq Int \cup {None}
  /\ \A a \in AsksOf("invoke") \cup AsksOf("exec") : a.ref \in Request \cup Name /\ a.timeout \in Int
  /\ \A s \in Scenarios, w \in Walk : s.walks[w] # None => s.walks[w].limit \in Int \cup {None}

(* builtinSpecFor: the risk of an action and the tool it is on the agent. *)
Actions == {"fs.list", "fs.read", "fs.stat", "fs.write", "sys.hardware", "sys.info",
            "config.get", "config.set"}
ToolOf(action) ==
  CASE action = "fs.list"  -> "list_directory"
    [] action = "fs.read"  -> "read_file"
    [] action = "fs.stat"  -> "stat_file"
    [] action = "fs.write" -> "write_file"
    [] action \in {"sys.hardware", "sys.info"} -> "get_hardware_info"
    [] action = "config.get" -> "get_agent_config"
    [] action = "config.set" -> "set_agent_config"
RiskOf(action) == IF action \in {"fs.write", "config.set"} THEN "mutating" ELSE "readonly"

-----------------------------------------------------------------------------
(***************************************************************************)
(* Lists.                                                                  *)
(***************************************************************************)
(* What belongs to a list under a filter: its fields have the values that  *)
(* the filter gives to some of them; a text in the name stands for the set *)
(* of the names that contain it.                                           *)
Agrees(filter, record) == \A f \in DOMAIN filter \cap DOMAIN record : filter[f] = record[f]
ListsTemplate(filter, q) ==
  /\ templates[q] # None /\ Agrees(filter, templates[q])
  /\ "names" \in DOMAIN filter => templates[q].name \in filter.names
  /\ "on" \in DOMAIN filter => filter.on \in templates[q].os
ListsInvocation(filter, q) == status[q] # "none" /\ Agrees(filter, [status |-> status[q]])
ListsAudit(filter, q)      == audits[q] # None /\ Agrees(filter, [decision |-> audits[q]])
ListsNode(filter, n) ==
  nodes[n] # "gone" /\ NodeType[n] = "agent" /\ Agrees(filter, [status |-> nodes[n]])
Belongs(kind, filter, x) ==
  \/ kind = "templates"   /\ ListsTemplate(filter, x)
  \/ kind = "invocations" /\ ListsInvocation(filter, x)
  \/ kind = "audits"      /\ ListsAudit(filter, x)
  \/ kind = "nodes"       /\ ListsNode(filter, x)

(* The list: the newest first, nodes by their ids. *)
Entries(kind) ==
  IF kind = "nodes" THEN [i \in DOMAIN NodesById |-> <<"nodes", NodesById[i]>>] ELSE Reverse(born)
Listed(kind, filter) ==
  FoldLeft(LAMBDA items, e : IF e[1] = kind /\ Belongs(kind, filter, e[2])
                             THEN Append(items, e[2]) ELSE items,
           <<>>, Entries(kind))

(* Mutant: the cursor is the first item of the next page. *)
PageFromNext(items, cursor, limit) ==
  LET start == IF cursor = None THEN 0
               ELSE IF cursor \in ToSet(items) THEN CHOOSE i \in DOMAIN items : items[i] = cursor
               ELSE Len(items)
      end   == Min({start + limit, Len(items)})
  IN  [items |-> SubSeq(items, start + 1, end),
       next  |-> IF end < Len(items) THEN items[end + 1] ELSE None]

(* paginate: a page goes on after the item that the cursor names, and when *)
(* that is not on the list any more it is empty, and the last one.         *)
Page(items, cursor, limit) ==
  LET start == IF cursor = None THEN 0
               ELSE IF cursor \in ToSet(items) THEN CHOOSE i \in DOMAIN items : items[i] = cursor
               ELSE Len(items)
      end   == Min({start + limit, Len(items)})
  IN  [items |-> SubSeq(items, start + 1, end),
       next  |-> IF end < Len(items) THEN items[end] ELSE None]

(* parsePositiveIntQuery; only the list of nodes refuses a bad limit, the  *)
(* others take the default.                                                *)
Limit(limit) == IF limit = None \/ limit <= 0 THEN DefaultLimit ELSE Min({limit, MaxLimit})
BadLimit(l) == l.kind = "nodes" /\ l.limit # None /\ l.limit <= 0

ListDomains(kind) == IF kind = "audits" THEN {"admin"} ELSE HttpDomains

(* The next page of w's list, or a refusal. *)
ReadPage(w) ==
  LET l == walk[w].list
      page == Page(Listed(l.kind, l.filter), walk[w].cursor, Limit(l.limit))
  IN  /\ walk[w].at = "reading"
      /\ IF Authenticate(l.token, ListDomains(l.kind)) # 200 \/ BadLimit(l)
         THEN walk' = [walk EXCEPT ![w].at = "refused"]
         ELSE walk' = [walk EXCEPT
                ![w].got = @ \o page.items, ![w].cursor = page.next,
                ![w].at = IF page.next = None THEN "over" ELSE "reading",
                ![w].lost = @ \/ (walk[w].cursor # None
                                    /\ ~Belongs(l.kind, l.filter, walk[w].cursor))]
      /\ steady' = [steady EXCEPT ![w] =
           IF walk[w].got = <<>> THEN ToSet(Listed(l.kind, l.filter)) ELSE @]
      /\ UNCHANGED <<storeVars, recordVars, requestVars, nodeVars, born, ask, pc, answer>>

(* History: what has left a list is not steady any more. *)
Watched ==
  /\ UNCHANGED walk
  /\ steady' = [w \in Walk |->
       IF walk[w].at = "reading" /\ walk[w].got # <<>>
       THEN {x \in steady[w] : Belongs(walk[w].list.kind, walk[w].list.filter, x)'}
       ELSE steady[w]]

-----------------------------------------------------------------------------
Init ==
  /\ \E s \in Scenarios :
       /\ ask = s.ask /\ flips = s.flips
       /\ walk = [w \in Walk |-> [at |-> IF s.walks[w] = None THEN "none" ELSE "reading",
                                  list |-> s.walks[w], cursor |-> None, got |-> <<>>,
                                  lost |-> FALSE]]
  /\ templates = [q \in Request |-> None] /\ nameIDs = [n \in Name |-> None]
  /\ versions = [q \in Request |-> {}] /\ spoiled = {}
  /\ status = [q \in Request |-> "none"] /\ audits = [q \in Request |-> None]
  /\ born = <<>> /\ nodes = [n \in Node |-> "online"]
  /\ pc = [q \in Request |-> "new"] /\ plan = [q \in Request |-> None]
  /\ work = [q \in Request |-> [n \in Node |-> "none"]]
  /\ sent = [q \in Request |-> [n \in Node |-> None]]
  /\ answer = [q \in Request |-> None]
  /\ steady = [w \in Walk |-> {}]

IsA(q, ops) == ask[q] # None /\ ask[q].op \in ops
Goes(q, from, to) == pc[q] = from /\ pc' = [pc EXCEPT ![q] = to] /\ UNCHANGED answer
Answers(q, from, code) ==
  /\ pc[q] = from /\ pc' = [pc EXCEPT ![q] = "answered"]
  /\ answer' = [answer EXCEPT ![q] = code]
Domain(q) == CHOOSE d \in DomainsOf(ask[q].token) : TRUE

(* The endpoint refuses the token. *)
RouteDomains(q) == IF IsA(q, {"create"}) THEN {"admin"} ELSE HttpDomains
Refuse(q) ==
  /\ ask[q] # None /\ Authenticate(ask[q].token, RouteDomains(q)) # 200
  /\ Answers(q, "new", Authenticate(ask[q].token, RouteDomains(q)))
  /\ UNCHANGED <<storeVars, recordVars, requestVars, nodeVars, walkVars, born, ask>>
Admitted(q) == pc[q] = "new" /\ Authenticate(ask[q].token, RouteDomains(q)) = 200

-----------------------------------------------------------------------------
(***************************************************************************)
(* Creating and updating templates.                                        *)
(***************************************************************************)
(* CreateTemplate builds the template, with its CreatedAt ... *)
Build(q) ==
  /\ IsA(q, {"create"}) /\ Admitted(q)
  /\ IF Buildable(ask[q]) THEN Goes(q, "new", "built") /\ born' = Append(born, <<"templates", q>>)
     ELSE Answers(q, "new", Unbuilt(ask[q])) /\ UNCHANGED born
  /\ UNCHANGED <<storeVars, recordVars, requestVars, nodeVars, walkVars, ask>>

(* ... and stores it under the lock if its name is free. *)
Insert(q) ==
  /\ IsA(q, {"create"}) /\ pc[q] = "built"
  /\ IF nameIDs[ask[q].name] # None
     THEN Answers(q, "built", 409) /\ UNCHANGED <<storeVars, audits, born>>
     ELSE /\ Answers(q, "built", 201)
          /\ templates' = [templates EXCEPT ![q] = Built(ask[q])]
          /\ versions' = [versions EXCEPT ![q] = {Built(ask[q])}]
          /\ nameIDs' = [nameIDs EXCEPT ![ask[q].name] = q]
          /\ audits' = [audits EXCEPT ![q] = "created"]
          /\ born' = Append(born, <<"audits", q>>)
          /\ UNCHANGED spoiled
  /\ UNCHANGED <<status, requestVars, nodeVars, ask>>
  /\ Watched

(* The fields of a patch go into the stored record one after the other;    *)
(* the first bad one ends the update and leaves what is done.              *)
Given(field, old) == IF field = None THEN old ELSE field
BadRisk(p)   == p.risk # None /\ p.risk \notin Risks
BadSchema(p) == p.schema # None /\ ~SchemaOK(p.schema)

(* Mutant: the schema is stored before it is checked. *)
PatchedUnchecked(t, p) ==
  LET second == [t EXCEPT !.risk = Given(p.risk, @), !.os = Given(p.os, @),
                          !.schema = Given(p.schema, @)]
  IN  IF BadRisk(p) THEN t
      ELSE IF BadSchema(p) THEN second
      ELSE [second EXCEPT !.default = Given(p.default, @), !.max = Given(p.max, @),
              !.output = Given(p.output, @), !.enabled = Given(p.enabled, @)]
Patched(t, p) ==
  LET first == [t EXCEPT !.risk = Given(p.risk, @), !.os = Given(p.os, @)]
  IN  IF BadRisk(p) THEN t
      ELSE IF BadSchema(p) THEN first
      ELSE [first EXCEPT !.schema = Given(p.schema, @), !.default = Given(p.default, @),
              !.max = Given(p.max, @), !.output = Given(p.output, @),
              !.enabled = Given(p.enabled, @)]

(* UpdateTemplate, under the lock: the audit event is only written when    *)
(* all went well.                                                          *)
Update(q) ==
  LET t   == ask[q].template
      new == Patched(templates[t], ask[q])
      bad == BadRisk(ask[q]) \/ BadSchema(ask[q])
      ok  == ~bad /\ TimeoutsOK(new)
  IN  /\ IsA(q, {"update"}) /\ Admitted(q)
      /\ IF Domain(q) # "admin" \/ templates[t] = None
         THEN /\ Answers(q, "new", IF Domain(q) # "admin" THEN 403 ELSE 404)
              /\ UNCHANGED <<storeVars, audits, born>>
         ELSE /\ Answers(q, "new", IF ok THEN 200 ELSE IF bad THEN 400 ELSE 422)
              /\ templates' = [templates EXCEPT ![t] = new]
              /\ versions' = [versions EXCEPT ![t] = @ \cup {new}]
              /\ spoiled' = IF ok THEN spoiled \ {t} ELSE IF bad THEN spoiled ELSE spoiled \cup {t}
              /\ audits' = [audits EXCEPT ![q] = IF ok THEN "updated" ELSE @]
              /\ born' = IF ok THEN Append(born, <<"audits", q>>) ELSE born
              /\ UNCHANGED nameIDs
      /\ UNCHANGED <<status, requestVars, nodeVars, ask>>
      /\ Watched

-----------------------------------------------------------------------------
(***************************************************************************)
(* Running templates and builtin actions.                                  *)
(***************************************************************************)
(* resolveTemplate: an id, or else a name. *)
Resolved(ref) ==
  IF ref \in Request THEN (IF templates[ref] = None THEN None ELSE ref) ELSE nameIDs[ref]

(* What a request names: preparePlan first puts dots for the colons of a   *)
(* name, ExecTemplate takes it as it is.                                   *)
Named(q) ==
  IF IsA(q, {"invoke"}) /\ ask[q].ref \in Name THEN Dotted[ask[q].ref] ELSE ask[q].ref

(* Why a template cannot be run, or 200. *)
TemplateRefusal(q) ==
  LET id == Resolved(Named(q))
  IN  IF id = None THEN 404
      ELSE IF ~templates[id].enabled THEN 422
      ELSE IF ~AllowRisk(Domain(q), templates[id].risk) THEN 403
      ELSE IF ~ParamsOK(templates[id].schema, ask[q].params) THEN 422 ELSE 200
BuiltinRefusal(q) ==
  IF ask[q].action \notin Actions THEN 400
  ELSE IF ~AllowRisk(Domain(q), RiskOf(ask[q].action)) THEN 403 ELSE 200
Refusal(q) ==
  IF IsA(q, {"invoke"}) /\ ask[q].nodes = <<>> THEN 400
  ELSE IF IsA(q, {"builtin"}) THEN BuiltinRefusal(q) ELSE TemplateRefusal(q)

(* dedupe: blank node ids go too. *)
Targets(q) == ToSet(ask[q].nodes) \ {Blank}

(* Mutant: the plan points at the stored template. *)
PlannedTemplateLive(q) == IF plan[q].id = None THEN None ELSE templates[plan[q].id]

(* The plan's own copy of the template. *)
PlannedTemplate(q) == plan[q].template

(* preparePlan, or the start of ExecTemplate: one look at the template,    *)
(* and a copy of it.  An invocation takes its CreatedAt.                   *)
Prepare(q) ==
  LET id == IF IsA(q, {"builtin"}) THEN None ELSE Resolved(Named(q))
  IN  /\ IsA(q, {"invoke", "exec", "builtin"}) /\ Admitted(q)
      /\ IF Refusal(q) # 200
         THEN Answers(q, "new", Refusal(q)) /\ UNCHANGED <<plan, work, born>>
         ELSE /\ Goes(q, "new", IF IsA(q, {"exec"}) THEN "running" ELSE "planned")
              /\ plan' = [plan EXCEPT ![q] =
                   [id |-> id, template |-> IF id = None THEN None ELSE templates[id],
                    timeout |-> IF id = None THEN Timeout(ask[q].timeout, DefaultTimeout, 3 * DefaultTimeout)
                                ELSE Timeout(ask[q].timeout, templates[id].default, templates[id].max)]]
              /\ work' = [work EXCEPT ![q] = [n \in Node |-> IF n \in Targets(q) THEN "todo" ELSE "none"]]
              /\ born' = IF IsA(q, {"exec"}) THEN born ELSE Append(born, <<"invocations", q>>)
      /\ UNCHANGED <<storeVars, recordVars, sent, nodeVars, walkVars, ask>>

(* CreateInvocation stores the invocation, then its audit event, whose     *)
(* CreatedAt is taken before the lock, and executeInvocation starts; an    *)
(* asynchronous one is answered before.                                    *)
Async(q) == IsA(q, {"invoke"}) /\ ask[q].async
Record(q) ==
  /\ Goes(q, "planned", "recorded")
  /\ status' = [status EXCEPT ![q] = "pending"]
  /\ born' = Append(born, <<"audits", q>>)
  /\ UNCHANGED <<storeVars, audits, requestVars, nodeVars, ask>>
  /\ Watched
AuditStart(q) ==
  /\ pc[q] = "recorded" /\ pc' = [pc EXCEPT ![q] = "audited"]
  /\ answer' = [answer EXCEPT ![q] = IF Async(q) THEN 202 ELSE @]
  /\ audits' = [audits EXCEPT ![q] = "accepted"]
  /\ UNCHANGED <<storeVars, status, requestVars, nodeVars, born, ask>>
  /\ Watched
Begin(q) ==
  /\ Goes(q, "audited", "running")
  /\ status' = [status EXCEPT ![q] = "running"]
  /\ UNCHANGED <<storeVars, audits, requestVars, nodeVars, born, ask>>
  /\ Watched

WorkIs(q, n, from, to) == work[q][n] = from /\ work' = [work EXCEPT ![q][n] = to]
OthersOfWork == <<storeVars, recordVars, nodeVars, walkVars, plan, born, ask, pc, answer>>

(* executeTemplate and ExecTemplate: the platform, then the arguments. *)
CheckNode(q, n) ==
  LET t == PlannedTemplate(q)
  IN  /\ pc[q] = "running"
      /\ WorkIs(q, n, "todo", IF t = None THEN "fits"
                              ELSE IF ~OSMatches(t.os, n) THEN "CAPABILITY_DISABLED"
                              ELSE IF ~Renders(t.args, ask[q].params) THEN "INVALID_ARGUMENT"
                              ELSE "fits")
      /\ UNCHANGED <<OthersOfWork, sent>>

(* invokeToolWithRequest, for a node of this center: the registry says     *)
(* whether it can be asked.                                                *)
Payload(q) ==
  LET t == PlannedTemplate(q)
  IN  IF t = None THEN [tool |-> ToolOf(ask[q].action)]
      ELSE [tool |-> "run_process", args |-> t.args, timeout |-> plan[q].timeout, output |-> t.output]
SendCall(q, n) ==
  /\ pc[q] = "running"
  /\ LET known == nodes[n] # "gone" /\ NodeType[n] = "agent"
     IN  /\ WorkIs(q, n, "fits", IF ~known THEN "NODE_NOT_FOUND"
                                 ELSE IF nodes[n] = "offline" THEN "NODE_OFFLINE" ELSE "sent")
         /\ sent' = [sent EXCEPT ![q][n] = IF known /\ nodes[n] = "online" THEN Payload(q) ELSE @]
  /\ UNCHANGED OthersOfWork

(* Router.Send returns, classifyInvokeError names its errors; a process    *)
(* that exits with an error fails an invocation of a template, and        *)
(* handleExecTemplate passes its code on.                                  *)
ToolOutcomes == {"ok", "COMMAND_FAILED", "TIMEOUT", "CANCELED", "NODE_NOT_FOUND",
                 "POLICY_DENIED", "INTERNAL_ERROR"}
CallReturns(q, n, outcome) ==
  /\ pc[q] = "running" /\ WorkIs(q, n, "sent", outcome)
  /\ outcome = "COMMAND_FAILED" => plan[q].id # None
  /\ UNCHANGED <<OthersOfWork, sent>>

(* summarizeInvocationStatus; left: whether the context has been canceled, *)
(* as it has when a call was (Invocations has by whom).                    *)
Outcomes(q) == {work[q][n] : n \in Targets(q)}
Summary(q, left) ==
  IF left THEN "canceled"
  ELSE IF Outcomes(q) = {"ok"} THEN "succeeded"
  ELSE IF "ok" \notin Outcomes(q) THEN "failed" ELSE "partial"

(* execErrHTTPStatus and handleExecTemplate, writeInvocationError and      *)
(* handleAction.                                                           *)
ExecStatus(outcome) ==
  CASE outcome = "ok" -> 200
    [] outcome = "NODE_NOT_FOUND" -> 404
    [] outcome = "NODE_OFFLINE"   -> 503
    [] outcome = "TIMEOUT"        -> 504
    [] outcome = "CANCELED"       -> 409
    [] outcome = "POLICY_DENIED"  -> 403
    [] outcome \in {"COMMAND_FAILED", "CAPABILITY_DISABLED", "INVALID_ARGUMENT"} -> 422
    [] OTHER -> 500
ActionStatus(outcome) ==
  CASE outcome = "ok" -> 200
    [] outcome = "NODE_NOT_FOUND" -> 404
    [] outcome \in {"NODE_OFFLINE", "TIMEOUT"} -> 503
    [] outcome = "CANCELED"       -> 409
    [] outcome \in {"POLICY_DENIED", "CAPABILITY_DISABLED", "COMMAND_FAILED"} -> 403
    [] OTHER -> 500

(* All nodes have answered: the invocation is closed, then its audit       *)
(* event, and the request is answered; ExecTemplate has nothing to close.  *)
Outcome(q) == IF Outcomes(q) = {} THEN "ok" ELSE CHOOSE o \in Outcomes(q) : TRUE
Done(q) == pc[q] = "running" /\ Outcomes(q) \cap {"todo", "fits", "sent"} = {}
AnswerExec(q) ==
  /\ IsA(q, {"exec"}) /\ Done(q) /\ Answers(q, "running", ExecStatus(Outcome(q)))
  /\ UNCHANGED <<storeVars, recordVars, requestVars, nodeVars, walkVars, born, ask>>
Complete(q, left) ==
  /\ ~IsA(q, {"exec"}) /\ Done(q) /\ Goes(q, "running", "completed")
  /\ "CANCELED" \in Outcomes(q) => left
  /\ status' = [status EXCEPT ![q] = Summary(q, left)]
  /\ UNCHANGED <<storeVars, audits, requestVars, nodeVars, born, ask>>
  /\ Watched
FinishAudit(q) ==
  /\ Answers(q, "completed", IF Async(q) THEN answer[q]
                              ELSE IF IsA(q, {"invoke"}) THEN 200 ELSE ActionStatus(Outcome(q)))
  /\ audits' = [audits EXCEPT ![q] = status[q]]
  /\ UNCHANGED <<storeVars, status, requestVars, nodeVars, born, ask>>
  /\ Watched

(* The registry changes: CenterTunnel has how. *)
NodeChanges(n, s) ==
  /\ flips > 0 /\ flips' = flips - 1
  /\ s # nodes[n] /\ nodes' = [nodes EXCEPT ![n] = s]
  /\ UNCHANGED <<storeVars, recordVars, requestVars, born, ask, pc, answer>>
  /\ Watched

Next ==
  \/ \E q \in Request :
       \/ Refuse(q) \/ Build(q) \/ Insert(q) \/ Update(q)
       \/ Prepare(q) \/ Record(q) \/ AuditStart(q) \/ Begin(q)
       \/ AnswerExec(q) \/ FinishAudit(q) \/ \E left \in BOOLEAN : Complete(q, left)
       \/ \E n \in Node : \/ CheckNode(q, n) \/ SendCall(q, n)
                          \/ \E outcome \in ToolOutcomes : CallReturns(q, n, outcome)
  \/ \E w \in Walk : ReadPage(w)
  \/ \E n \in Node, s \in {"gone", "online", "offline"} : NodeChanges(n, s)

Spec == Init /\ [][Next]_vars

-----------------------------------------------------------------------------
(* Each handler is at a step of its own, and each walk too (server.go).    *)
TypeOK ==
  /\ pc \in [Request -> {"new", "built", "planned", "recorded", "audited", "running",
                     "completed", "answered"}]
  /\ status \in [Request -> {"none", "pending", "running", "succeeded", "failed", "canceled", "partial"}]
  /\ nodes \in [Node -> {"gone", "online", "offline"}]
  /\ \A w \in Walk : walk[w].at \in {"none", "reading", "over", "refused"}

(* A stored template can always be read and run: refused updates, which    *)
(* leave a part of themselves behind, never leave a bad risk or schema,    *)
(* and its timeouts are in order unless the last update was refused        *)
(* (service.go, UpdateTemplate); and a name leads to the one template that *)
(* has it (CreateTemplate).                                                *)
TemplatesAreSound ==
  \A q \in Request : templates[q] # None =>
    /\ templates[q].risk \in Risks /\ SchemaOK(templates[q].schema)
    /\ q \notin spoiled => TimeoutsOK(templates[q])
    /\ nameIDs[templates[q].name] = q
    /\ \A r \in Request \ {q} : templates[r] # None => templates[r].name # templates[q].name

(* What a node is asked to run is of one version of the template: that     *)
(* version was enabled, accepted the parameters, and has these arguments   *)
(* and this output limit; and the timeout is positive and within its       *)
(* maximum, except where normalizeTimeout has no positive time to start    *)
(* from: a refused update can leave a default of none, and ten seconds do  *)
(* not ask for the maximum (service.go, resolveTemplate).                  *)
RunIsOfOneVersion ==
  \A q \in Request, n \in Node :
    sent[q][n] # None /\ plan[q].id # None =>
      \E v \in versions[plan[q].id] :
        /\ v.enabled /\ ParamsOK(v.schema, ask[q].params) /\ Renders(v.args, ask[q].params)
        /\ sent[q][n].args = v.args /\ sent[q][n].output = v.output
        /\ sent[q][n].timeout = Timeout(ask[q].timeout, v.default, v.max)
        /\ sent[q][n].timeout > 0
        /\ v.max > 0 /\ (v.default > 0 \/ ask[q].timeout > 0) => sent[q][n].timeout <= v.max

(* What is sent to a node on behalf of a client token only reads: a tool   *)
(* that does not write, or a template that was readonly when the run was   *)
(* accepted, with the parameters of that moment (service.go, allowRisk).   *)
ClientsOnlyRead ==
  \A q \in Request, n \in Node :
    sent[q][n] # None /\ ask[q].token \notin ToSet(Tokens["admin"]) =>
      /\ ask[q].token \in ToSet(Tokens["client"])
      /\ sent[q][n].tool \notin {"write_file", "set_agent_config"}
      /\ sent[q][n].tool = "run_process" =>
           \E v \in versions[plan[q].id] :
             v.risk = "readonly" /\ v.args = sent[q][n].args /\ v.output = sent[q][n].output

(* Reading a list page by page gives everything that belonged to it from   *)
(* the first page to the last, nothing twice, whatever else is created,    *)
(* updated or gone meanwhile, as long as no page was asked for with a      *)
(* cursor whose item had left the list (service.go and server.go,          *)
(* paginate).                                                              *)
WalkListsAll ==
  \A w \in Walk :
    /\ \A i, j \in DOMAIN walk[w].got : walk[w].got[i] = walk[w].got[j] => i = j
    /\ walk[w].at = "over" /\ ~walk[w].lost => steady[w] \subseteq ToSet(walk[w].got)
=============================================================================
