------------------------------ MODULE ToolCalls ------------------------------
(***************************************************************************)
(* What the center promises about a tool call, whatever streams, pending   *)
(* maps and cancel messages lie between it and the node: a call reaches    *)
(* its node at most once, and it ends either with the answer of its own    *)
(* execution or without an answer.  ToolRouter implements this module.     *)
(***************************************************************************)

CONSTANT Call          \* the tool calls (one execution of Router.Send each)

VARIABLES
  phase,               \* "idle", "active", "answered" or "failed"
  executed,            \* the calls their node has started to execute
  answer               \* answer[c]: the calls whose execution answered c

callVars == <<phase, executed, answer>>

CallsTypeOK ==
  /\ phase \in [Call -> {"idle", "active", "answered", "failed"}]
  /\ executed \in SUBSET Call
  /\ answer \in [Call -> SUBSET Call]

CallsInit ==
  /\ phase = [c \in Call |-> "idle"]
  /\ executed = {}
  /\ answer = [c \in Call |-> {}]

(* The center starts a call. *)
Issue(c) ==
  /\ phase[c] = "idle"
  /\ phase' = [phase EXCEPT ![c] = "active"]
  /\ UNCHANGED <<executed, answer>>

(* The node starts the call it was sent; the center may have given up.     *)
Execute(c) ==
  /\ phase[c] # "idle"
  /\ c \notin executed
  /\ executed' = executed \union {c}
  /\ UNCHANGED <<phase, answer>>

(* The caller gets the answer of its own execution. *)
Complete(c) ==
  /\ phase[c] = "active"
  /\ c \in executed
  /\ phase' = [phase EXCEPT ![c] = "answered"]
  /\ answer' = [answer EXCEPT ![c] = {c}]
  /\ UNCHANGED executed

(* The caller is refused, or gets a timeout, a cancellation or a send error. *)
Abandon(c) ==
  /\ phase[c] \in {"idle", "active"}
  /\ phase' = [phase EXCEPT ![c] = "failed"]
  /\ UNCHANGED <<executed, answer>>

CallsNext == \E c \in Call : Issue(c) \/ Execute(c) \/ Complete(c) \/ Abandon(c)

CallsSpec == CallsInit /\ [][CallsNext]_callVars
=============================================================================
