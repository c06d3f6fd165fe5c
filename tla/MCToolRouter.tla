---------------------------- MODULE MCToolRouter ----------------------------
(***************************************************************************)
(* Small instances of ToolRouter.                                          *)
(***************************************************************************)
EXTENDS ToolRouter

CONSTANTS a1, a2, s1, s2, c1, c2, r1, r2

(* Two calls to one agent that connects once, under an id each. *)
TwoCalls    == {c1, c2}
OneAgent    == {a1}
TwoAgents   == {a1, a2}
TwoStreams  == {s1, s2}
TwoIds      == {r1, r2}
SameTarget  == [c \in {c1, c2} |-> a1]
DistinctIds == [c \in {c1, c2} |-> IF c = c1 THEN r1 ELSE r2]
OneStream   == {s1}
OneOwner    == [s \in {s1} |-> a1]

(* Two calls to two agents, with a stream each. *)
TwoTargets  == [c \in {c1, c2} |-> IF c = c1 THEN a1 ELSE a2]
TwoOwners   == [s \in {s1, s2} |-> IF s = s1 THEN a1 ELSE a2]

(* Service.executeBuiltin makes the calls to all targets of an invocation  *)
(* under the invocation's id.                                              *)
InvocationId == [c \in {c1, c2} |-> r1]
=============================================================================
