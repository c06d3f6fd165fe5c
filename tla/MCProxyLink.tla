---------------------------- MODULE MCProxyLink ----------------------------
(***************************************************************************)
(* Small instances of ProxyLink.                                           *)
(***************************************************************************)
EXTENDS ProxyLink

CONSTANTS h1, h2, p1, u1, u2, d1, d2, r1

(* One agent and one request to it; the proxy connects once or twice, the  *)
(* agent twice.                                                            *)
OneClient   == {h1}
TwoUps      == {u1, u2}
OneUp       == {u1}
TwoDowns    == {d1, d2}
OneRequest  == {r1}
SameClient  == [d \in TwoDowns |-> h1]
OnlyTarget  == [r \in OneRequest |-> h1]
NotNested   == [c \in OneClient |-> {}]

(* Beside the agent h1, a nested proxy p1 with an agent h2 behind it. *)
AgentAndProxy == {h1, p1, h2}
OneEach       == [d \in TwoDowns |-> IF d = d1 THEN h1 ELSE p1]
HostBehind    == [c \in AgentAndProxy |-> IF c = p1 THEN {h2} ELSE {}]
=============================================================================
