--------------------------- MODULE MCCenterForward ---------------------------
(***************************************************************************)
(* A small instance of CenterForward.                                      *)
(***************************************************************************)
EXTENDS CenterForward

CONSTANTS p1, p2, p3, iA, iB, h1, s1, s2, c1

(* A center that is started twice, and another one that is asked; an agent *)
(* that connects to the former and then to any of the three.               *)
Processes  == {p1, p2, p3}
Instances  == {iA, iB}
Hosts      == {h1}
Streams    == {s1, s2}
Calls      == {c1}
Ids        == [p \in Processes |-> IF p = p3 THEN iB ELSE iA]
Hosting    == [s \in Streams |-> h1]
Moves      == [s \in Streams |-> IF s = s1 THEN p1 ELSE p3]
Targets    == [c \in Calls |-> h1]
AskOther   == [c \in Calls |-> p3]
=============================================================================
