--------------------------- MODULE MCCenterTunnel ---------------------------
(***************************************************************************)
(* Small instances of CenterTunnel.                                        *)
(***************************************************************************)
EXTENDS CenterTunnel, Naturals, FiniteSets

CONSTANTS h1, p1, s1, s2

(* One agent that connects directly, twice. *)
NoProxy       == {}
OneHost       == {h1}
TwoStreams    == {s1, s2}
TwoDirect     == [s \in TwoStreams |-> h1]

(* A proxy that connects once or twice, with an agent that is behind it or *)
(* connects by itself.                                                     *)
OneProxy      == {p1}
HostAndProxy  == {h1, p1}
Mixed         == [s \in TwoStreams |-> IF s = s1 THEN p1 ELSE h1]
ProxyTwice    == [s \in TwoStreams |-> p1]

(* At most MaxWrites database goroutines at a time. *)
MaxWrites == 2
FewWrites == Cardinality(writes) <= MaxWrites
=============================================================================
