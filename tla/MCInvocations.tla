---------------------------- MODULE MCInvocations ----------------------------
(***************************************************************************)
(* A small instance of Invocations: an asynchronous template invocation of *)
(* two nodes under cancellation beside a synchronous builtin one of a      *)
(* single node whose client may leave.                                     *)
(***************************************************************************)
EXTENDS Invocations

CONSTANTS i1, i2, n1, n2, k1

TwoInvocations == {i1, i2}
TwoNodes       == {n1, n2}
OneCancel      == {k1}
TemplateAndBuiltin == [i \in TwoInvocations |-> IF i = i1 THEN TwoNodes ELSE {n1}]
OneAsync       == {i1}
OneBuiltin     == {i2}
OfTemplate     == [k \in OneCancel |-> i1]
=============================================================================
