----------------------------- MODULE MCAdminApi -----------------------------
(***************************************************************************)
(* A small instance of AdminApi: two requests that create, one that        *)
(* updates, one that runs, and a list that is read meanwhile.              *)
(***************************************************************************)
EXTENDS AdminApi

CONSTANTS q1, q2, q3, q4, w, disk, colon, load, a1, a2, px, p

FourRequests == {q1, q2, q3, q4}
OneWalk      == {w}
ThreeNames   == {disk, colon, load}
WithDots     == [n \in ThreeNames |-> IF n = colon THEN disk ELSE n]
ThreeNodes   == {a1, a2, px}
Ordered      == <<a1, a2, px>>
Types_       == [n \in ThreeNodes |-> IF n = px THEN "proxy" ELSE "agent"]
Platforms    == [n \in ThreeNodes |-> IF n = a1 THEN "linux" ELSE AnyOS]
FourDomains  == [client |-> <<"c">>, admin |-> <<"a">>, agent |-> <<"g">>, proxy |-> <<>>]

(* A schema of one whole-number parameter p, and what may be wrong.        *)
Good    == [type |-> "object", props |-> [y \in {p} |-> "integer"], required |-> {p}, closed |-> TRUE]
Open_   == [Good EXCEPT !.required = {}, !.closed = FALSE]
Listed_ == [Good EXCEPT !.type = "array"]
Odd     == [Good EXCEPT !.props = [y \in {p} |-> "array"]]
Given_(value) == [y \in {p} |-> value]
NoParams == [y \in {} |-> "text"]

Create(token, name) ==
  [op |-> "create", token |-> token, name |-> name, risk |-> "readonly", os |-> {}, args |-> {p},
   schema |-> Good, default |-> 1, max |-> 2, output |-> 0, process |-> TRUE, absolute |-> TRUE]
Keep == [op |-> "update", token |-> "a", template |-> q1, risk |-> None, os |-> None,
         schema |-> None, default |-> None, max |-> None, output |-> None, enabled |-> None]
Run(op, token, ref, params, timeout, to) ==
  [op |-> op, token |-> token, ref |-> ref, params |-> params, timeout |-> timeout, nodes |-> to,
   async |-> FALSE]
Builtin(token, action, to) ==
  [op |-> "builtin", token |-> token, action |-> action, timeout |-> 0, nodes |-> to]

(* What a create can get wrong, and what an update can change or get wrong.*)
BadCreates ==
  LET ok == Create("a", disk)
  IN  {Create("c", disk), Create("g", disk), [ok EXCEPT !.name = None], [ok EXCEPT !.risk = "none"],
       [ok EXCEPT !.process = FALSE], [ok EXCEPT !.absolute = FALSE], [ok EXCEPT !.schema = Listed_],
       [ok EXCEPT !.schema = Odd], [ok EXCEPT !.default = 3], [ok EXCEPT !.default = 0]}
Updates ==
  {[Keep EXCEPT !.risk = "dangerous", !.output = 7], [Keep EXCEPT !.enabled = FALSE],
   [Keep EXCEPT !.schema = Open_, !.max = 1], [Keep EXCEPT !.os = {"windows"}, !.schema = Odd],
   [Keep EXCEPT !.risk = "none"], [Keep EXCEPT !.default = 5], [Keep EXCEPT !.default = 0], [Keep EXCEPT !.max = 0, !.schema = Open_],
   [Keep EXCEPT !.os = {"linux"}], [Keep EXCEPT !.token = "c"]}
Runs ==
  {Run("invoke", t, ref, Given_("whole"), 9, <<a1, Blank, a1>>) : t \in {"c", "a"}, ref \in {disk, colon, q1}}
    \cup {Run("invoke", "c", disk, v, 1, <<a2>>) : v \in {Given_("fraction"), NoParams}}
    \cup {[Run("invoke", "c", q1, Given_("whole"), 0, <<a1>>) EXCEPT !.async = TRUE],
          Run("invoke", "c", disk, Given_("whole"), 0, <<>>),
          Run("invoke", "c", disk, Given_("whole"), 0, <<Blank>>)}
    \cup {Run("exec", t, ref, v, 0, <<n>>) : t \in {"c", "a"}, ref \in {colon, q1}, v \in {Given_("whole"), NoParams},
            n \in {a1, px}}
Builtins == {Builtin(t, action, <<a1>>) : t \in {"c", "a", "x"}, action \in Actions \cup {"fs.none"}}

Ask(first, second, third, fourth) ==
  [q \in FourRequests |-> CASE q = q1 -> first [] q = q2 -> second [] q = q3 -> third [] q = q4 -> fourth]
Read_(kind, filter, limit) == [token |-> "a", kind |-> kind, filter |-> filter, limit |-> limit]
Play(asks, walks, n) ==
  {[ask |-> s[1], walks |-> [y \in OneWalk |-> s[2]], flips |-> n] : s \in asks \X walks}
All == [y \in {} |-> TRUE]

(* Templates that fail; two creates and an update of one of them beside a  *)
(* run; a run of two nodes that may change; and lists read page by page    *)
(* while templates, invocations, audit events and nodes change.            *)
AllScenarios ==
  Play({Ask(c, None, None, b) : c \in BadCreates, b \in {None}}, {None}, 0)
    \cup Play({Ask(None, None, None, b) : b \in Builtins}, {None}, 1)
    \cup Play({Ask(Create("a", disk), Create("a", colon), u, r) : u \in Updates, r \in Runs}, {None}, 0)
    \cup Play({Ask(Create("a", disk), Create("a", disk), u, None) : u \in Updates}, {None}, 0)
    \cup Play({Ask([Create("a", disk) EXCEPT !.args = {p, Unparsable}], None, None,
                   Run("exec", "c", disk, Given_("whole"), 0, <<a1>>))}, {None}, 0)
    \cup Play({Ask(Create("a", disk), None, u, Run("invoke", "c", disk, Given_("whole"), 0, <<a1, a2>>)) :
                 u \in {[Keep EXCEPT !.os = {"windows"}, !.output = 7, !.enabled = FALSE]}}, {None}, 1)
    \cup Play({Ask(Create("a", disk), Create("a", load), u, Create("a", colon)) :
                 u \in {[Keep EXCEPT !.enabled = FALSE], [Keep EXCEPT !.risk = "dangerous"]}},
              {Read_("templates", All, 1), Read_("templates", [enabled |-> TRUE], 1),
               Read_("templates", [risk |-> "readonly", names |-> {disk, load}], 2), Read_("audits", All, 2),
               Read_("audits", [decision |-> "created"], 1), [Read_("audits", All, 1) EXCEPT !.token = "c"]}, 0)
    \cup Play({Ask(Create("a", disk), None, Builtin("a", "fs.write", <<a1>>),
                   Run("invoke", "c", disk, Given_("whole"), 0, <<Blank>>))},
              {Read_("invocations", All, 1), Read_("invocations", [status |-> "failed"], 1),
               Read_("audits", All, 1)}, 0)
    \cup Play({Ask(None, None, None, None)},
              {Read_("nodes", All, 1), Read_("nodes", [status |-> "online"], 1), Read_("nodes", All, None),
               Read_("nodes", All, 0), Read_("templates", [on |-> "linux"], 0)}, 3)
=============================================================================
