--------------------------- MODULE MCAgentRuntime ---------------------------
(***************************************************************************)
(* A small instance of AgentRuntime.                                       *)
(***************************************************************************)
EXTENDS AgentRuntime

CONSTANTS c1, c2, a, b

Section(allowed, blocked, maxMB, commands, ports, privileged) ==
  [allowed |-> allowed, blocked |-> blocked, limit |-> maxMB, commands |-> commands,
   ports |-> ports, privileged |-> privileged]

(* The file of the tools is /srv/f.  One section allows everything, one    *)
(* blocks /srv and leaves the limit out, one allows /srv/f only, with a    *)
(* smaller limit, and the last names a command by a relative path.         *)
TheFile  == <<"srv", "f">>
Defaults == [limit |-> 3, blocked |-> {<<"proc">>}]
Open_    == Section({}, {}, 3, {"/bin/p"}, {}, FALSE)
Closed   == Section({<<"srv">>}, {<<"srv">>}, 0, {}, {8080}, TRUE)
Narrow   == Section({<<"srv", "f">>}, {<<"proc">>}, 2, {"/bin/p"}, {80}, TRUE)
Relative == Section({}, {}, 3, {"p"}, {}, FALSE)
Sections == {Open_, Closed, Narrow, Relative}
Paths    == {"/bin/p"}

(* Bytes a and b, lines of up to two of them, a zero byte.                 *)
AllBytes == {a, b, "nl", "nul"}
Contents == {Missing, <<>>, <<a, "nl", b, "nl", a>>, <<a, a, "nl", b, b, "nl">>, <<"nul", a>>}

Read(offset, length, tail, head, maxLines) ==
  [kind |-> "read", offset |-> offset, length |-> length, tail |-> tail, head |-> head,
   maxLines |-> maxLines]
Search_(pattern, invert, before, after, max, countOnly) ==
  [kind |-> "search", pattern |-> pattern, invert |-> invert, before |-> before, after |-> after,
   max |-> max, countOnly |-> countOnly]
Reads    == {Read(0, 0, 0, 0, 0), Read(0, 2, 0, 0, 0), Read(3, 4, 0, 0, 0), Read(6, 1, 0, 0, 0),
             Read(-1, 1, 0, 0, 0), Read(1, 0, 0, 0, 0), Read(0, 0, 1, 0, 0), Read(0, 0, 2, 0, 0),
             Read(0, 0, 4, 0, 0), Read(0, 0, 0, 1, 0), Read(0, 0, 0, 3, 2)}
Searches == {Search_(a, FALSE, 0, 0, 0, FALSE), Search_(a, TRUE, 1, 1, 0, FALSE),
             Search_(a, FALSE, 1, 1, 1, FALSE), Search_(a, FALSE, 2, 0, 2, FALSE),
             Search_(a, FALSE, -2, 1, 0, FALSE),
             Search_(b, FALSE, 0, 0, 1, TRUE), Search_("bad", FALSE, 0, 0, 0, FALSE)}
Sets     == {[kind |-> "set", settings |-> s] : s \in Sections}
Writes   == {[kind |-> "write", overwrite |-> o, content |-> <<b>>] : o \in BOOLEAN}
Runs     == {[kind |-> "run", command |-> "/bin/p", max |-> m] : m \in {0, 1}}
Others   == {[kind |-> "get"], [kind |-> "stat"], [kind |-> "exists"],
             [kind |-> "list", showHidden |-> FALSE], [kind |-> "list", showHidden |-> TRUE],
             [kind |-> "run", command |-> "p", max |-> 1]}
              \cup {[kind |-> "api", port |-> p] : p \in {0, 80, 8080}}

TwoCalls == {c1, c2}
Both(r, s) == [c \in TwoCalls |-> IF c = c1 THEN r ELSE s]
Plays(firsts, seconds, disks, n, m) ==
  {[ask |-> Both(p[1], p[2]), disk |-> p[3], changes |-> n, crashes |-> m] :
     p \in firsts \X seconds \X disks}
Plenty == {<<a, "nl", b, "nl", a>>, <<a, a, "nl", b, b, "nl">>}

(* Two updates and a crash; an update beside every other kind of call;     *)
(* readers and a writer beside another program; two writers; and a         *)
(* process beside an update or a crash.                                    *)
AllScenarios ==
  Plays(Sets, Sets, {Missing}, 0, 1)
    \cup Plays(Sets, Reads \cup Others, Plenty, 0, 1)
    \cup Plays({None}, Reads \cup Searches \cup Others, Contents, 1, 0)
    \cup Plays(Writes, {Read(0, 0, 2, 0, 0), Read(0, 4, 0, 0, 0)} \cup Searches \cup Others, Contents, 0, 0)
    \cup Plays(Writes, Writes, Contents, 1, 0)
    \cup Plays({None}, Runs, {Missing}, 0, 1)
    \cup Plays(Sets, Runs, {Missing}, 0, 0)

TwoChannels == {"stdout", "stderr"}
Written     == [o \in TwoChannels |-> IF o = "stdout" THEN 2 ELSE 1]
=============================================================================
