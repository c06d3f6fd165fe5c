---------------------------- MODULE AgentRuntime ----------------------------
(***************************************************************************)
(* The tools of one sysplane-agent: the handlers that dispatch runs in a   *)
(* goroutine each, the security settings they read, set_agent_config that  *)
(* replaces these in the configuration file and in memory, the processes   *)
(* that run_process starts, and the restarts of the agent.                 *)
(*                                                                         *)
(* ToolRouter has the delivery of calls and answers; here a call starts,   *)
(* works and is answered.  The configuration file is one of the settings   *)
(* when it is whole (upstream, token and the other sections are then in    *)
(* place), and otherwise Empty or Garbled.  The file tools work on one     *)
(* other file, which the rest of the machine changes too.                  *)
(***************************************************************************)
EXTENDS FileTools

CONSTANTS
  Call,            \* tool calls
  Scenarios,       \* bound: the requests that may come, what the file holds at first,
                   \* and how often other programs change it and the agent dies
  Settings,        \* values of the security section
  Initial,         \* the settings of the configuration file at the start
  Default,         \* what applyDefaults fills in: its blocked and limit fields
  Absolute,        \* the commands that are absolute paths
  Path,            \* the file the tools work on ...
  Hidden,          \* ... whether its name starts with a dot
  Byte,            \* what it consists of
  Texts,           \* contents the machine may give to it, Missing among them
  Missing,         \* no file
  Empty, Garbled,  \* a configuration file without or with broken contents
  None,            \* no request, no answer, no settings
  Channel,         \* the output streams of a process
  PipeSize,        \* bytes a pipe holds
  DefaultOutput,   \* defaultMaxOutputBytes
  MaxWritten,      \* bound: MaxWritten[o] bytes go to channel o of a process
  WritesFail       \* whether the file system may refuse a write

ASSUME RuntimeAssumption ==
  /\ Initial \in Settings /\ None \notin Settings
  /\ \A s \in Scenarios, c \in Call :
       s.ask[c] # None /\ s.ask[c].kind = "set" => s.ask[c].settings \in Settings
  /\ \A s \in Scenarios, c \in Call :
       s.ask[c] # None /\ s.ask[c].kind = "write" => s.ask[c].content \in Seq(Byte)
  /\ \A s \in Scenarios, c \in Call :
       s.ask[c] # None /\ s.ask[c].kind = "run" => s.ask[c].max \in Int
  /\ \A s \in Scenarios, c \in Call :
       s.ask[c] # None /\ s.ask[c].kind = "read" =>
         {s.ask[c].offset, s.ask[c].length, s.ask[c].tail, s.ask[c].head, s.ask[c].maxLines} \subseteq Int
  /\ \A s \in Scenarios, c \in Call :
       s.ask[c] # None /\ s.ask[c].kind = "search" =>
         {s.ask[c].before, s.ask[c].after, s.ask[c].max} \subseteq Int
  /\ \A s \in Scenarios : s.disk \in Texts
  /\ Texts \subseteq Seq(Byte) \cup {Missing} /\ Missing \notin Seq(Byte)
  /\ Empty \notin Settings /\ Garbled \notin Settings /\ Empty # Garbled
  /\ PipeSize \in Nat /\ DefaultOutput \in Nat \ {0}
  /\ WritesFail \in BOOLEAN

VARIABLES
  file,      \* the configuration file
  security,  \* Agent.security
  up,        \* the process runs
  crashes,   \* how often it may die yet
  clean,     \* history: no update overlapped another, failed or was cut short
  disk,      \* the file the tools work on
  changes,   \* how often other programs may change it yet
  removed,   \* history: it was removed once
  pc,        \* pc[c]: how far the handler of c has come
  ask,       \* ask[c]: the request, None for one that does not come
  snap,      \* snap[c]: the settings, or the configuration file, that the handler read
  limit,     \* limit[c]: the max_file_size_mb that read_file read
  stat,      \* stat[c]: what Stat said of the file: its size, or Missing
  seen,      \* seen[c]: history: the settings in force while c ran
  texts,     \* texts[c]: history: what the file held while c ran
  answer,    \* answer[c]: what the handler returned
  job        \* job[c]: the process that c started

configVars == <<file, security, up, crashes, clean>>
diskVars   == <<disk, changes, removed>>
localVars  == <<snap, limit, stat>>
pastVars   == <<seen, texts>>
vars == <<configVars, diskVars, localVars, pastVars, pc, ask, answer, job>>

FileKinds == {"read", "search", "write", "stat", "exists", "list"}
Over      == {"idle", "answered", "gone"}
IsA(c, kinds) == ask[c] # None /\ ask[c].kind \in kinds

(* The settings as Load completes them. *)
Effective(s) ==
  [s EXCEPT !.limit   = IF @ <= 0 THEN Default.limit ELSE @,
            !.blocked = IF @ = {} THEN Default.blocked ELSE @]

Silent == [o \in Channel |-> 0]
NoJob == [state |-> "none", code |-> 0, open |-> FALSE, closed |-> FALSE, expired |-> FALSE,
          lost |-> FALSE, sent |-> Silent, pipe |-> Silent, kept |-> Silent,
          cut |-> [o \in Channel |-> FALSE], eof |-> [o \in Channel |-> FALSE]]

(* New: the settings are those of the file that Load read. *)
Init ==
  /\ \E s \in Scenarios :
       ask = s.ask /\ disk = s.disk /\ changes = s.changes /\ crashes = s.crashes
  /\ file = Initial /\ security = Effective(Initial) /\ up = TRUE
  /\ clean = TRUE /\ removed = FALSE
  /\ pc = [c \in Call |-> "idle"]
  /\ snap = [c \in Call |-> None] /\ limit = [c \in Call |-> 0]
  /\ stat = [c \in Call |-> Missing]
  /\ seen = [c \in Call |-> {}] /\ texts = [c \in Call |-> {}]
  /\ answer = [c \in Call |-> None]
  /\ job = [c \in Call |-> NoJob]

(* The handler of c takes a step, or returns. *)
Goes(c, from, to) == up /\ pc[c] = from /\ pc' = [pc EXCEPT ![c] = to] /\ UNCHANGED answer
Returns(c, from, result) ==
  /\ up /\ pc[c] = from /\ pc' = [pc EXCEPT ![c] = "answered"]
  /\ answer' = [answer EXCEPT ![c] = result]

(* dispatch starts the handler of a request. *)
Start(c) ==
  /\ ask[c] # None /\ Goes(c, "idle", "new")
  /\ seen' = [seen EXCEPT ![c] = {security}]
  /\ texts' = [texts EXCEPT ![c] = {disk}]
  /\ UNCHANGED <<configVars, diskVars, localVars, ask, job>>

-----------------------------------------------------------------------------
(***************************************************************************)
(* Configuration.                                                          *)
(***************************************************************************)
(* The updates between the reading of the configuration file and the end.  *)
Updating == {c \in Call : IsA(c, {"set"}) /\ pc[c] \in {"parsed", "truncated", "stored"}}

(* handleSetConfig checks the commands before it does anything. *)
Validate(c) ==
  /\ IsA(c, {"set"})
  /\ IF ask[c].settings.commands \subseteq Absolute THEN Goes(c, "new", "valid")
     ELSE Returns(c, "new", Failed)
  /\ UNCHANGED <<configVars, diskVars, localVars, pastVars, ask, job>>

(* The process dies, and with it every handler; what it had started goes   *)
(* on without anybody listening.                                           *)
Down ==
  /\ up /\ up' = FALSE
  /\ pc' = [c \in Call |-> IF pc[c] \in Over THEN pc[c] ELSE "gone"]
  /\ job' = [c \in Call |-> IF pc[c] \in Over THEN job[c] ELSE NoJob]
  /\ UNCHANGED <<file, security, diskVars, localVars, pastVars, ask, answer>>

(* persistSecurityConfig reads and parses the file.  Broken contents may be *)
(* an error, or lack sections that are lost then; empty contents leave its *)
(* map nil, and the assignment to it takes the process down.               *)
ReadConfig(c) ==
  /\ IsA(c, {"set"}) /\ pc[c] = "valid"
  /\ \/ /\ file # Empty /\ Goes(c, "valid", "parsed")
        /\ snap' = [snap EXCEPT ![c] = file]
        /\ clean' = (clean /\ Updating = {})
        /\ UNCHANGED <<file, security, up, crashes, diskVars, limit, stat, pastVars, ask, job>>
     \/ /\ file = Garbled /\ Returns(c, "valid", Failed)
        /\ UNCHANGED <<configVars, diskVars, localVars, pastVars, ask, job>>
     \/ file = Empty /\ Down /\ clean' = FALSE /\ UNCHANGED crashes

(* os.WriteFile first truncates the file ... *)
TruncateConfig(c) ==
  /\ IsA(c, {"set"}) /\ Goes(c, "parsed", "truncated")
  /\ file' = Empty
  /\ UNCHANGED <<security, up, crashes, clean, diskVars, localVars, pastVars, ask, job>>

(* Mutant: the commands of the section are merged, not replaced. *)
WriteConfigMerging(c) ==
  /\ IsA(c, {"set"}) /\ Goes(c, "truncated", "stored")
  /\ file' = [ask[c].settings EXCEPT !.commands = @ \cup security.commands]
  /\ UNCHANGED <<security, up, crashes, clean, diskVars, localVars, pastVars, ask, job>>

(* ... and then writes what was read with the new section in it.  Over     *)
(* what another update wrote meanwhile the result is whole or not, as      *)
(* their lengths are.                                                      *)
WriteConfig(c) ==
  /\ IsA(c, {"set"}) /\ Goes(c, "truncated", "stored")
  /\ file' \in (IF snap[c] = Garbled THEN {} ELSE {ask[c].settings})
               \cup (IF snap[c] = Garbled \/ file # Empty THEN {Garbled} ELSE {})
  /\ UNCHANGED <<security, up, crashes, clean, diskVars, localVars, pastVars, ask, job>>

(* The file system refuses the write: the update fails, memory keeps the   *)
(* old settings and the file holds a part of the new ones at most.         *)
WriteConfigFails(c) ==
  /\ WritesFail /\ IsA(c, {"set"}) /\ Returns(c, "truncated", Failed)
  /\ file' \in {Garbled, file}
  /\ clean' = FALSE
  /\ UNCHANGED <<security, up, crashes, diskVars, localVars, pastVars, ask, job>>

(* setSecurity: the settings are in force for every handler that reads     *)
(* them from now on.                                                       *)
SetSecurity(c) ==
  /\ IsA(c, {"set"}) /\ Returns(c, "stored", [ok |-> TRUE])
  /\ security' = ask[c].settings
  /\ seen' = [d \in Call |-> IF pc[d] \in Over THEN seen[d] ELSE seen[d] \cup {security'}]
  /\ UNCHANGED <<file, up, crashes, clean, diskVars, localVars, texts, ask, job>>

(* handleGetConfig answers with the settings in force. *)
GetConfig(c) ==
  /\ IsA(c, {"get"}) /\ Returns(c, "new", [ok |-> TRUE, settings |-> security])
  /\ UNCHANGED <<configVars, diskVars, localVars, pastVars, ask, job>>

(* The agent dies at any moment. *)
Crash ==
  /\ crashes > 0 /\ crashes' = crashes - 1 /\ Down
  /\ clean' = (clean /\ \A c \in Call : ~ (IsA(c, {"set"}) /\ pc[c] = "truncated"))

(* A supervisor starts it again: Load refuses a file without an upstream.  *)
Restart ==
  /\ ~up /\ file \in Settings
  /\ up' = TRUE /\ security' = Effective(file)
  /\ UNCHANGED <<file, crashes, clean, diskVars, localVars, pastVars, pc, ask, answer, job>>

-----------------------------------------------------------------------------
(***************************************************************************)
(* What the settings permit.  Every handler reads them when it starts and  *)
(* works with what it read.                                                *)
(***************************************************************************)
PortAllowed(s, port) ==
  /\ port \in 1 .. 65535
  /\ s.privileged \/ port >= 1024
  /\ s.ports = {} \/ port \in s.ports

(* list_directory is asked for the directory of the file. *)
PathOf(a) == IF a.kind = "list" THEN Front(Path) ELSE Path
Permits(s, a) ==
  /\ a.kind \in FileKinds => GuardAllows(s.allowed, s.blocked, PathOf(a))
  /\ a.kind = "run" => a.command \in Absolute \cap s.commands
  /\ a.kind = "api" => PortAllowed(s, a.port)

(* Mutant: the handlers keep the settings that New was given. *)
SnapshotOfNew(c) ==
  /\ IsA(c, FileKinds \cup {"run", "api"}) /\ Goes(c, "new", "guarded")
  /\ snap' = [snap EXCEPT ![c] = Effective(Initial)]
  /\ UNCHANGED <<configVars, diskVars, limit, stat, pastVars, ask, job>>

(* pathGuard and getSecurity, under the lock. *)
Snapshot(c) ==
  /\ IsA(c, FileKinds \cup {"run", "api"}) /\ Goes(c, "new", "guarded")
  /\ snap' = [snap EXCEPT ![c] = security]
  /\ UNCHANGED <<configVars, diskVars, limit, stat, pastVars, ask, job>>

(* maxFileSizeMB locks a second time. *)
TakeLimit(c) ==
  /\ IsA(c, {"read"}) /\ Goes(c, "guarded", "limited")
  /\ limit' = [limit EXCEPT ![c] = security.limit]
  /\ UNCHANGED <<configVars, diskVars, snap, stat, pastVars, ask, job>>

(* The check of the path, the command or the port. *)
Check(c) ==
  LET from == IF IsA(c, {"read"}) THEN "limited" ELSE "guarded"
  IN  /\ IsA(c, FileKinds \cup {"run", "api"}) /\ pc[c] = from
      /\ IF Permits(snap[c], ask[c]) THEN Goes(c, from, "permitted")
         ELSE Returns(c, from, Failed)
      /\ UNCHANGED <<configVars, diskVars, localVars, pastVars, ask, job>>

(* Where a handler looks at its context, the tool timeout or a             *)
(* cancellation may have ended it.                                         *)
GivesUp(c) ==
  /\ \/ IsA(c, {"write", "list", "search", "api"}) /\ Returns(c, "permitted", Failed)
     \/ IsA(c, {"read"}) /\ disk # Missing /\ Returns(c, "sized", Failed)
  /\ UNCHANGED <<configVars, diskVars, localVars, pastVars, ask, job>>

(* proxy_local_api: the HTTP request to 127.0.0.1 is answered or fails. *)
CallApi(c) ==
  /\ IsA(c, {"api"})
  /\ \E result \in {[ok |-> TRUE], Failed} : Returns(c, "permitted", result)
  /\ UNCHANGED <<configVars, diskVars, localVars, pastVars, ask, job>>

-----------------------------------------------------------------------------
(***************************************************************************)
(* The file tools.                                                         *)
(***************************************************************************)
SizeOf(text) == IF text = Missing THEN Missing ELSE Len(text)

(* The file changes under the handlers that work on it. *)
DiskBecomes(text) ==
  /\ disk' = text
  /\ texts' = [c \in Call |-> IF pc[c] \in Over THEN texts[c] ELSE texts[c] \cup {text}]

(* Another program writes the file in place, or removes it: what is        *)
(* written through a handle opened before then goes nowhere.               *)
ChangeDisk(text) ==
  /\ text \in Texts \ {disk}
  /\ changes > 0 /\ changes' = changes - 1
  /\ removed' = (removed \/ text = Missing)
  /\ pc' = [c \in Call |-> IF text = Missing /\ pc[c] = "opened" THEN "unlinked" ELSE pc[c]]
  /\ DiskBecomes(text)
  /\ UNCHANGED <<configVars, localVars, seen, ask, answer, job>>

(* read_file asks for the size and opens the file in two steps; between    *)
(* them, and the reading, it can change.                                   *)
StatFileForRead(c) ==
  /\ IsA(c, {"read"})
  /\ IF disk = Missing THEN Returns(c, "permitted", Failed)
     ELSE Goes(c, "permitted", "sized")
  /\ stat' = [stat EXCEPT ![c] = SizeOf(disk)]
  /\ UNCHANGED <<configVars, diskVars, snap, limit, pastVars, ask, job>>
ReadContent(c) ==
  /\ IsA(c, {"read"}) /\ pc[c] = "sized"
  /\ Returns(c, "sized", IF disk = Missing THEN Failed
                         ELSE ReadFile(ask[c], stat[c], disk, limit[c]))
  /\ UNCHANGED <<configVars, diskVars, localVars, pastVars, ask, job>>

Search(c) ==
  /\ IsA(c, {"search"}) /\ pc[c] = "permitted"
  /\ Returns(c, "permitted", IF disk = Missing THEN Failed
                             ELSE SearchFileContent(ask[c], disk))
  /\ UNCHANGED <<configVars, diskVars, localVars, pastVars, ask, job>>

(* stat_file fails for a missing file ...                                  *)
StatFile(c) ==
  /\ IsA(c, {"stat"})
  /\ Returns(c, "permitted", IF disk = Missing THEN Failed ELSE [ok |-> TRUE, size |-> Len(disk)])
  /\ UNCHANGED <<configVars, diskVars, localVars, pastVars, ask, job>>

(* ... check_path_exists reports it ...                                    *)
CheckPathExists(c) ==
  /\ IsA(c, {"exists"})
  /\ Returns(c, "permitted", [ok |-> TRUE, exists |-> disk # Missing])
  /\ UNCHANGED <<configVars, diskVars, localVars, pastVars, ask, job>>

(* ... and list_directory, asked for the directory, leaves it out, and     *)
(* hidden ones unless it is to show them.                                  *)
ListDirectory(c) ==
  LET listed == disk # Missing /\ (ask[c].showHidden \/ ~Hidden)
  IN  /\ IsA(c, {"list"})
      /\ Returns(c, "permitted", [ok |-> TRUE, total |-> IF listed THEN 1 ELSE 0])
      /\ UNCHANGED <<configVars, diskVars, localVars, pastVars, ask, job>>

(* write_file: Stat tells whether it will create the file ... *)
StatFileForWrite(c) ==
  /\ IsA(c, {"write"}) /\ Goes(c, "permitted", "sized")
  /\ stat' = [stat EXCEPT ![c] = SizeOf(disk)]
  /\ UNCHANGED <<configVars, diskVars, snap, limit, pastVars, ask, job>>

(* Mutant: that answer decides, not O_EXCL. *)
OpenForWriteByStat(c) ==
  /\ IsA(c, {"write"})
  /\ IF ask[c].overwrite \/ stat[c] = Missing
     THEN Goes(c, "sized", "opened") /\ DiskBecomes(<<>>)
     ELSE Returns(c, "sized", Failed) /\ UNCHANGED <<disk, texts>>
  /\ UNCHANGED <<configVars, changes, removed, localVars, seen, ask, job>>

(* ... O_EXCL or O_TRUNC decides ... *)
OpenForWrite(c) ==
  /\ IsA(c, {"write"})
  /\ IF ask[c].overwrite \/ disk = Missing
     THEN Goes(c, "sized", "opened") /\ DiskBecomes(<<>>)
     ELSE Returns(c, "sized", Failed) /\ UNCHANGED <<disk, texts>>
  /\ UNCHANGED <<configVars, changes, removed, localVars, seen, ask, job>>

(* ... and the content goes over the start of what the file holds by now.  *)
WriteContent(c) ==
  /\ IsA(c, {"write"})
  /\ pc[c] \in {"opened", "unlinked"}
  /\ \E result \in {[ok |-> TRUE, created |-> stat[c] = Missing]} \cup
                   (IF WritesFail THEN {Failed} ELSE {}) :
       \/ Returns(c, "unlinked", result) /\ UNCHANGED <<disk, texts>>
       \/ /\ Returns(c, "opened", result)
          /\ IF result.ok
             THEN DiskBecomes(ask[c].content \o SubSeq(disk, Len(ask[c].content) + 1, Len(disk)))
             ELSE UNCHANGED <<disk, texts>>
  /\ UNCHANGED <<configVars, changes, removed, localVars, seen, ask, job>>

-----------------------------------------------------------------------------
(***************************************************************************)
(* run_process.                                                            *)
(***************************************************************************)
Job(c, next) == job' = [job EXCEPT ![c] = next]
OthersOfJob == <<configVars, diskVars, localVars, pastVars, ask>>
OutputLimit(c) == IF ask[c].max <= 0 THEN DefaultOutput ELSE ask[c].max

(* cmd.Start, with a pipe for each channel and a goroutine that copies it. *)
StartProcess(c) ==
  /\ IsA(c, {"run"})
  /\ \/ Goes(c, "permitted", "running")
        /\ Job(c, [NoJob EXCEPT !.state = "runs", !.open = TRUE])
     \/ Returns(c, "permitted", Failed) /\ UNCHANGED job
  /\ UNCHANGED OthersOfJob

(* The process, or one it has started, writes a byte. *)
Emit(c, o) ==
  /\ job[c].open /\ ~job[c].closed
  /\ job[c].pipe[o] < PipeSize /\ job[c].sent[o] < MaxWritten[o]
  /\ Job(c, [job[c] EXCEPT !.sent[o] = @ + 1, !.pipe[o] = @ + 1])
  /\ UNCHANGED <<OthersOfJob, pc, answer>>

(* It exits by itself, or because its context has ended; one that it       *)
(* started may keep the pipes.                                             *)
Exit(c, code, open) ==
  /\ job[c].state = "runs"
  /\ Job(c, [job[c] EXCEPT !.state = "exited", !.code = code, !.open = open])
  /\ UNCHANGED <<OthersOfJob, pc, answer>>
ExitsByItself(c) == \E code \in {0, 7}, open \in BOOLEAN : Exit(c, code, open)
Kill(c) == job[c].expired /\ \E open \in BOOLEAN : Exit(c, -1, open)

(* timeout_sec or the tool timeout has passed, or the call is canceled. *)
Expire(c) ==
  /\ pc[c] = "running" /\ ~job[c].expired
  /\ Job(c, [job[c] EXCEPT !.expired = TRUE])
  /\ UNCHANGED <<OthersOfJob, pc, answer>>

(* Mutant: what arrives when the buffer is full already does not count. *)
CopyForgetful(c, o, n) ==
  /\ n \in 1 .. job[c].pipe[o] /\ ~job[c].closed
  /\ LET room == OutputLimit(c) - job[c].kept[o]
     IN  Job(c, [job[c] EXCEPT !.pipe[o] = @ - n, !.kept[o] = @ + Min({room, n}),
                               !.cut[o]  = @ \/ (room > 0 /\ n > room)])
  /\ UNCHANGED <<OthersOfJob, pc, answer>>

(* io.Copy moves what a read returns into the limitBuffer. *)
Copy(c, o, n) ==
  /\ n \in 1 .. job[c].pipe[o] /\ ~job[c].closed
  /\ LET room == OutputLimit(c) - job[c].kept[o]
     IN  Job(c, [job[c] EXCEPT !.pipe[o] = @ - n, !.kept[o] = @ + Min({room, n}),
                               !.cut[o]  = @ \/ n > room])
  /\ UNCHANGED <<OthersOfJob, pc, answer>>

(* It ends when all writers have closed the pipe, or Wait its read end. *)
CopyEnds(c, o) ==
  /\ job[c].state # "none" /\ ~job[c].eof[o]
  /\ job[c].closed \/ (~job[c].open /\ job[c].pipe[o] = 0)
  /\ Job(c, [job[c] EXCEPT !.eof[o] = TRUE])
  /\ UNCHANGED <<OthersOfJob, pc, answer>>

(* What Wait makes of the exit: a process that it interrupted has failed,  *)
(* whatever its code.                                                      *)
WaitCodes(c) == {job[c].code} \cup (IF job[c].expired THEN {-1} ELSE {})

(* Mutant: the copies are waited for before the process. *)
WaitLast(c) ==
  /\ job[c].state = "exited" /\ ~job[c].closed
  /\ \A o \in Channel : job[c].eof[o]
  /\ \E code \in WaitCodes(c) : Job(c, [job[c] EXCEPT !.closed = TRUE, !.code = code])
  /\ UNCHANGED <<OthersOfJob, pc, answer>>

(* cmd.Wait returns once the process has exited, and closes the read ends  *)
(* of the pipes whatever is left in them.                                  *)
Wait(c) ==
  /\ job[c].state = "exited" /\ ~job[c].closed
  /\ \E code \in WaitCodes(c) :
       Job(c, [job[c] EXCEPT !.closed = TRUE, !.code = code,
                             !.lost = \E o \in Channel : job[c].pipe[o] > 0])
  /\ UNCHANGED <<OthersOfJob, pc, answer>>

(* Run, after both have ended: a failed process whose context has ended is *)
(* an error, whatever it has written; every other one is a result.         *)
Finish(c) ==
  /\ job[c].closed /\ \A o \in Channel : job[c].eof[o]
  /\ Returns(c, "running",
       IF job[c].code # 0 /\ job[c].expired THEN Failed
       ELSE [ok |-> TRUE, kept |-> job[c].kept, code |-> job[c].code,
             truncated |-> \E o \in Channel : job[c].cut[o]])
  /\ UNCHANGED <<OthersOfJob, job>>

-----------------------------------------------------------------------------
Set(c) ==
  \/ Validate(c) \/ ReadConfig(c) \/ TruncateConfig(c) \/ WriteConfig(c)
  \/ WriteConfigFails(c) \/ SetSecurity(c)
Guarded(c) == Snapshot(c) \/ TakeLimit(c) \/ Check(c) \/ GivesUp(c)
FileTool(c) ==
  \/ StatFileForRead(c) \/ ReadContent(c) \/ Search(c)
  \/ StatFile(c) \/ CheckPathExists(c) \/ ListDirectory(c)
  \/ StatFileForWrite(c) \/ OpenForWrite(c) \/ WriteContent(c)
Collect(c) ==
  \/ \E o \in Channel : CopyEnds(c, o) \/ \E n \in 1 .. PipeSize : Copy(c, o, n)
  \/ Wait(c) \/ Finish(c)
Handler(c) == Set(c) \/ GetConfig(c) \/ Guarded(c) \/ CallApi(c) \/ FileTool(c) \/ StartProcess(c)

Next ==
  \/ \E c \in Call :
       \/ Start(c) \/ Handler(c) \/ Collect(c)
       \/ (\E o \in Channel : Emit(c, o)) \/ ExitsByItself(c) \/ Kill(c) \/ Expire(c)
  \/ \E text \in Texts : ChangeDisk(text)
  \/ Crash \/ Restart

Spec == Init /\ [][Next]_vars

(* A goroutine that can go on does, a context ends by its deadline, and    *)
(* the kernel kills what the agent asks it to kill.  Nothing makes a       *)
(* process write or exit, and nothing starts the agent again.              *)
Fairness ==
  \A c \in Call :
    /\ WF_vars(Handler(c)) /\ WF_vars(Kill(c)) /\ WF_vars(Expire(c))
    /\ WF_vars(Wait(c)) /\ WF_vars(Finish(c))
    /\ \A o \in Channel : WF_vars(CopyEnds(c, o)) /\ WF_vars(\E n \in 1 .. PipeSize : Copy(c, o, n))
FairSpec == Spec /\ Fairness

-----------------------------------------------------------------------------
JobType ==
  [state : {"none", "runs", "exited"}, code : {0, 7, -1}, open : BOOLEAN, closed : BOOLEAN,
   expired : BOOLEAN, lost : BOOLEAN, sent : [Channel -> Nat], pipe : [Channel -> Nat],
   kept : [Channel -> Nat], cut : [Channel -> BOOLEAN], eof : [Channel -> BOOLEAN]]
Stages ==
  {"idle", "new", "valid", "parsed", "truncated", "stored", "guarded", "limited", "permitted",
   "sized", "opened", "unlinked", "running", "answered", "gone"}

(* The configuration file (persistSecurityConfig) is a settings section,   *)
(* empty or broken, and each handler is at a line of its own kind.         *)
TypeOK ==
  /\ file \in Settings \cup {Empty, Garbled} /\ security \in Settings \cup {Effective(s) : s \in Settings}
  /\ up \in BOOLEAN /\ clean \in BOOLEAN /\ removed \in BOOLEAN
  /\ pc \in [Call -> Stages]
  /\ job \in [Call -> JobType]

(* set_agent_config keeps file and memory together: unless two updates     *)
(* overlapped, the file system refused a write or the agent died in the    *)
(* middle of one, the file is whole outside the moment of the write, and   *)
(* a restart would bring back what is in force (agent.go, "replaces the    *)
(* security section ... preserving all other fields").                     *)
ConfigSurvives ==
  clean =>
    /\ file \in Settings \/ \E c \in Call : IsA(c, {"set"}) /\ pc[c] = "truncated"
    /\ up /\ Updating = {} => Effective(file) = Effective(security)

(* A handler that did its work was permitted to by settings that were in   *)
(* force while the call ran (agent.go, "hot-reloads via set_agent_config   *)
(* take effect without a restart"); get_agent_config reports such ones.    *)
Worked(c) ==
  \/ pc[c] \in {"sized", "opened", "unlinked", "running"}
  \/ pc[c] = "answered" /\ answer[c].ok
PermittedWhileRunning ==
  \A c \in Call : Worked(c) =>
    /\ IsA(c, FileKinds \cup {"run", "api"}) => \E s \in seen[c] : Permits(s, ask[c])
    /\ IsA(c, {"read"}) => \E s \in seen[c] : s.limit = limit[c]
    /\ IsA(c, {"get"}) => answer[c].settings \in seen[c]

(* What a file tool answers is true of contents the file had while the     *)
(* call ran: of one for all but read_file, whose size and text may be of   *)
(* two (readfile.go, search.go, stat.go, listdir.go).                      *)
AnswersFitTheFile ==
  \A c \in Call : pc[c] = "answered" /\ answer[c].ok /\ IsA(c, FileKinds \ {"write"}) =>
    LET there == texts[c] \ {Missing}
        q == ask[c]
        r == answer[c]
    IN  \/ q.kind = "read" /\ \E t \in there, u \in there : IsReading(q, Len(u), t, limit[c], r)
        \/ q.kind = "search" /\ \E t \in there : IsSearch(q, t, r)
        \/ q.kind = "stat" /\ \E t \in there : r.size = Len(t)
        \/ q.kind = "exists" /\ \E t \in texts[c] : r.exists <=> t # Missing
        \/ q.kind = "list" /\ \E t \in texts[c] :
             r.total = IF t # Missing /\ (q.showHidden \/ ~Hidden) THEN 1 ELSE 0

(* Calls of write_file without overwrite exclude each other: as long as    *)
(* the file is not removed, one of them at most gets past the opening, and *)
(* none if the file was there when it started (writefile.go, O_EXCL).      *)
ExclusiveWritesExclude ==
  LET wrote == {c \in Call : IsA(c, {"write"}) /\ ~ask[c].overwrite
                               /\ pc[c] # "sized" /\ Worked(c)}
  IN  ~removed => /\ Cardinality(wrote) <= 1
                  /\ \A c \in wrote : Missing \in texts[c]

(* run_process returns all that the process and its children wrote, up to  *)
(* the limit, and says when that was not all; except for what was in a     *)
(* pipe when Wait closed it (process.go, limitBuffer).                     *)
OutputAccounted ==
  \A c \in Call : IsA(c, {"run"}) /\ pc[c] = "answered" /\ answer[c].ok /\ ~job[c].lost =>
    /\ \A o \in Channel : answer[c].kept[o] = Min({OutputLimit(c), job[c].sent[o]})
    /\ answer[c].truncated <=> \E o \in Channel : job[c].sent[o] > OutputLimit(c)

(* Every call is answered or ends with its agent, also that of a process   *)
(* that never exits or leaves another one holding its pipes (process.go,   *)
(* exec.CommandContext and Wait).                                          *)
EveryToolCallEnds == \A c \in Call : (pc[c] = "new") ~> (pc[c] \in {"answered", "gone"})
=============================================================================
