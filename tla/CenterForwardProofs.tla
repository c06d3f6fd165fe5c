------------------------ MODULE CenterForwardProofs ------------------------
(***************************************************************************)
(* Proofs about CenterForward, for any number of processes, instance ids,  *)
(* agents, streams and calls.                                              *)
(***************************************************************************)
EXTENDS CenterForward, TLAPS

-----------------------------------------------------------------------------
(* Types.                                                                  *)

(* Initially every variable has its type. *)
LEMMA InitType == Init => TypeOK
BY ForwardAssumption DEF Init, TypeOK, Rows, Outcomes, Replies, ForwardAssumption

(* History variables aside, what every action must keep. *)
LEMMA HomeType ==
  ASSUME TypeOK, Watch
  PROVE  home' \in [Call -> Process \union {None}]
<1>1. \A h : Home(h)' \in Process \union {None}
  BY DEF Home
<1> QED
  BY <1>1 DEF Watch, TypeOK

(* The steps of processes keep the types. *)
LEMMA ProcessType ==
  ASSUME TypeOK, Watch, NEW p \in Process,
         \/ Start(p) \/ StartFails(p) \/ Listen(p) \/ Crash(p)
         \/ Heartbeat(p) \/ Stop(p) \/ Deregister(p) \/ Exit(p)
  PROVE  TypeOK'
<1> USE ForwardAssumption, HomeType DEF ForwardAssumption
<1>1. CASE Start(p)
  BY <1>1 DEF Start, Turns, TypeOK, tunnelVars, callVars
<1>2. CASE StartFails(p)
  BY <1>2 DEF StartFails, Turns, TypeOK, tunnelVars, callVars
<1>3. CASE Listen(p)
  BY <1>3 DEF Listen, Turns, TypeOK, tunnelVars, callVars
<1>4. CASE Ends(p)
  <2> DEFINE Handler == [at : Process \union {None},
                         pc : {"none", "arrived", "sending", "sent", "replied", "lost"},
                         reply : Replies]
  <2>1. remote' \in [Call -> Handler]
    <3>1. ASSUME NEW r \in Handler PROVE [r EXCEPT !.pc = "lost"] \in Handler
      OBVIOUS
    <3>2. \A c \in Call : remote[c] \in Handler
      BY DEF TypeOK
    <3> HIDE DEF Handler
    <3> QED
      BY <1>4, <3>1, <3>2 DEF Ends
  <2>2. reg' \in [Process -> [Host -> Stream \union {None}]]
    BY <1>4 DEF Ends, TypeOK
  <2> QED
    BY <1>4, <2>1, <2>2 DEF Ends, TypeOK
<1>5. CASE Heartbeat(p)
  BY <1>5 DEF Heartbeat, TypeOK, tunnelVars, callVars
<1>6. CASE Stop(p)
  BY <1>6 DEF Stop, Turns, TypeOK, tunnelVars, callVars
<1>7. CASE Deregister(p)
  BY <1>7 DEF Deregister, Turns, TypeOK, tunnelVars, callVars
<1> QED
  BY <1>1, <1>2, <1>3, <1>4, <1>5, <1>6, <1>7 DEF Crash, Exit

(* So do those of streams. *)
LEMMA TunnelType ==
  ASSUME TypeOK, Watch, NEW s \in Stream,
         \/ Dial(s) \/ Break(s) \/ Persist(s) \/ PersistFails(s) \/ Register(s) \/ Close(s)
  PROVE  TypeOK'
<1> USE ForwardAssumption, HomeType DEF ForwardAssumption
<1>1. CASE Dial(s)
  BY <1>1 DEF Dial, TypeOK, processVars, callVars
<1>2. CASE Break(s)
  BY <1>2 DEF Break, TypeOK, processVars, callVars
<1>3. CASE Persist(s)
  BY <1>3 DEF Persist, TypeOK, processVars, callVars
<1>4. CASE PersistFails(s)
  BY <1>4 DEF PersistFails, TypeOK, processVars, callVars
<1>5. CASE Register(s)
  BY <1>5 DEF Register, TypeOK, processVars, callVars
<1>6. CASE Close(s)
  BY <1>6 DEF Close, TypeOK, processVars, callVars
<1> QED
  BY <1>1, <1>2, <1>3, <1>4, <1>5, <1>6

(* What a statement leaves in c's row. *)
LEMMA RowType ==
  ASSUME TypeOK, NEW c \in Call, NEW new \in Rows,
         Logged(c, new) \/ RemoteLogged(c, new)
  PROVE  log' \in [Call -> Rows] /\ failed' \subseteq Call
BY DEF Logged, RemoteLogged, Writes, Fails, TypeOK

LEMMA RowValues ==
  ASSUME TypeOK, NEW c \in Call
  PROVE  /\ Inserted(c) \in Rows
         /\ \A what : Record(what) \in {"result", "blank", "error"}
         /\ \A new \in Rows : Completed(c, new) \in Rows
         /\ \A what : Completed(c, Record(what)) \in Rows
BY DEF Inserted, Record, Completed, Rows, TypeOK

(* So do those of calls at their origin ... *)
LEMMA CallType ==
  ASSUME TypeOK, Watch, NEW c \in Call,
         FindLocal(c) \/ RefuseOffline(c) \/ Miss(c) \/ Proceeds(c)
  PROVE  TypeOK'
<1> USE ForwardAssumption, HomeType, RowType, RowValues DEF ForwardAssumption
<1>1. CASE FindLocal(c)
  BY <1>1 DEF FindLocal, Goes, TypeOK, processVars, tunnelVars
<1>2. CASE RefuseOffline(c)
  BY <1>2 DEF RefuseOffline, Goes, TypeOK, Outcomes, processVars, tunnelVars
<1>3. CASE Miss(c)
  BY <1>3 DEF Miss, Goes, TypeOK, processVars, tunnelVars
<1>4. CASE SendReturns(c)
  BY <1>4 DEF SendReturns, Returns, Goes, TypeOK, Outcomes, processVars, tunnelVars
<1>5. CASE Complete(c)
  BY <1>5 DEF Complete, Goes, TypeOK, processVars, tunnelVars
<1>6. CASE ReadRow(c)
  BY <1>6 DEF ReadRow, Returns, Goes, TypeOK, Outcomes, processVars, tunnelVars
<1>7. CASE ReadRowFails(c)
  BY <1>7 DEF ReadRowFails, Fails, Returns, Goes, TypeOK, Outcomes, processVars, tunnelVars
<1>8. CASE ReadAddress(c)
  BY <1>8 DEF ReadAddress, Goes, TypeOK, processVars, tunnelVars
<1>9. CASE ReadAddressFails(c)
  BY <1>9 DEF ReadAddressFails, Fails, Returns, Goes, TypeOK, Outcomes, processVars, tunnelVars
<1>10. CASE \E q \in Process : Post(c, q)
  BY <1>10 DEF Post, Goes, TypeOK, Replies, processVars, tunnelVars
<1>11. CASE PostFails(c)
  BY <1>11 DEF PostFails, Returns, Goes, TypeOK, Outcomes, processVars, tunnelVars
<1>12. CASE ReceiveReply(c)
  BY <1>12 DEF ReceiveReply, Returns, Goes, TypeOK, Outcomes, Replies, processVars, tunnelVars
<1> QED
  BY <1>1, <1>2, <1>3, <1>4, <1>5, <1>6, <1>7, <1>8, <1>9, <1>10, <1>11, <1>12
     DEF Proceeds

(* ... and elsewhere. *)
LEMMA HandlesType ==
  ASSUME TypeOK, NEW c \in Call, NEW from, NEW reply \in Replies,
         NEW to \in {"none", "arrived", "sending", "sent", "replied", "lost"},
         Handles(c, from, to, reply)
  PROVE  remote' \in [Call -> [at : Process \union {None},
                               pc : {"none", "arrived", "sending", "sent", "replied", "lost"},
                               reply : Replies]]
BY DEF Handles, TypeOK

LEMMA RemoteType ==
  ASSUME TypeOK, Watch, NEW c \in Call,
         RemoteMiss(c) \/ RemoteFind(c) \/ RemoteSent(c) \/ RemoteComplete(c)
  PROVE  TypeOK'
<1> USE HomeType, RowType, RowValues
<1>1. CASE RemoteMiss(c)
  <2>1. "missing" \in Replies
    BY DEF Replies
  <2> QED
    BY <1>1, <2>1, HandlesType DEF RemoteMiss, TypeOK, processVars, tunnelVars, callVars
<1>2. CASE RemoteFind(c)
  <2>1. "none" \in Replies
    BY DEF Replies
  <2> QED
    BY <1>2, <2>1, HandlesType DEF RemoteFind, TypeOK, processVars, tunnelVars, callVars
<1>3. CASE RemoteSent(c)
  <2>1. {"result", "failed"} \subseteq Replies
    BY DEF Replies
  <2> QED
    BY <1>3, <2>1, HandlesType DEF RemoteSent, TypeOK, processVars, tunnelVars, callVars
<1>4. CASE RemoteComplete(c)
  <2>1. remote[c].reply \in Replies
    BY DEF TypeOK
  <2> QED
    BY <1>4, <2>1, HandlesType DEF RemoteComplete, TypeOK, processVars, tunnelVars, callVars
<1> QED
  BY <1>1, <1>2, <1>3, <1>4

(* Every step does something else and watches, or nothing. *)
LEMMA NextType == TypeOK /\ [Next]_vars => TypeOK'
<1> SUFFICES ASSUME TypeOK, [Next]_vars PROVE TypeOK'
  OBVIOUS
<1>1. CASE Next
  <2> USE <1>1 DEF Next
  <2>1. CASE ProcessStep
    BY <2>1, ProcessType DEF ProcessStep
  <2>2. CASE TunnelStep
    BY <2>2, TunnelType DEF TunnelStep
  <2>3. CASE CallStep
    BY <2>3, CallType DEF CallStep
  <2>4. CASE RemoteStep
    BY <2>4, RemoteType DEF RemoteStep
  <2>5. CASE Quiet
    BY <2>5, HomeType DEF Quiet, TypeOK, processVars, tunnelVars, callVars
  <2> QED
    BY <2>1, <2>2, <2>3, <2>4, <2>5 DEF Step
<1>2. CASE UNCHANGED vars
  BY <1>2 DEF vars, TypeOK, processVars, tunnelVars, callVars
<1> QED
  BY <1>1, <1>2

(* Every variable keeps its type. *)
THEOREM TypeCorrect == Spec => []TypeOK
BY InitType, NextType, PTL DEF Spec

-----------------------------------------------------------------------------
(* The inductive invariant.                                                *)

(* No two processes with one id listen. *)
OneListens ==
  \A p, q \in Process : Serving(p) /\ Serving(q) /\ Id[p] = Id[q] => p = q

(* Before a call is answered its handler elsewhere has not begun. *)
OutcomeFits(c) ==
  /\ pc[c] \in {"idle", "missed", "located", "addressed", "sending"} => remote[c].pc = "none"
  /\ remote[c].pc = "none" => remote[c].at = None
  /\ pc[c] \notin {"returned", "done", "dead"} => outcome[c] = "none"
  /\ outcome[c] = "result" => remote[c].pc \notin {"arrived", "sending", "sent"}

(* Where a settled agent is: on another center than the one that was asked *)
(* and did not know it, on the one the row names and the request reaches.  *)
HomeFits(c) ==
  /\ pc[c] = "idle" => home[c] = None
  /\ \A q \in Process : home[c] = q =>
       /\ SettledAt(TargetOf[c], q)
       /\ pc[c] \in {"missed", "located", "addressed"} => Id[q] # Id[OriginOf[c]]
       /\ pc[c] \in {"located", "addressed"} => where[c] = Id[q]
       /\ remote[c].pc # "none" => remote[c].at = q /\ remote[c].reply # "missing"
       /\ c \in failed \/ outcome[c] \notin {"notfound", "unaddressed", "missing"}

(* The row is inserted before the call goes on, and closed when it ends. *)
LogFits(c) ==
  c \notin failed /\ outcome[c] # "refused" =>
    /\ pc[c] \notin {"idle", "dead"} => log[c] # "none"
    /\ pc[c] = "done" => /\ log[c] \in {"blank", "error", "result"}
                         /\ outcome[c] = "result" => log[c] = "result"

CallInv(c) == OutcomeFits(c) /\ HomeFits(c) /\ LogFits(c)

IInv == TypeOK /\ OneListens /\ \A c \in Call : CallInv(c)

(* What Watch does to home[c]: it stays, or is forgotten, once c began. *)
LEMMA HomeKept ==
  ASSUME TypeOK, Watch, NEW c \in Call
  PROVE  /\ pc[c] = "idle" /\ pc'[c] = "idle" => home'[c] = None
         /\ \A q \in Process : home'[c] = q =>
              /\ SettledAt(TargetOf[c], q)'
              /\ pc[c] # "idle" => home[c] = q
<1> DEFINE h == TargetOf[c]
<1>1. home'[c] = IF pc[c] = "idle" THEN (IF pc'[c] = "idle" THEN None ELSE Home(h)')
                 ELSE IF \E q \in Process : q = home[c] /\ SettledAt(h, q)' THEN home[c]
                 ELSE None
  BY DEF Watch
<1>2. \A q \in Process : q # None
  BY ForwardAssumption DEF ForwardAssumption
<1>3. \A q \in Process : Home(h)' = q => SettledAt(h, q)'
  <2>1. Home(h)' = IF \E q \in Process : SettledAt(h, q)'
                     THEN CHOOSE q \in Process : SettledAt(h, q)' ELSE None
    BY DEF Home
  <2> QED
    BY <2>1, <1>2
<1> QED
  BY <1>1, <1>2, <1>3

(* A call that a step does not touch, but perhaps ends with its process or *)
(* with the process it was forwarded to, keeps its part of the invariant.  *)
LEMMA Bystander ==
  ASSUME TypeOK, Watch, NEW c \in Call, CallInv(c),
         pc'[c] = pc[c] \/ (pc[c] # "idle" /\ pc'[c] = "dead"),
         remote'[c].at = remote[c].at,
         remote'[c].reply = remote[c].reply,
         remote'[c].pc = remote[c].pc \/ (remote[c].pc # "none" /\ remote'[c].pc = "lost"),
         where'[c] = where[c], outcome'[c] = outcome[c], log'[c] = log[c],
         c \in failed' <=> c \in failed
  PROVE  CallInv(c)'
<1>1. OutcomeFits(c)'
  BY DEF CallInv, OutcomeFits
<1>2. HomeFits(c)'
  BY HomeKept DEF CallInv, HomeFits
<1>3. LogFits(c)'
  BY DEF CallInv, LogFits
<1> QED
  BY <1>1, <1>2, <1>3 DEF CallInv

LEMMA InitInv == Init => IInv
<1> SUFFICES ASSUME Init PROVE OneListens /\ \A c \in Call : CallInv(c)
  BY InitType DEF IInv
<1>1. OneListens
  BY DEF Init, OneListens, Serving
<1>2. ASSUME NEW c \in Call PROVE CallInv(c)
  BY ForwardAssumption DEF Init, CallInv, OutcomeFits, HomeFits, LogFits, ForwardAssumption
<1> QED
  BY <1>1, <1>2

(* A process that listens is the only one with its id; no other step makes *)
(* one listen.                                                             *)
LEMMA ProcessInv ==
  ASSUME IInv, Watch, TypeOK', NEW p \in Process,
         \/ Start(p) \/ StartFails(p) \/ Listen(p) \/ Crash(p)
         \/ Heartbeat(p) \/ Stop(p) \/ Deregister(p) \/ Exit(p)
  PROVE  IInv'
<1>1. OneListens'
  <2>1. CASE Listen(p)
    BY <2>1 DEF Listen, Turns, IInv, TypeOK, OneListens, Serving
  <2>2. CASE ~ Listen(p)
    <3>1. \A q \in Process : Serving(q)' => Serving(q)
      BY <2>2 DEF Start, StartFails, Crash, Exit, Ends, Heartbeat, Stop, Deregister, Turns,
                  IInv, TypeOK, Serving
    <3> QED
      BY <3>1 DEF IInv, OneListens
  <2> QED
    BY <2>1, <2>2
<1>2. ASSUME NEW c \in Call PROVE CallInv(c)'
  <2>1. CASE Ends(p)
    <3>1. pc'[c] = pc[c] \/ (pc[c] # "idle" /\ pc'[c] = "dead")
      BY <2>1 DEF Ends, Active, IInv, TypeOK
    <3>2. /\ remote'[c].at = remote[c].at
          /\ remote'[c].reply = remote[c].reply
          /\ remote'[c].pc = remote[c].pc \/ (remote[c].pc # "none" /\ remote'[c].pc = "lost")
      <4>1. remote[c].pc = "none" => remote[c].at # p
        BY ForwardAssumption DEF IInv, CallInv, OutcomeFits, ForwardAssumption
      <4>2. remote'[c] = IF remote[c].at = p /\ remote[c].pc # "replied"
                           THEN [remote[c] EXCEPT !.pc = "lost"] ELSE remote[c]
        BY <2>1 DEF Ends
      <4>3. remote[c] \in [at : Process \union {None},
                           pc : {"none", "arrived", "sending", "sent", "replied", "lost"},
                           reply : Replies]
        BY DEF IInv, TypeOK
      <4> QED
        BY <4>1, <4>2, <4>3
    <3> QED
      BY <2>1, <3>1, <3>2, Bystander DEF Ends, IInv
  <2>2. CASE ~ Ends(p)
    <3>1. UNCHANGED <<callVars, remote, log, failed>>
      BY <2>2 DEF Start, StartFails, Listen, Crash, Exit, Heartbeat, Stop, Deregister
    <3> QED
      BY <3>1, Bystander DEF IInv, callVars
  <2> QED
    BY <2>1, <2>2
<1> QED
  BY <1>1, <1>2 DEF IInv

LEMMA TunnelInv ==
  ASSUME IInv, Watch, TypeOK', NEW s \in Stream,
         \/ Dial(s) \/ Break(s) \/ Persist(s) \/ PersistFails(s) \/ Register(s) \/ Close(s)
  PROVE  IInv'
<1>1. UNCHANGED <<processVars, callVars, remote, log, failed>>
  BY DEF Dial, Break, Persist, PersistFails, Register, Close
<1>2. OneListens'
  BY <1>1 DEF processVars, IInv, OneListens, Serving
<1>3. ASSUME NEW c \in Call PROVE CallInv(c)'
  BY <1>1, Bystander DEF IInv, callVars
<1> QED
  BY <1>2, <1>3 DEF IInv

(* A step of c that leaves processes and tunnels alone. *)
LEMMA OnlyOne ==
  ASSUME IInv, Watch, TypeOK', NEW c \in Call,
         UNCHANGED <<processVars, tunnelVars>>,
         \A d \in Call \ {c} :
           /\ pc'[d] = pc[d] /\ remote'[d] = remote[d] /\ where'[d] = where[d]
           /\ outcome'[d] = outcome[d] /\ log'[d] = log[d]
           /\ d \in failed' <=> d \in failed,
         CallInv(c)'
  PROVE  IInv'
<1>1. OneListens'
  BY DEF processVars, IInv, OneListens, Serving
<1>2. ASSUME NEW d \in Call \ {c} PROVE CallInv(d)'
  BY Bystander DEF IInv
<1> QED
  BY <1>1, <1>2 DEF IInv

(* Rows and histories of other calls are left alone; if c's statement      *)
(* succeeds its row is new.                                                *)
LEMMA LoggedOne ==
  ASSUME TypeOK, NEW c \in Call, NEW new, Logged(c, new)
  PROVE  /\ \A d \in Call \ {c} : log'[d] = log[d] /\ (d \in failed' <=> d \in failed)
         /\ c \in failed => c \in failed'
         /\ c \notin failed' => log'[c] = new
BY DEF Logged, Writes, Fails, TypeOK

(* A statement of the handler elsewhere may also do nothing. *)
LEMMA RemoteLoggedOne ==
  ASSUME TypeOK, NEW c \in Call, NEW new, RemoteLogged(c, new)
  PROVE  /\ \A d \in Call \ {c} : log'[d] = log[d] /\ (d \in failed' <=> d \in failed)
         /\ c \in failed => c \in failed'
         /\ c \notin failed' => log'[c] \in {new, log[c]}
BY LoggedOne DEF RemoteLogged

(* The question: a call begins. *)
LEMMA BeginInv ==
  ASSUME IInv, Watch, TypeOK', NEW c \in Call,
         FindLocal(c) \/ RefuseOffline(c) \/ Miss(c)
  PROVE  IInv'
<1>1. /\ UNCHANGED <<processVars, tunnelVars, where, remote>>
      /\ pc[c] = "idle" /\ Serving(OriginOf[c])
      /\ pc' \in {[pc EXCEPT ![c] = "sending"], [pc EXCEPT ![c] = "missed"],
                  [pc EXCEPT ![c] = "done"]}
  BY DEF FindLocal, RefuseOffline, Miss, Asked, Goes
<1>2. /\ \A d \in Call \ {c} : outcome'[d] = outcome[d] /\ log'[d] = log[d]
                                 /\ (d \in failed' <=> d \in failed)
      /\ outcome'[c] = "none" \/ (outcome'[c] = "refused" /\ pc'[c] = "done")
      /\ pc'[c] = "done" => outcome'[c] = "refused"
      /\ outcome'[c] # "refused" /\ c \notin failed' => log'[c] # "none"
  <2>1. Inserted(c) # "none"
    BY DEF Inserted
  <2>2. outcome[c] = "none"
    BY <1>1 DEF IInv, CallInv, OutcomeFits
  <2>3. CASE FindLocal(c) \/ Miss(c)
    BY <2>1, <2>2, <2>3, LoggedOne DEF FindLocal, Miss, Goes, IInv, TypeOK
  <2>4. CASE RefuseOffline(c)
    BY <2>2, <2>4 DEF RefuseOffline, Goes, IInv, TypeOK
  <2> QED
    BY <2>3, <2>4
<1>3. pc'[c] \in {"sending", "missed", "done"}
  BY <1>1 DEF IInv, TypeOK
<1>4. OutcomeFits(c)'
  BY <1>1, <1>2, <1>3 DEF IInv, CallInv, OutcomeFits
<1>5. HomeFits(c)'
  <2>1. ASSUME NEW q \in Process, home'[c] = q
        PROVE  SettledAt(TargetOf[c], q)'
    BY <2>1, HomeKept DEF IInv
  <2>2. ASSUME NEW q \in Process, home'[c] = q, pc'[c] = "missed"
        PROVE  Id[q] # Id[OriginOf[c]]
    <3>1. reg[OriginOf[c]][TargetOf[c]] = None
      BY <1>1, <2>2 DEF FindLocal, RefuseOffline, Miss, Known, Goes, IInv, TypeOK
    <3>2. Serving(q) /\ reg[q][TargetOf[c]] # None
      BY <1>1, <2>1, <2>2 DEF SettledAt, Serving, processVars, tunnelVars
    <3> QED
      BY <1>1, <3>1, <3>2, ForwardAssumption DEF IInv, OneListens, ForwardAssumption
  <2>3. remote'[c].pc = "none"
    BY <1>1 DEF IInv, CallInv, OutcomeFits
  <2> QED
    BY <1>2, <1>3, <2>1, <2>2, <2>3 DEF HomeFits
<1>6. LogFits(c)'
  BY <1>2, <1>3 DEF LogFits
<1>7. \A d \in Call \ {c} : pc'[d] = pc[d] /\ remote'[d] = remote[d] /\ where'[d] = where[d]
  BY <1>1 DEF IInv, TypeOK
<1> QED
  BY <1>1, <1>2, <1>4, <1>5, <1>6, <1>7, OnlyOne DEF CallInv

(* What is common to the steps of ForwardIfNeeded and Send that move a     *)
(* call to a new place: its home, if it keeps one, was its home before.    *)
LEMMA HomeBefore ==
  ASSUME IInv, Watch, NEW c \in Call, pc[c] # "idle", NEW q \in Process, home'[c] = q
  PROVE  /\ home[c] = q
         /\ SettledAt(TargetOf[c], q)'
         /\ SettledAt(TargetOf[c], q)
         /\ pc[c] \in {"missed", "located", "addressed"} => Id[q] # Id[OriginOf[c]]
         /\ pc[c] \in {"located", "addressed"} => where[c] = Id[q]
         /\ remote[c].pc # "none" => remote[c].at = q /\ remote[c].reply # "missing"
         /\ c \in failed \/ outcome[c] \notin {"notfound", "unaddressed", "missing"}
<1>1. home[c] = q /\ SettledAt(TargetOf[c], q)'
  BY HomeKept DEF IInv
<1> QED
  BY <1>1 DEF IInv, CallInv, HomeFits

(* A call goes on at its origin. *)
LEMMA ProceedsInv ==
  ASSUME IInv, Watch, TypeOK', NEW c \in Call, Proceeds(c)
  PROVE  IInv'
<1>1. /\ UNCHANGED <<processVars, tunnelVars>>
      /\ \A d \in Call \ {c} :
           /\ pc'[d] = pc[d] /\ remote'[d] = remote[d] /\ where'[d] = where[d]
           /\ outcome'[d] = outcome[d] /\ log'[d] = log[d]
           /\ d \in failed' <=> d \in failed
  <2>1. CASE Complete(c)
    BY <2>1, LoggedOne DEF Complete, Goes, IInv, TypeOK
  <2>2. CASE ~ Complete(c)
    BY <2>2 DEF Proceeds, SendReturns, ReadRow, ReadRowFails, ReadAddress, ReadAddressFails,
                Post, PostFails, ReceiveReply, Returns, Goes, Fails, IInv, TypeOK
  <2> QED
    BY <2>1, <2>2
<1>2. pc[c] \in {"missed", "located", "addressed", "posted", "sending", "returned"}
  BY DEF Proceeds, SendReturns, Complete, ReadRow, ReadRowFails, ReadAddress,
         ReadAddressFails, Post, PostFails, ReceiveReply, Returns, Goes
<1>3. OutcomeFits(c) /\ HomeFits(c) /\ LogFits(c)
  BY DEF IInv, CallInv
<1>4. \A q \in Process : home'[c] = q =>
        /\ SettledAt(TargetOf[c], q) /\ SettledAt(TargetOf[c], q)'
        /\ pc[c] \in {"missed", "located", "addressed"} => Id[q] # Id[OriginOf[c]]
        /\ pc[c] \in {"located", "addressed"} => where[c] = Id[q]
        /\ remote[c].pc # "none" => remote[c].at = q /\ remote[c].reply # "missing"
        /\ c \in failed \/ outcome[c] \notin {"notfound", "unaddressed", "missing"}
  BY <1>2, HomeBefore
<1>5. CASE SendReturns(c)
  <2>1. /\ pc[c] = "sending" /\ pc'[c] = "returned" /\ outcome'[c] \in {"result", "failed"}
        /\ UNCHANGED <<where, remote, log, failed>>
    BY <1>5 DEF SendReturns, Returns, Goes, IInv, TypeOK
  <2>2. OutcomeFits(c)' /\ LogFits(c)'
    BY <1>3, <2>1 DEF OutcomeFits, LogFits
  <2>3. HomeFits(c)'
    BY <1>4, <2>1 DEF HomeFits
  <2> QED
    BY <1>1, <2>2, <2>3, OnlyOne DEF CallInv
<1>6. CASE Complete(c)
  <2>1. /\ pc[c] = "returned" /\ pc'[c] = "done"
        /\ UNCHANGED <<where, outcome, remote>>
        /\ c \in failed => c \in failed'
        /\ c \notin failed' => log'[c] = Completed(c, Record(outcome[c]))
    BY <1>6, LoggedOne DEF Complete, Goes, IInv, TypeOK
  <2>2. OutcomeFits(c)'
    BY <1>3, <2>1 DEF OutcomeFits
  <2>3. LogFits(c)'
    BY <1>3, <2>1 DEF LogFits, Completed, Record
  <2>4. HomeFits(c)'
    BY <1>4, <2>1 DEF HomeFits
  <2> QED
    BY <1>1, <2>2, <2>3, <2>4, OnlyOne DEF CallInv
<1>7. CASE ReadRow(c)
  <2>1. /\ pc[c] = "missed" /\ UNCHANGED <<remote, log, failed>>
        /\ \/ /\ agentRow[TargetOf[c]] \in {None, Id[OriginOf[c]]}
              /\ pc'[c] = "returned" /\ outcome'[c] = "notfound"
           \/ /\ pc'[c] = "located" /\ where'[c] = agentRow[TargetOf[c]]
              /\ outcome'[c] = outcome[c]
    BY <1>7 DEF ReadRow, Returns, Goes, IInv, TypeOK
  <2>2. OutcomeFits(c)' /\ LogFits(c)'
    BY <1>3, <2>1 DEF OutcomeFits, LogFits
  <2>3. \A q \in Process : home'[c] = q => agentRow[TargetOf[c]] = Id[q]
                                         /\ Id[q] \notin {None, Id[OriginOf[c]]}
    BY <1>4, <2>1, ForwardAssumption DEF SettledAt, ForwardAssumption
  <2>4. HomeFits(c)'
    BY <1>4, <2>1, <2>3 DEF HomeFits
  <2> QED
    BY <1>1, <2>2, <2>4, OnlyOne DEF CallInv
<1>8. CASE ReadRowFails(c) \/ PostFails(c)
  <2>1. /\ pc[c] \in {"missed", "addressed", "posted"}
        /\ pc'[c] = "returned" /\ outcome'[c] = "failed"
        /\ UNCHANGED <<where, remote, log>>
        /\ c \in failed => c \in failed'
    BY <1>8 DEF ReadRowFails, PostFails, Returns, Goes, Fails, IInv, TypeOK
  <2>2. OutcomeFits(c)' /\ LogFits(c)'
    BY <1>3, <2>1 DEF OutcomeFits, LogFits
  <2>3. HomeFits(c)'
    BY <1>4, <2>1 DEF HomeFits
  <2> QED
    BY <1>1, <2>2, <2>3, OnlyOne DEF CallInv
<1>9. CASE ReadAddress(c)
  <2>1. /\ pc[c] = "located" /\ pc'[c] = "addressed"
        /\ UNCHANGED <<where, outcome, remote, log, failed>>
    BY <1>9 DEF ReadAddress, Goes, IInv, TypeOK
  <2>2. OutcomeFits(c)' /\ LogFits(c)'
    BY <1>3, <2>1 DEF OutcomeFits, LogFits
  <2>3. HomeFits(c)'
    BY <1>4, <2>1 DEF HomeFits
  <2> QED
    BY <1>1, <2>2, <2>3, OnlyOne DEF CallInv
<1>10. CASE ReadAddressFails(c)
  <2>1. /\ pc[c] = "located" /\ pc'[c] = "returned" /\ outcome'[c] = "unaddressed"
        /\ UNCHANGED <<where, remote, log>>
        /\ c \in failed' \/ where[c] \notin centerRow
        /\ c \in failed => c \in failed'
    BY <1>10 DEF ReadAddressFails, Returns, Goes, Fails, IInv, TypeOK
  <2>2. OutcomeFits(c)' /\ LogFits(c)'
    BY <1>3, <2>1 DEF OutcomeFits, LogFits
  <2>3. HomeFits(c)'
    BY <1>4, <2>1 DEF HomeFits, SettledAt
  <2> QED
    BY <1>1, <2>2, <2>3, OnlyOne DEF CallInv
<1>11. CASE \E r \in Process : Post(c, r)
  <2>1. PICK r \in Process : Post(c, r)
    BY <1>11
  <2>2. /\ pc[c] = "addressed" /\ pc'[c] = "posted" /\ Serving(r) /\ Id[r] = where[c]
        /\ remote'[c] = [at |-> r, pc |-> "arrived", reply |-> "none"]
        /\ UNCHANGED <<where, outcome, log, failed>>
    BY <2>1 DEF Post, Goes, IInv, TypeOK
  <2>3. OutcomeFits(c)' /\ LogFits(c)'
    BY <1>3, <2>2 DEF OutcomeFits, LogFits
  <2>4. \A q \in Process : home'[c] = q => r = q
    BY <1>4, <2>2 DEF SettledAt, IInv, OneListens
  <2>5. HomeFits(c)'
    BY <1>4, <2>2, <2>4 DEF HomeFits
  <2> QED
    BY <1>1, <2>3, <2>5, OnlyOne DEF CallInv
<1>12. CASE ReceiveReply(c)
  <2>1. /\ pc[c] = "posted" /\ remote[c].pc = "replied"
        /\ pc'[c] = "returned" /\ outcome'[c] = remote[c].reply
        /\ UNCHANGED <<where, remote, log, failed>>
    BY <1>12 DEF ReceiveReply, Returns, Goes, IInv, TypeOK
  <2>2. remote[c].reply \in {"none", "missing", "failed", "result"}
    BY DEF IInv, TypeOK, Replies
  <2>3. OutcomeFits(c)' /\ LogFits(c)'
    BY <1>3, <2>1, <2>2 DEF OutcomeFits, LogFits
  <2>4. HomeFits(c)'
    BY <1>4, <2>1, <2>2 DEF HomeFits
  <2> QED
    BY <1>1, <2>3, <2>4, OnlyOne DEF CallInv
<1> QED
  BY <1>5, <1>6, <1>7, <1>8, <1>9, <1>10, <1>11, <1>12 DEF Proceeds

(* The handler of a center that was asked: where the agent is settled its  *)
(* record is there, and a row that is closed stays closed.                 *)
LEMMA RemoteInv ==
  ASSUME IInv, Watch, TypeOK', NEW c \in Call,
         RemoteMiss(c) \/ RemoteFind(c) \/ RemoteSent(c) \/ RemoteComplete(c)
  PROVE  IInv'
<1>1. UNCHANGED <<processVars, tunnelVars, callVars>>
  BY DEF RemoteMiss, RemoteFind, RemoteSent, RemoteComplete
<1>2. OutcomeFits(c) /\ HomeFits(c) /\ LogFits(c)
  BY DEF IInv, CallInv
<1>3. /\ remote[c].pc \in {"arrived", "sending", "sent"}
      /\ remote'[c].pc \in {"sending", "sent", "replied"}
      /\ remote'[c].at = remote[c].at
      /\ \A d \in Call \ {c} : remote'[d] = remote[d]
  BY DEF RemoteMiss, RemoteFind, RemoteSent, RemoteComplete, Handles, IInv, TypeOK
<1>4. /\ \A d \in Call \ {c} : log'[d] = log[d] /\ (d \in failed' <=> d \in failed)
      /\ c \in failed => c \in failed'
      /\ c \notin failed' /\ log[c] # "none" =>
           log'[c] = log[c] \/ log'[c] \in {"result", "blank", "error"}
  <2>1. CASE RemoteMiss(c) \/ RemoteSent(c)
    BY <2>1 DEF RemoteMiss, RemoteSent
  <2>2. CASE RemoteFind(c)
    BY <2>2, RemoteLoggedOne DEF RemoteFind, Inserted, IInv
  <2>3. CASE RemoteComplete(c)
    BY <2>3, RemoteLoggedOne, RowValues DEF RemoteComplete, Completed, IInv
  <2> QED
    BY <2>1, <2>2, <2>3
<1>5. pc[c] # "idle" /\ outcome[c] # "result"
  BY <1>2, <1>3 DEF OutcomeFits
<1>6. OutcomeFits(c)'
  BY <1>1, <1>2, <1>3, <1>5 DEF OutcomeFits, callVars
<1>7. LogFits(c)'
  BY <1>1, <1>2, <1>4, <1>5 DEF LogFits, callVars
<1>8. HomeFits(c)'
  <2>1. ASSUME NEW q \in Process, home'[c] = q
        PROVE  /\ SettledAt(TargetOf[c], q)' /\ SettledAt(TargetOf[c], q)
               /\ remote[c].at = q /\ remote[c].reply # "missing"
               /\ pc[c] \in {"missed", "located", "addressed"} => Id[q] # Id[OriginOf[c]]
               /\ pc[c] \in {"located", "addressed"} => where[c] = Id[q]
               /\ c \in failed \/ outcome[c] \notin {"notfound", "unaddressed", "missing"}
    BY <1>3, <1>5, <2>1, HomeBefore
  <2>2. ASSUME NEW q \in Process, home'[c] = q
        PROVE  remote'[c].reply # "missing"
    <3>1. ~ RemoteMiss(c)
      BY <2>1, <2>2 DEF RemoteMiss, Known, SettledAt
    <3> QED
      BY <2>1, <2>2, <3>1 DEF RemoteFind, RemoteSent, RemoteComplete, Handles, IInv, TypeOK
  <2> QED
    BY <1>1, <1>3, <1>4, <1>5, <2>1, <2>2 DEF HomeFits, callVars
<1>9. \A d \in Call \ {c} : pc'[d] = pc[d] /\ where'[d] = where[d] /\ outcome'[d] = outcome[d]
  BY <1>1 DEF callVars
<1> QED
  BY <1>1, <1>3, <1>4, <1>6, <1>7, <1>8, <1>9, OnlyOne DEF CallInv

(* Every step keeps the invariant. *)
LEMMA NextInv == IInv /\ [Next]_vars => IInv'
<1> SUFFICES ASSUME IInv, [Next]_vars PROVE IInv'
  OBVIOUS
<1>1. TypeOK'
  BY NextType DEF IInv
<1>2. CASE Next
  <2>1. Watch /\ Step
    BY <1>2 DEF Next
  <2>2. CASE ProcessStep
    BY <1>1, <2>1, <2>2, ProcessInv DEF ProcessStep
  <2>3. CASE TunnelStep
    BY <1>1, <2>1, <2>3, TunnelInv DEF TunnelStep
  <2>4. CASE CallStep
    BY <1>1, <2>1, <2>4, BeginInv, ProceedsInv DEF CallStep
  <2>5. CASE RemoteStep
    BY <1>1, <2>1, <2>5, RemoteInv DEF RemoteStep
  <2>6. CASE Quiet
    <3>1. UNCHANGED <<processVars, tunnelVars, callVars, remote, log, failed>>
      BY <2>6 DEF Quiet
    <3>2. OneListens'
      BY <3>1 DEF processVars, IInv, OneListens, Serving
    <3>3. ASSUME NEW c \in Call PROVE CallInv(c)'
      BY <2>1, <3>1, Bystander DEF IInv, callVars
    <3> QED
      BY <1>1, <3>2, <3>3 DEF IInv
  <2> QED
    BY <2>1, <2>2, <2>3, <2>4, <2>5, <2>6 DEF Step
<1>3. CASE UNCHANGED vars
  <2>1. OneListens'
    BY <1>3 DEF vars, processVars, IInv, OneListens, Serving
  <2>2. ASSUME NEW c \in Call PROVE CallInv(c)'
    BY <1>3 DEF vars, processVars, tunnelVars, callVars, IInv, CallInv, OutcomeFits,
                HomeFits, LogFits, SettledAt, Serving
  <2> QED
    BY <1>1, <2>1, <2>2 DEF IInv
<1> QED
  BY <1>2, <1>3

(* The invariant holds in every behaviour of the centers. *)
THEOREM Invariance == Spec => []IInv
BY InitInv, NextInv, PTL DEF Spec

(* An agent that stays settled at one center is never answered as unknown  *)
(* by the center that was asked or by the one that was asked for help      *)
(* (ha/router_bridge.go, makeInternalForwardHandler), unless a statement   *)
(* failed.                                                                 *)
THEOREM SettledIsFound == Spec => []NotFoundMeansMoved
<1>1. IInv => NotFoundMeansMoved
  BY DEF IInv, CallInv, HomeFits, TypeOK, NotFoundMeansMoved
<1> QED
  BY <1>1, Invariance, PTL

(* When a call returns, its row is completed, with the result if it had    *)
(* one, though two centers write it (invokeToolWithRequest and the forward *)
(* handler of run.go), unless a statement failed.                          *)
THEOREM ReturnLogged == Spec => []ReturnIsLogged
<1>1. IInv => ReturnIsLogged
  BY DEF IInv, CallInv, LogFits, ReturnIsLogged
<1> QED
  BY <1>1, Invariance, PTL

=============================================================================
