-------------------------- MODULE HypervisorProofs --------------------------
(***************************************************************************)
(* Hypervisor.Start, whatever the backends, the leftovers, the THP probe   *)
(* and the limit of pings: the order of its clean-up, what a nil return    *)
(* means, that nothing is left behind, and that it implements NodeLife.    *)
(***************************************************************************)
EXTENDS Hypervisor, SequenceTheorems, TLAPS

USE HypervisorAssumption

----------------------------------------------------------------------------
(* The inductive invariant *)

Anc == {"anc", "ancpasst", "ancmon", "ancrec", "ancdrain", "ancclean"}
Imm == {"imm", "immwait", "immblock"}
Graceful == {"grace", "power", "gracewait", "graceres"}
Over == {"return", "done"}
BeforeVm == {"prepare", "launch", "ping", "pingwait", "sock", "started", "hang", "create", "retry"}

\* stopAncillaries is about to run for the last time: Start returns after it.
LastAnc == pc \in Anc /\ todo = <<"return">>

\* Where each closure returns to.
StackInv ==
  /\ pc \in Anc => todo \in {<<"return">>, <<"imm", "return">>, <<"imm", "anc", "return">>}
  /\ pc \in Imm => todo \in {<<"return">>, <<"anc", "return">>}
  /\ pc \in Graceful => todo = <<"anc", "return">>
  /\ pc \in Over \cup BeforeVm \cup {"booting", "booted"} => todo = <<>>

\* vm.create is sent once, and once more after a retry.
CreatesInv == /\ pc \in BeforeVm \ {"retry"} => creates = 0
              /\ pc = "retry" => creates <= 1

FlowInv == TypeOK /\ StackInv /\ CreatesInv

\* Where a child and its files are while its goroutine is in invoke.
ChildOf(h) ==
  /\ g[h] \in {"idle", "spawn"} => proc[h] = "none"
  /\ g[h] \in {"report", "pidfile", "pidfail", "wait"} => proc[h] \in {"alive", "exited"}
  /\ g[h] \in {"clean", "finish"} => proc[h] = "reaped"
  /\ g[h] \in {"fail", "end"} => proc[h] \in {"none", "reaped"}
  /\ g[h] \in {"idle", "spawn", "report"} => started[h] = "open"
  /\ g[h] \in {"pidfile", "pidfail", "wait", "clean", "finish"} => started[h] = "sent"
  /\ pidf[h] = "own" => g[h] \in {"wait", "clean"}
  /\ res[h] = "open" <=> g[h] # "end"
  /\ res[h] = "ok" => status[h] = "ok"
  /\ ~Used(h) => g[h] = "idle"
ChildInv == \A h \in Children : ChildOf(h)

\* The sockets are served by the children; both children are launched at once.
ServedInv ==
  /\ api => Alive("ch")
  /\ sock = "live" => Alive("passt")
  /\ pc \in {"prepare", "launch"} => g["ch"] = "idle"
  /\ g["ch"] = "idle" => /\ pc \in {"prepare", "launch"} \cup Over
                         /\ rec = "off" /\ mon = "off"
  /\ g["ch"] = "idle" => g["passt"] = "idle"
  /\ UsesPasst /\ g["passt"] = "idle" => g["ch"] = "idle"

\* Start ends after the result of cloud-hypervisor, which comes from its goroutine.
ResultInv ==
  /\ seen["ch"] => g["ch"] = "end"
  /\ LastAnc => seen["ch"]
  /\ pc \in Over => seen["ch"] \/ g["ch"] = "idle"

\* The services come with the VM, and end after stopAncillaries cancelled them.
ServiceInv ==
  /\ pc \in BeforeVm => rec = "off" /\ mon = "off"
  /\ rec = "closed" => ancDone
  /\ pc \notin Anc \cup Imm \cup Over => ~cancel["passt"] /\ ~ancDone
  /\ pc \in {"ancrec", "ancdrain", "ancclean"} => mon # "running"
  /\ pc \in {"ancdrain", "ancclean"} => rec # "running"

\* A guest that powers off was asked to, and a start that ends has a reason.
NilInv ==
  /\ pc \in BeforeVm \cup {"booting", "booted"} => vm \notin {"stopping", "off"}
  /\ \/ pc \in BeforeVm \cup {"booting", "booted"}
     \/ failed \/ parentDone
     \/ /\ LastAnc \/ pc \in Over
        /\ seen["ch"] /\ status["ch"] = "ok" /\ vm \notin {"stopping", "off"}

StartInv == FlowInv /\ ChildInv /\ ServedInv /\ ResultInv /\ ServiceInv /\ NilInv

\* passt is gone, or was killed and only has to be reaped.
PasstOver == g["passt"] \in {"wait", "clean", "finish", "end"} /\ ~Alive("passt")

Cleaned ==
  /\ rec # "running" /\ mon # "running"
  /\ UsesPasst => PasstOver /\ sock = "none" /\ pidf["passt"] = "none"

\* What stopAncillaries leaves, and every return path went through it.
CleanInv ==
  /\ UsesPasst /\ seen["passt"] => PasstOver
  /\ UsesPasst /\ pc = "ancclean" => PasstOver
  /\ pc \in Imm => Cleaned
  /\ pc \in Over /\ g["ch"] # "idle" => Cleaned

\* With passt, cloud-hypervisor was reported before its API answered.
ReportInv ==
  /\ UsesPasst /\ api => started["ch"] = "sent"
  /\ UsesPasst /\ pc \in {"sock", "started"} => started["ch"] = "sent"
  /\ UsesPasst => pc # "hang"

LeakInv == CleanInv /\ ReportInv


----------------------------------------------------------------------------
(* The stack of the closures *)

\* Popping and pushing on the stacks that occur.
LEMMA Pops ==
  /\ Head(<<"return">>) = "return" /\ Tail(<<"return">>) = <<>>
  /\ Head(<<"imm", "return">>) = "imm" /\ Tail(<<"imm", "return">>) = <<"return">>
  /\ Head(<<"anc", "return">>) = "anc" /\ Tail(<<"anc", "return">>) = <<"return">>
  /\ Head(<<"imm", "anc", "return">>) = "imm"
  /\ Tail(<<"imm", "anc", "return">>) = <<"anc", "return">>
  OBVIOUS

LEMMA Push == <<"imm">> \o <<"anc", "return">> = <<"imm", "anc", "return">>
<1> DEFINE s == <<"imm">>
           t == <<"anc", "return">>
           u == <<"imm", "anc", "return">>
           S == {"imm", "anc", "return"}
<1>1. s \in Seq(S) /\ t \in Seq(S) /\ u \in Seq(S)
  OBVIOUS
<1>2. Len(s) = 1 /\ Len(t) = 2 /\ Len(u) = 3
  OBVIOUS
<1>3. /\ s \o t \in Seq(S) /\ Len(s \o t) = Len(s) + Len(t)
      /\ \A i \in 1 .. Len(s) + Len(t) :
            (s \o t)[i] = IF i <= Len(s) THEN s[i] ELSE t[i - Len(s)]
  <2> HIDE DEF s, t, u, S
  <2> QED
    BY <1>1, ConcatProperties, Zenon
<1>4. \A i \in 1 .. 3 : (s \o t)[i] = u[i]
  <2>1. u[1] = s[1] /\ u[2] = t[1] /\ u[3] = t[2]
    OBVIOUS
  <2> HIDE DEF s, t, u, S
  <2> QED
    BY <1>2, <1>3, <2>1
<1> HIDE DEF s, t, u, S
<1>5. s \o t = u
  BY <1>1, <1>2, <1>3, <1>4, SeqEqual
<1> QED
  BY <1>5 DEF s, t, u

LEMMA StacksDiffer ==
  /\ <<"return">> # <<"imm", "return">> /\ <<"return">> # <<"anc", "return">>
  /\ <<"return">> # <<"imm", "anc", "return">>
  /\ <<>> # <<"return">>
  OBVIOUS

LEMMA StackTypes ==
  /\ <<>> \in Seq(MainPCs) /\ <<"return">> \in Seq(MainPCs)
  /\ <<"imm", "return">> \in Seq(MainPCs) /\ <<"anc", "return">> \in Seq(MainPCs)
  /\ <<"imm", "anc", "return">> \in Seq(MainPCs)
<1>1. \A a, b, c \in MainPCs : /\ <<>> \in Seq(MainPCs) /\ <<a>> \in Seq(MainPCs)
                              /\ <<a, b>> \in Seq(MainPCs) /\ <<a, b, c>> \in Seq(MainPCs)
  OBVIOUS
<1>2. "return" \in MainPCs /\ "imm" \in MainPCs /\ "anc" \in MainPCs
  BY DEF MainPCs
<1> QED
  BY <1>1, <1>2

----------------------------------------------------------------------------
(* The main goroutine: types, and where it returns to *)

FlowVars == <<pc, todo, creates>>

LEMMA StackPCs ==
  ASSUME StackInv, pc \in MainPCs
  PROVE  todo \in Seq(MainPCs)
  BY StackTypes DEF StackInv, MainPCs, Anc, Imm, Graceful, Over, BeforeVm

LEMMA FlowInit == Init => FlowInv
<1> SUFFICES ASSUME Init PROVE FlowInv
  OBVIOUS
<1> USE DEF Init
<1>1. StackInv /\ CreatesInv
  BY DEF StackInv, CreatesInv, Anc, Imm, Graceful, Over, BeforeVm
<1>2. todo \in Seq(MainPCs) /\ pc \in MainPCs
  BY StackTypes DEF MainPCs
<1>3. pidf \in [Children -> {"none", "stale", "own"}] /\ sock \in {"none", "dead", "live"}
  OBVIOUS
<1>4. seen \in [Children -> BOOLEAN]
  BY DEF Used, UsesPasst
<1>5. tries \in 0 .. PingLimit - 1 /\ creates \in 0 .. 2
  OBVIOUS
<1> QED
  BY <1>1, <1>2, <1>3, <1>4, <1>5 DEF FlowInv, TypeOK

LEMMA FlowStep ==
  ASSUME FlowInv, Next
  PROVE  StackInv' /\ CreatesInv' /\ pc' \in MainPCs
<1> USE DEF FlowInv, StackInv, CreatesInv, Anc, Imm, Graceful, Over, BeforeVm, MainPCs
<1>0. CASE UNCHANGED FlowVars
  BY <1>0 DEF TypeOK, FlowVars
<1>1. CASE Prepare \/ Launch
  BY <1>1 DEF Prepare, Launch, Goto, TypeOK
<1>2. CASE PingOk \/ PingFails \/ PingWait
  BY <1>2 DEF PingOk, PingFails, PingWait, PingsEnd, NotReady, StopNow, Goto, TypeOK
<1>3. CASE SockOk \/ SockFails \/ Started \/ Hang
  BY <1>3 DEF SockOk, SockFails, Started, Hang, NotReady, StopNow, Goto, TypeOK
<1>4. CASE CreateOk
  BY <1>4 DEF CreateOk, Goto, TypeOK
<1>11. CASE CreateFails
  <2>1. /\ pc \in {"create", "retry"} /\ creates' = creates + 1
        /\ \/ pc' = "grace" /\ todo' = <<"anc", "return">>
           \/ pc' = "anc" /\ todo' = <<"imm", "return">>
           \/ pc = "create" /\ pc' = "retry" /\ todo' = todo
    BY <1>11 DEF CreateFails, GracefulShutdown, StopNow, Goto
  <2> QED
    BY <2>1 DEF TypeOK
<1>5. CASE BootSucceeded \/ BootFailed \/ OnParentDone \/ OnHypervisorExit \/ OnPasstExit
  BY <1>5 DEF BootSucceeded, BootFailed, OnParentDone, OnHypervisorExit, OnPasstExit,
              Supervising, GracefulShutdown, StopNow, Goto, TypeOK
<1>6. CASE Grace \/ PowerButton \/ GraceWait
  BY <1>6, Pops, Push DEF Grace, PowerButton, GraceWait, Goto, Return, TypeOK
<1>7. CASE HypervisorResult \/ Immediate \/ ImmediateWait
  BY <1>7, Pops DEF HypervisorResult, Immediate, ImmediateWait, Goto, Return, TypeOK
<1>8. CASE AncCancel \/ AncPasst \/ AncMonitor \/ AncRecoiler \/ AncDrain
  BY <1>8 DEF AncCancel, AncPasst, AncMonitor, AncRecoiler, AncDrain, Goto, TypeOK
<1>9. CASE AncClean \/ Returned
  BY <1>9, Pops DEF AncClean, Returned, Goto, Return, TypeOK
<1>10. CASE \/ \E h \in Children : InvokeStep(h) \/ ChildExits(h)
            \/ ParentCancel \/ ApiUp \/ SockUp \/ BootReturns \/ RecoilerCloses \/ MonitorEnds
            \/ Terminated
  BY <1>0, <1>10
  DEF FlowVars, mainVars, vars, InvokeStep, ChildExits, ParentCancel, ApiUp, SockUp, BootReturns,
      RecoilerCloses, MonitorEnds, Terminated, Spawn, Report, AcquirePidFile, PidFileFailed,
      Wait, CleanPidFile, Finish
<1> QED
  BY <1>1, <1>2, <1>3, <1>4, <1>5, <1>6, <1>7, <1>8, <1>9, <1>10, <1>11
  DEF Next, RequestStep, MainStep

LEMMA TypeStep ==
  ASSUME FlowInv, Next
  PROVE  TypeOK'
<1> USE DEF FlowInv, TypeOK
<1>1. pc' \in MainPCs /\ todo' \in Seq(MainPCs)
  BY FlowStep, StackTypes
  DEF StackInv, Anc, Imm, Graceful, Over, BeforeVm, MainPCs
<1>2. ASSUME NEW hs, NEW st \in {"ok", "err"}, Stop(hs, st)
      PROVE  /\ proc' \in [Children -> {"none", "alive", "exited", "reaped"}]
             /\ status' \in [Children -> {"ok", "err"}]
             /\ api' \in BOOLEAN
             /\ vm' \in {"none", "created", "booted", "stopping", "off"}
             /\ sock' \in {"none", "dead", "live"}
  BY <1>2 DEF Stop, Alive
<1>3. \A h \in Children : Receive(h) => seen' \in [Children -> BOOLEAN]
  BY DEF Receive
<1>4. \A h \in Children : Poll(h) => known' \in [Children -> BOOLEAN]
  BY DEF Poll, Reported
<1>5. ASSUME NEW when \in BOOLEAN, Fail(when) PROVE failed' \in BOOLEAN
  BY <1>5 DEF Fail
<1>6. ASSUME NotReady \/ (\E e \in BOOLEAN : StopNow(e) \/ GracefulShutdown(e))
      PROVE  failed' \in BOOLEAN
  BY <1>6, <1>5 DEF NotReady, StopNow, GracefulShutdown
<1>7. "ch" \in Children /\ "passt" \in Children
  BY DEF Children
<1> USE DEF mainVars, ctxVars, gVars, procVars
<1>10. CASE Prepare
  <2>1. failed' \in BOOLEAN
    BY <1>10, <1>5 DEF Prepare
  <2> QED
    BY <1>1, <1>10, <2>1 DEF Prepare
<1>11. CASE Launch
  <2>1. /\ g' \in [Children -> {"idle", "spawn", "report", "pidfile", "pidfail", "wait", "clean",
                                "finish", "fail", "end"}]
        /\ sock' \in {"none", "dead", "live"}
    BY <1>11 DEF Launch, Used, UsesPasst
  <2> QED
    BY <1>1, <1>11, <2>1 DEF Launch
<1>12. CASE PingOk \/ SockOk
  BY <1>1, <1>12 DEF PingOk, SockOk
<1>13. CASE PingFails \/ PingWait
  <2>1. seen' \in [Children -> BOOLEAN]
    BY <1>13, <1>3, <1>7 DEF PingFails, PingWait
  <2>2. tries' \in 0 .. PingLimit - 1
    BY <1>13 DEF PingFails, PingWait, PingsEnd
  <2>3. failed' \in BOOLEAN
    BY <1>13, <1>6 DEF PingFails, PingWait, PingsEnd
  <2> QED
    BY <1>1, <1>13, <2>1, <2>2, <2>3 DEF PingFails, PingWait
<1>14. CASE SockFails \/ Hang
  <2>1. seen' \in [Children -> BOOLEAN] /\ failed' \in BOOLEAN
    BY <1>14, <1>3, <1>5, <1>6, <1>7 DEF SockFails, Hang
  <2> QED
    <3>1. CASE SockFails
      BY <1>1, <2>1, <3>1 DEF SockFails
    <3>2. CASE Hang
      BY <1>1, <2>1, <3>2 DEF Hang
    <3> QED
      BY <1>14, <3>1, <3>2
<1>15. CASE Started
  <2>1. known' \in [Children -> BOOLEAN]
    BY <1>15 DEF Started, Reported
  <2>2. thp' \in {"undecided", "on", "off"}
    BY <1>15 DEF Started
  <2> QED
    BY <1>1, <1>15, <2>1, <2>2 DEF Started
<1>16. CASE CreateOk \/ CreateFails
  <2>1. creates' \in 0 .. 2
    <3>1. creates' = creates + 1 /\ pc \in {"create", "retry"}
      BY <1>16 DEF CreateOk, CreateFails
    <3> QED
      BY <3>1 DEF CreatesInv, BeforeVm
  <2>2. failed' \in BOOLEAN
    BY <1>16, <1>6 DEF CreateOk, CreateFails
  <2>3. /\ vm' \in {"none", "created", "booted", "stopping", "off"}
        /\ thp' \in {"undecided", "on", "off"}
    BY <1>16 DEF CreateOk, CreateFails
  <2>4. /\ rec' \in {"off", "running", "closed"} /\ mon' \in {"off", "running", "closed"}
        /\ boot' \in {"off", "running", "ok", "err", "taken"}
    BY <1>16 DEF CreateOk, CreateFails
  <2> QED
    <3>1. CASE CreateOk
      BY <1>1, <2>1, <2>2, <2>3, <2>4, <3>1 DEF CreateOk
    <3>2. CASE CreateFails
      <4>1. UNCHANGED <<tries, seen, known, ctxVars, gVars, proc, status, api, sock, termed>>
        BY <3>2 DEF CreateFails
      <4> QED
        BY <1>1, <2>1, <2>2, <2>3, <2>4, <4>1
    <3> QED
      BY <1>16, <3>1, <3>2
<1>17. CASE BootSucceeded \/ BootFailed \/ OnParentDone
  <2>1. failed' \in BOOLEAN
    BY <1>17, <1>6 DEF BootSucceeded, BootFailed, OnParentDone
  <2> QED
    <3>1. boot' \in {"off", "running", "ok", "err", "taken"}
      BY <1>17 DEF BootSucceeded, BootFailed, OnParentDone
    <3>2. UNCHANGED <<tries, thp, creates, seen, known, ctxVars, gVars, procVars, termed, rec, mon>>
      BY <1>17 DEF BootSucceeded, BootFailed, OnParentDone
    <3> QED
      BY <1>1, <2>1, <3>1, <3>2
<1>18. CASE OnHypervisorExit \/ OnPasstExit
  <2>1. seen' \in [Children -> BOOLEAN] /\ failed' \in BOOLEAN
    BY <1>18, <1>3, <1>5, <1>6, <1>7 DEF OnHypervisorExit, OnPasstExit
  <2> QED
    <3>1. UNCHANGED <<tries, thp, creates, known, ctxVars, gVars, procVars, termed, rec, mon, boot>>
      BY <1>18 DEF OnHypervisorExit, OnPasstExit
    <3> QED
      BY <1>1, <2>1, <3>1
<1>19. CASE Grace
  <2>1. seen' \in [Children -> BOOLEAN] /\ known' \in [Children -> BOOLEAN]
    BY <1>19, <1>3, <1>4, <1>7 DEF Grace
  <2>2. failed' \in BOOLEAN
    BY <1>19, <1>5 DEF Grace
  <2> QED
    BY <1>1, <1>19, <2>1, <2>2 DEF Grace
<1>20. CASE PowerButton
  BY <1>1, <1>20 DEF PowerButton
<1>21. CASE GraceWait \/ ImmediateWait \/ AncPasst
  <2>1. cancel' \in [Children -> BOOLEAN]
    BY <1>21 DEF GraceWait, ImmediateWait, AncPasst
  <2> QED
    BY <1>1, <1>2, <1>21, <2>1 DEF GraceWait, ImmediateWait, AncPasst, Kill
<1>22. CASE HypervisorResult \/ Immediate
  <2>1. seen' \in [Children -> BOOLEAN] /\ known' \in [Children -> BOOLEAN]
    BY <1>22, <1>3, <1>4, <1>7 DEF HypervisorResult, Immediate
  <2>2. failed' \in BOOLEAN /\ cancel' \in [Children -> BOOLEAN]
    BY <1>22, <1>5 DEF HypervisorResult, Immediate
  <2> QED
    BY <1>1, <1>22, <2>1, <2>2 DEF HypervisorResult, Immediate
<1>23. CASE AncCancel
  <2>1. known' \in [Children -> BOOLEAN]
    BY <1>23, <1>4, <1>7 DEF AncCancel
  <2>2. cancel' \in [Children -> BOOLEAN] /\ termed' \in [Children -> BOOLEAN]
    BY <1>23 DEF AncCancel, Reported, Alive, UsesPasst
  <2> QED
    BY <1>1, <1>23, <2>1, <2>2 DEF AncCancel
<1>24. CASE AncMonitor \/ AncRecoiler
  BY <1>1, <1>24 DEF AncMonitor, AncRecoiler
<1>31. CASE Returned
  <2>1. cancel' \in [Children -> BOOLEAN]
    BY <1>31 DEF Returned
  <2> QED
    BY <1>1, <1>31, <2>1 DEF Returned
<1>25. CASE AncDrain
  <2>1. seen' \in [Children -> BOOLEAN] /\ known' \in [Children -> BOOLEAN]
    BY <1>25, <1>3, <1>4, <1>7 DEF AncDrain
  <2> QED
    BY <1>1, <1>2, <1>25, <2>1 DEF AncDrain, Kill
<1>26. CASE AncClean
  <2>1. pidf' \in [Children -> {"none", "stale", "own"}] /\ sock' \in {"none", "dead", "live"}
    BY <1>26 DEF AncClean
  <2>2. UNCHANGED <<failed, tries, thp, creates, seen, known, ctxVars, g, started, res, proc, status,
                    api, vm, termed, rec, mon, boot>>
    BY <1>26 DEF AncClean
  <2> QED
    BY <1>1, <2>1, <2>2
<1>27. ASSUME NEW h \in Children, InvokeStep(h) PROVE TypeOK'
  <2>1. g' \in [Children -> {"idle", "spawn", "report", "pidfile", "pidfail", "wait", "clean",
                             "finish", "fail", "end"}]
    <3>1. CASE Spawn(h) \/ Report(h) \/ AcquirePidFile(h)
      BY <3>1 DEF Spawn, Report, AcquirePidFile, GGoto
    <3>2. CASE PidFileFailed(h) \/ Wait(h)
      BY <3>2 DEF PidFileFailed, Wait, GGoto
    <3>3. CASE CleanPidFile(h) \/ Finish(h)
      BY <3>3 DEF CleanPidFile, Finish, GGoto
    <3> QED
      BY <1>27, <3>1, <3>2, <3>3 DEF InvokeStep
  <2>2. CASE PidFileFailed(h)
    <3>1. /\ proc' \in [Children -> {"none", "alive", "exited", "reaped"}]
          /\ status' \in [Children -> {"ok", "err"}]
          /\ api' \in BOOLEAN
          /\ vm' \in {"none", "created", "booted", "stopping", "off"}
          /\ sock' \in {"none", "dead", "live"}
      BY <1>2, <2>2 DEF PidFileFailed, Kill
    <3>2. UNCHANGED <<mainVars, ctxVars, started, res, pidf, termed, rec, mon, boot>>
      BY <2>2 DEF PidFileFailed
    <3> QED
      BY <1>1, <2>1, <3>1, <3>2
  <2>3. CASE Spawn(h)
    BY <1>1, <2>1, <2>3 DEF Spawn
  <2>4. CASE Report(h)
    BY <1>1, <2>1, <2>4 DEF Report
  <2>6. CASE AcquirePidFile(h)
    <3>1. /\ pidf' \in [Children -> {"none", "stale", "own"}]
          /\ termed' \in [Children -> BOOLEAN]
      BY <2>6 DEF AcquirePidFile
    <3>2. UNCHANGED <<mainVars, ctxVars, started, res, procVars, rec, mon, boot>>
      BY <2>6 DEF AcquirePidFile
    <3> QED
      BY <1>1, <2>1, <3>1, <3>2
  <2>7. CASE Wait(h)
    BY <1>1, <2>1, <2>7 DEF Wait
  <2>8. CASE CleanPidFile(h)
    BY <1>1, <2>1, <2>8 DEF CleanPidFile
  <2>5. CASE Finish(h)
    BY <1>1, <2>1, <2>5 DEF Finish
  <2> QED
    BY <1>27, <2>2, <2>3, <2>4, <2>5, <2>6, <2>7, <2>8 DEF InvokeStep
<1>28. ASSUME NEW h \in Children, ChildExits(h) PROVE TypeOK'
  BY <1>1, <1>2, <1>28 DEF ChildExits
<1>29. CASE ParentCancel
  BY <1>1, <1>29 DEF ParentCancel
<1>32. CASE ApiUp
  BY <1>1, <1>32 DEF ApiUp
<1>33. CASE SockUp
  BY <1>1, <1>33 DEF SockUp
<1>34. CASE RecoilerCloses \/ MonitorEnds
  BY <1>1, <1>34 DEF RecoilerCloses, MonitorEnds
<1>30. CASE BootReturns \/ Terminated
  BY <1>1, <1>30 DEF BootReturns, Terminated, vars
<1> QED
  BY <1>10, <1>11, <1>12, <1>13, <1>14, <1>15, <1>16, <1>17, <1>18, <1>19, <1>20, <1>21, <1>22,
     <1>23, <1>24, <1>25, <1>26, <1>27, <1>28, <1>29, <1>30,
     <1>31, <1>32, <1>33, <1>34
  DEF Next, RequestStep, MainStep

----------------------------------------------------------------------------
(* The goroutines and their children *)

LEMMA InitStart == Init => StartInv
<1> SUFFICES ASSUME Init PROVE StartInv
  OBVIOUS
<1>1. FlowInv
  BY FlowInit
<1>2. ChildInv
  BY DEF Init, ChildInv, ChildOf, Children, Used, UsesPasst
<1>3. ServedInv /\ ResultInv
  BY StacksDiffer DEF Init, ServedInv, ResultInv, LastAnc, Over, Anc, Used, Alive, Children
<1>4. ServiceInv /\ NilInv
  BY DEF Init, ServiceInv, NilInv, BeforeVm, Anc, Imm, Over, Children
<1> QED
  BY <1>1, <1>2, <1>3, <1>4 DEF StartInv

\* The steps of the main goroutine that touch neither the children nor their files.
MainCalm == UNCHANGED <<backend, g, proc, started, pidf, res, status>>

LEMMA ChildStep ==
  ASSUME StartInv, Next
  PROVE  ChildInv'
<1> USE DEF StartInv, ChildInv, ChildOf, Used, UsesPasst
<1>1. CASE MainCalm
  BY <1>1 DEF MainCalm
<1>2. CASE Launch
  BY <1>2 DEF Launch, ServedInv, gVars, ctxVars, Children, FlowInv, TypeOK
<1>3. ASSUME NEW hs, NEW st, Stop(hs, st), UNCHANGED <<backend, g, started, res, pidf>>
      PROVE  ChildInv'
  BY <1>3 DEF Stop, Alive
<1>4. CASE AncClean
  BY <1>4 DEF AncClean, ctxVars, FlowInv, TypeOK
<1>5. ASSUME NEW h \in Children, InvokeStep(h) PROVE ChildInv'
  <2> USE DEF GGoto, FlowInv, TypeOK, mainVars, ctxVars, procVars
  <2>1. CASE Spawn(h)
    BY <2>1 DEF Spawn
  <2>2. CASE Report(h)
    BY <2>2 DEF Report
  <2>3. CASE AcquirePidFile(h)
    BY <2>3 DEF AcquirePidFile
  <2>4. CASE PidFileFailed(h)
    BY <2>4, <1>3 DEF PidFileFailed, Kill
  <2>5. CASE Wait(h)
    BY <2>5 DEF Wait
  <2>6. CASE CleanPidFile(h)
    BY <2>6 DEF CleanPidFile
  <2>7. CASE Finish(h)
    BY <2>7 DEF Finish
  <2> QED
    BY <1>5, <2>1, <2>2, <2>3, <2>4, <2>5, <2>6, <2>7 DEF InvokeStep
<1>6. ASSUME NEW h \in Children, ChildExits(h) PROVE ChildInv'
  BY <1>3, <1>6 DEF ChildExits, ctxVars, gVars
<1>7. CASE GraceWait \/ ImmediateWait \/ AncPasst \/ AncDrain
  BY <1>1, <1>3, <1>7
  DEF MainCalm, GraceWait, ImmediateWait, AncPasst, AncDrain, Kill, ctxVars, gVars, procVars
<1>8. CASE RequestStep
  BY <1>1, <1>8
  DEF MainCalm, RequestStep, PingOk, PingFails, CreateOk, CreateFails, ctxVars, gVars, procVars
<1>9. CASE \/ Prepare \/ PingWait \/ SockOk \/ SockFails \/ Started \/ Hang
           \/ BootSucceeded \/ BootFailed \/ OnParentDone \/ OnHypervisorExit \/ OnPasstExit
           \/ Grace \/ PowerButton \/ HypervisorResult \/ Immediate
           \/ AncCancel \/ AncMonitor \/ AncRecoiler \/ Returned
  BY <1>1, <1>9
  DEF MainCalm, Prepare, PingWait, SockOk, SockFails, Started, Hang, BootSucceeded, BootFailed,
      OnParentDone, OnHypervisorExit, OnPasstExit, Grace, PowerButton, HypervisorResult, Immediate,
      AncCancel, AncMonitor, AncRecoiler, Returned, ctxVars, gVars, procVars
<1>10. CASE ParentCancel \/ ApiUp \/ SockUp \/ BootReturns \/ RecoilerCloses \/ MonitorEnds
            \/ Terminated
  BY <1>1, <1>10
  DEF MainCalm, ParentCancel, ApiUp, SockUp, BootReturns, RecoilerCloses, MonitorEnds, Terminated,
      vars, ctxVars, gVars, procVars
<1> QED
  BY <1>2, <1>4, <1>5, <1>6, <1>7, <1>8, <1>9, <1>10 DEF Next, MainStep

----------------------------------------------------------------------------
(* The sockets, the result of cloud-hypervisor, the services *)

LEMMA ServedStep ==
  ASSUME StartInv, Next
  PROVE  ServedInv'
<1> USE DEF StartInv, ServedInv, UsesPasst, Alive, Over
<1> DEFINE Quiet == \/ pc' = pc
                    \/ /\ pc \notin {"prepare", "launch"} \cup Over
                       /\ pc' \notin {"prepare", "launch"}
           Served == <<backend, api, sock, proc, g, rec, mon>>
<1> USE DEF FlowInv, TypeOK, mainVars, ctxVars, gVars, procVars
<1>1. ASSUME Quiet, UNCHANGED Served PROVE ServedInv'
  BY <1>1
<1>2. ASSUME NEW hs, NEW st, Stop(hs, st), Quiet, UNCHANGED <<backend, g, rec, mon>>
      PROVE  ServedInv'
  BY <1>2 DEF Stop, Children
<1>3. CASE Prepare
  BY <1>3 DEF Prepare, Goto
<1>4. CASE Launch
  BY <1>4 DEF Launch, Goto, Used, Children, ServiceInv, BeforeVm, ChildInv, ChildOf
<1>5. CASE PingOk \/ PingFails \/ PingWait \/ SockOk \/ SockFails \/ Started \/ Hang
  <2>1. Quiet
    BY <1>5 DEF PingOk, PingFails, PingWait, SockOk, SockFails, Started, Hang, PingsEnd, NotReady,
                StopNow, Goto
  <2>2. UNCHANGED Served
    BY <1>5 DEF PingOk, PingFails, PingWait, SockOk, SockFails, Started, Hang
  <2> QED
    BY <1>1, <2>1, <2>2
<1>6. CASE CreateOk
  BY <1>6 DEF CreateOk, Goto
<1>7. CASE \/ CreateFails \/ BootSucceeded \/ BootFailed \/ OnParentDone \/ OnHypervisorExit
           \/ OnPasstExit
  <2>1. Quiet
    BY <1>7 DEF CreateFails, BootSucceeded, BootFailed, OnParentDone, OnHypervisorExit, OnPasstExit,
                Supervising, GracefulShutdown, StopNow, Goto
  <2>2. UNCHANGED Served
    BY <1>7 DEF CreateFails, BootSucceeded, BootFailed, OnParentDone, OnHypervisorExit, OnPasstExit
  <2> QED
    BY <1>1, <2>1, <2>2
<1>8. CASE Grace \/ PowerButton \/ HypervisorResult \/ Immediate
  <2>1. Quiet
    BY <1>8, Pops DEF Grace, PowerButton, HypervisorResult, Immediate, Goto, Return, StackInv,
                      Graceful, Imm
  <2>2. UNCHANGED Served
    BY <1>8 DEF Grace, PowerButton, HypervisorResult, Immediate
  <2> QED
    BY <1>1, <2>1, <2>2
<1>9. CASE GraceWait \/ ImmediateWait \/ AncPasst \/ AncDrain
  <2>1. Quiet /\ UNCHANGED <<backend, g, rec, mon>>
    BY <1>9 DEF GraceWait, ImmediateWait, AncPasst, AncDrain, Goto
  <2>2. UNCHANGED Served \/ \E hs : Stop(hs, "err")
    BY <1>9 DEF GraceWait, ImmediateWait, AncPasst, AncDrain, Kill
  <2> QED
    BY <1>1, <1>2, <2>1, <2>2
<1>10. CASE AncCancel \/ AncMonitor \/ AncRecoiler \/ Returned
  BY <1>10 DEF AncCancel, AncMonitor, AncRecoiler, Returned, Goto
<1>11. CASE AncClean
  <2>1. Quiet
    BY <1>11, Pops DEF AncClean, Return, StackInv, Anc
  <2>2. UNCHANGED <<backend, api, proc, g, rec, mon>> /\ sock' \in {sock, "none"}
    BY <1>11 DEF AncClean
  <2> QED
    BY <2>1, <2>2
<1>12. ASSUME NEW h \in Children, InvokeStep(h) PROVE ServedInv'
  <2>1. UNCHANGED <<backend, pc, rec, mon>>
    BY <1>12 DEF InvokeStep, Spawn, Report, AcquirePidFile, PidFileFailed, Wait, CleanPidFile, Finish
  <2>2. g[h] # "idle" /\ \E n \in {"report", "pidfile", "pidfail", "wait", "clean", "finish",
                                   "fail", "end"} : g' = g \/ g' = [g EXCEPT ![h] = n]
    BY <1>12 DEF InvokeStep, Spawn, Report, AcquirePidFile, PidFileFailed, Wait, CleanPidFile,
                 Finish, GGoto
  <2>3. \A k \in Children : g'[k] = "idle" <=> g[k] = "idle"
    BY <2>2
  <2>4. CASE PidFileFailed(h) /\ Stop({h}, "err") /\ UNCHANGED g
    BY <1>2, <2>1, <2>4
  <2>5. CASE UNCHANGED <<api, sock>> /\ (UNCHANGED proc \/ \E st : proc' = [proc EXCEPT ![h] = st]
                                                                  /\ ~Alive(h))
    BY <2>1, <2>3, <2>5 DEF Children
  <2> QED
    BY <1>12, <2>4, <2>5 DEF InvokeStep, Spawn, Report, AcquirePidFile, PidFileFailed, Wait,
                             CleanPidFile, Finish, Kill, ChildInv, ChildOf
<1>13. ASSUME NEW h \in Children, ChildExits(h) PROVE ServedInv'
  BY <1>2, <1>13 DEF ChildExits
<1>14. CASE ParentCancel \/ ApiUp \/ SockUp \/ BootReturns \/ Terminated
  BY <1>14 DEF ParentCancel, ApiUp, SockUp, BootReturns, Terminated, vars
<1>15. CASE RecoilerCloses \/ MonitorEnds
  BY <1>15 DEF RecoilerCloses, MonitorEnds
<1> QED
  BY <1>3, <1>4, <1>5, <1>6, <1>7, <1>8, <1>9, <1>10, <1>11, <1>12, <1>13, <1>14, <1>15
  DEF Next, RequestStep, MainStep

\* What the main goroutine learns about cloud-hypervisor, and when it goes on to return.
LEMMA ResultStep ==
  ASSUME StartInv, Next
  PROVE  ResultInv'
<1> USE DEF StartInv, ResultInv, LastAnc, Anc, Over
<1> USE DEF FlowInv, TypeOK, mainVars, ctxVars, gVars, procVars, ChildInv, ChildOf, Children
<1>1. ASSUME g' = g, seen'["ch"] = seen["ch"], pc' \notin Anc \cup Over PROVE ResultInv'
  BY <1>1
<1>2. ASSUME g' = g, seen'["ch"] = seen["ch"],
             pc' = "anc" /\ todo' \in {<<"imm", "return">>, <<"imm", "anc", "return">>}
      PROVE  ResultInv'
  BY <1>2, StacksDiffer
<1>3. ASSUME g' = g, seen'["ch"] = seen["ch"], pc \in Anc, pc' \in Anc, todo' = todo
      PROVE  ResultInv'
  BY <1>3
<1>4. ASSUME g' = g, Receive("ch"), seen["ch"] \/ Ready("ch") PROVE ResultInv'
  BY <1>4 DEF Receive, Ready
<1>5. CASE Prepare \/ Launch
  BY <1>5 DEF Prepare, Launch, Goto, ServedInv, Used, UsesPasst
<1>6. CASE PingOk \/ SockOk \/ Started \/ CreateOk \/ BootSucceeded
  BY <1>6, <1>1 DEF PingOk, SockOk, Started, CreateOk, BootSucceeded, Goto
<1>7. CASE PingFails \/ PingWait \/ SockFails \/ Hang
  <2>1. g' = g
    BY <1>7 DEF PingFails, PingWait, SockFails, Hang
  <2>2. \/ Receive("ch") /\ Ready("ch")
        \/ Receive("ch") /\ seen["ch"]
        \/ seen'["ch"] = seen["ch"] /\ ~Hang
    BY <1>7 DEF PingFails, PingWait, SockFails, Hang, Receive
  <2>3. \/ Hang \/ pc' \notin Anc \cup Over
        \/ pc' = "anc" /\ todo' = <<"imm", "return">>
    BY <1>7 DEF PingFails, PingWait, SockFails, PingsEnd, NotReady, StopNow, Goto
  <2> QED
    BY <2>1, <2>2, <2>3, <1>1, <1>2, <1>4
<1>8. CASE CreateFails \/ BootFailed \/ OnParentDone \/ OnPasstExit
  <2>1. g' = g /\ seen'["ch"] = seen["ch"]
    BY <1>8 DEF CreateFails, BootFailed, OnParentDone, OnPasstExit, Receive
  <2>2. pc' \notin Anc \cup Over \/ (pc' = "anc" /\ todo' = <<"imm", "return">>)
    BY <1>8 DEF CreateFails, BootFailed, OnParentDone, OnPasstExit, GracefulShutdown, StopNow, Goto
  <2> QED
    BY <2>1, <2>2, <1>1, <1>2
<1>9. CASE OnHypervisorExit \/ HypervisorResult
  BY <1>9, <1>4 DEF OnHypervisorExit, HypervisorResult
<1>10. CASE Grace \/ PowerButton \/ Immediate
  <2>1. g' = g
    BY <1>10 DEF Grace, PowerButton, Immediate
  <2>2. \/ Receive("ch") /\ (seen["ch"] \/ Ready("ch"))
        \/ /\ seen' = seen
           /\ \/ pc' \in {"power", "gracewait", "immblock", "immwait"}
              \/ pc' = "anc" /\ todo' = <<"imm">> \o todo /\ pc \in Graceful
    BY <1>10 DEF Grace, PowerButton, Immediate, Goto, Graceful
  <2>3. pc \in Graceful => todo = <<"anc", "return">>
    BY DEF StackInv
  <2> QED
    BY <2>1, <2>2, <2>3, <1>1, <1>2, <1>4, Push
<1>11. CASE GraceWait \/ ImmediateWait
  BY <1>11, <1>1 DEF GraceWait, ImmediateWait, Goto
<1>12. CASE AncCancel \/ AncPasst \/ AncMonitor \/ AncRecoiler \/ AncDrain
  <2>1. g' = g /\ seen'["ch"] = seen["ch"]
    BY <1>12 DEF AncCancel, AncPasst, AncMonitor, AncRecoiler, AncDrain, Receive
  <2>2. pc \in Anc /\ pc' \in Anc /\ todo' = todo
    BY <1>12 DEF AncCancel, AncPasst, AncMonitor, AncRecoiler, AncDrain, Goto
  <2> QED
    BY <2>1, <2>2, <1>3
<1>13. CASE AncClean
  <2>1. g' = g /\ seen' = seen
    BY <1>13 DEF AncClean
  <2>2. \/ LastAnc
        \/ pc' = "imm"
    BY <1>13, Pops DEF AncClean, Return, StackInv
  <2>3. LastAnc => pc' = "return"
    BY <1>13, Pops DEF AncClean, Return
  <2> QED
    BY <2>1, <2>2, <2>3, <1>1
<1>14. CASE Returned
  BY <1>14 DEF Returned, Goto
<1>15. ASSUME NEW h \in Children, InvokeStep(h) PROVE ResultInv'
  <2>1. UNCHANGED <<pc, todo, seen>>
    BY <1>15 DEF InvokeStep, Spawn, Report, AcquirePidFile, PidFileFailed, Wait, CleanPidFile, Finish
  <2>2. \E n \in {"report", "pidfile", "pidfail", "wait", "clean", "finish", "fail", "end"} :
           g' = g \/ (g' = [g EXCEPT ![h] = n] /\ g[h] \notin {"end", "idle"})
    BY <1>15 DEF InvokeStep, Spawn, Report, AcquirePidFile, PidFileFailed, Wait, CleanPidFile,
                 Finish, GGoto
  <2> QED
    BY <2>1, <2>2
<1>16. CASE \/ \E h \in Children : ChildExits(h)
            \/ ParentCancel \/ ApiUp \/ SockUp \/ BootReturns \/ RecoilerCloses \/ MonitorEnds
            \/ Terminated
  BY <1>16 DEF ChildExits, ParentCancel, ApiUp, SockUp, BootReturns, RecoilerCloses, MonitorEnds,
               Terminated, vars
<1> QED
  BY <1>5, <1>6, <1>7, <1>8, <1>9, <1>10, <1>11, <1>12, <1>13, <1>14, <1>15, <1>16
  DEF Next, RequestStep, MainStep

LEMMA ServiceStep ==
  ASSUME StartInv, Next
  PROVE  ServiceInv'
<1> USE DEF StartInv, ServiceInv, BeforeVm, Anc, Imm, Over
<1> DEFINE Same == UNCHANGED <<rec, mon, ancDone>> /\ cancel'["passt"] = cancel["passt"]
<1> USE DEF FlowInv, TypeOK, mainVars, ctxVars, gVars, procVars, Children
<1>1. ASSUME Same, pc \in BeforeVm,
             pc' \in BeforeVm \cup {"anc", "grace", "return"}
      PROVE  ServiceInv'
  BY <1>1
<1>2. ASSUME Same, pc \notin BeforeVm,
             pc' \notin BeforeVm \cup {"ancrec", "ancdrain", "ancclean"},
             pc \in Anc \cup Imm \cup Over => pc' \in Anc \cup Imm \cup Over
      PROVE  ServiceInv'
  BY <1>2
<1>3. CASE Prepare \/ Launch
  BY <1>3, <1>1 DEF Prepare, Launch, Goto
<1>4. CASE PingOk \/ PingFails \/ PingWait
  BY <1>4, <1>1 DEF PingOk, PingFails, PingWait, PingsEnd, NotReady, StopNow, Goto
<1>5. CASE SockOk \/ SockFails \/ Started \/ Hang
  BY <1>5, <1>1 DEF SockOk, SockFails, Started, Hang, NotReady, StopNow, Goto
<1>6. CASE CreateOk
  BY <1>6 DEF CreateOk, Goto
<1>7. CASE CreateFails
  BY <1>7, <1>1 DEF CreateFails, GracefulShutdown, StopNow, Goto
<1>8. CASE BootSucceeded \/ BootFailed \/ OnParentDone \/ OnHypervisorExit \/ OnPasstExit
  <2>1. Same
    BY <1>8 DEF BootSucceeded, BootFailed, OnParentDone, OnHypervisorExit, OnPasstExit
  <2>2. pc \in {"booting", "booted"} /\ pc' \in {"booted", "grace", "anc"}
    BY <1>8 DEF BootSucceeded, BootFailed, OnParentDone, OnHypervisorExit, OnPasstExit,
                Supervising, GracefulShutdown, StopNow, Goto
  <2> QED
    BY <2>1, <2>2, <1>2
<1>9. CASE Grace \/ PowerButton \/ GraceWait
  <2>1. Same
    BY <1>9 DEF Grace, PowerButton, GraceWait
  <2>2. pc \in Graceful /\ pc' \in {"anc", "power", "gracewait", "graceres"}
    BY <1>9, Pops DEF Grace, PowerButton, GraceWait, Graceful, Return, Goto, StackInv
  <2> QED
    BY <2>1, <2>2, <1>2 DEF Graceful
<1>10. CASE HypervisorResult \/ Immediate \/ ImmediateWait
  <2>1. Same
    BY <1>10 DEF HypervisorResult, Immediate, ImmediateWait
  <2>2. /\ pc \in Imm \cup {"graceres"}
        /\ pc' \in {"anc", "return"} \cup Imm
    BY <1>10, Pops DEF HypervisorResult, Immediate, ImmediateWait, Graceful, Return, Goto, StackInv
  <2> QED
    BY <2>1, <2>2, <1>2
<1>11. CASE AncCancel \/ AncPasst
  BY <1>11 DEF AncCancel, AncPasst, Goto
<1>12. CASE AncMonitor \/ AncRecoiler \/ AncDrain
  BY <1>12 DEF AncMonitor, AncRecoiler, AncDrain, Goto
<1>13. CASE AncClean
  <2>1. Same /\ pc = "ancclean"
    BY <1>13 DEF AncClean
  <2>2. pc' \in {"return", "imm"}
    BY <1>13, Pops DEF AncClean, Return, StackInv
  <2> QED
    BY <2>1, <2>2, <1>2
<1>14. CASE Returned
  BY <1>14 DEF Returned, Goto
<1>15. CASE \E h \in Children : InvokeStep(h) \/ ChildExits(h)
  BY <1>15 DEF InvokeStep, Spawn, Report, AcquirePidFile, PidFileFailed, Wait, CleanPidFile, Finish,
               ChildExits
<1>16. CASE \/ ParentCancel \/ ApiUp \/ SockUp \/ BootReturns \/ RecoilerCloses \/ MonitorEnds
            \/ Terminated
  BY <1>16 DEF ParentCancel, ApiUp, SockUp, BootReturns, RecoilerCloses, MonitorEnds, Terminated,
               vars
<1> QED
  BY <1>3, <1>4, <1>5, <1>6, <1>7, <1>8, <1>9, <1>10, <1>11, <1>12, <1>13, <1>14, <1>15, <1>16
  DEF Next, RequestStep, MainStep

\* Why Start returns: each way out of supervision and of a start records a reason.
LEMMA NilStep ==
  ASSUME StartInv, Next
  PROVE  NilInv'
<1> USE DEF StartInv, NilInv, BeforeVm, Anc, Over
<1> DEFINE Asked == failed \/ parentDone
           Early == BeforeVm \cup {"booting", "booted"}
           Ended == /\ seen["ch"] /\ status["ch"] = "ok" /\ vm \notin {"stopping", "off"}
<1> USE DEF FlowInv, TypeOK, mainVars, ctxVars, gVars, procVars, Children, Fail
<1>1. ASSUME Asked', pc' \notin Early PROVE NilInv'
  BY <1>1
<1>2. ASSUME Asked, parentDone' = parentDone, failed => failed', pc' \notin Early PROVE NilInv'
  BY <1>2
<1>3. ASSUME pc \in Early, vm' = vm, pc' \in Early \/ Asked' PROVE NilInv'
  BY <1>3
<1>4. CASE Prepare \/ Launch
  BY <1>4, <1>3 DEF Prepare, Launch, Goto
<1>5. CASE PingOk \/ PingFails \/ PingWait
  BY <1>5, <1>3 DEF PingOk, PingFails, PingWait, PingsEnd, NotReady, StopNow, Goto
<1>6. CASE SockOk \/ SockFails \/ Started \/ Hang
  BY <1>6, <1>3 DEF SockOk, SockFails, Started, Hang, NotReady, StopNow, Goto
<1>7. CASE CreateOk
  BY <1>7 DEF CreateOk, Goto
<1>8. CASE CreateFails
  BY <1>8 DEF CreateFails, GracefulShutdown, StopNow, Goto
<1>9. CASE BootSucceeded \/ BootFailed \/ OnParentDone \/ OnPasstExit
  BY <1>9, <1>3
  DEF BootSucceeded, BootFailed, OnParentDone, OnPasstExit, Supervising, GracefulShutdown, StopNow,
      Goto
<1>10. CASE OnHypervisorExit
  <2>1. pc \in Early /\ vm' = vm /\ status' = status /\ LastAnc' /\ seen'["ch"]
    BY <1>10 DEF OnHypervisorExit, Supervising, LastAnc, Receive
  <2>2. failed' \/ (res["ch"] = "ok" /\ status["ch"] = "ok")
    BY <1>10 DEF OnHypervisorExit, Ready, ChildInv, ChildOf
  <2> QED
    BY <2>1, <2>2
<1>11. CASE Grace \/ PowerButton \/ GraceWait \/ HypervisorResult \/ Immediate \/ ImmediateWait
  <2>1. pc \in Graceful \cup Imm
    BY <1>11 DEF Grace, PowerButton, GraceWait, HypervisorResult, Immediate, ImmediateWait, Graceful,
                 Imm
  <2>2. Asked
    BY <2>1 DEF Graceful, Imm, LastAnc
  <2>3. parentDone' = parentDone /\ (failed => failed')
    BY <1>11 DEF Grace, PowerButton, GraceWait, HypervisorResult, Immediate, ImmediateWait
  <2>4. pc' \notin Early
    BY <1>11, Pops DEF Grace, PowerButton, GraceWait, HypervisorResult, Immediate, ImmediateWait,
                       Return, Goto, StackInv, Graceful, Imm
  <2> QED
    BY <2>2, <2>3, <2>4, <1>2
<1>12. CASE AncCancel \/ AncMonitor \/ AncRecoiler
  BY <1>12 DEF AncCancel, AncMonitor, AncRecoiler, Goto, LastAnc
<1>13. ASSUME NEW hs, NEW st, Stop(hs, st), UNCHANGED <<failed, parentDone>>,
              seen' ["ch"] = seen["ch"] \/ pc \notin Early, seen["ch"] => seen'["ch"],
              pc' = pc \/ (pc \in Anc /\ pc' \in Anc), todo' = todo
       PROVE  NilInv'
  BY <1>13 DEF Stop, Alive, LastAnc, ResultInv, ChildInv, ChildOf
<1>14. CASE AncPasst \/ AncDrain
  <2>1. /\ UNCHANGED <<failed, parentDone>> /\ pc \in Anc /\ pc' \in Anc /\ todo' = todo
        /\ seen'["ch"] = seen["ch"]
    BY <1>14 DEF AncPasst, AncDrain, Goto, Receive
  <2>2. UNCHANGED <<status, vm>> \/ \E hs : Stop(hs, "err")
    BY <1>14 DEF AncPasst, AncDrain, Kill
  <2>3. CASE UNCHANGED <<status, vm>>
    BY <2>1, <2>3 DEF LastAnc
  <2> QED
    BY <2>1, <2>2, <2>3, <1>13
<1>15. CASE AncClean
  <2>1. UNCHANGED <<failed, parentDone, seen, status, vm>>
    BY <1>15 DEF AncClean
  <2>2. (LastAnc /\ pc' = "return") \/ (~LastAnc /\ pc' = "imm")
    BY <1>15, Pops, StacksDiffer DEF AncClean, Return, StackInv, LastAnc
  <2> QED
    BY <2>1, <2>2, <1>15 DEF AncClean
<1>16. CASE Returned
  BY <1>16 DEF Returned, Goto
<1>17. ASSUME NEW h \in Children, InvokeStep(h) PROVE NilInv'
  <2>1. UNCHANGED <<failed, parentDone, seen, pc, todo>>
    BY <1>17 DEF InvokeStep, Spawn, Report, AcquirePidFile, PidFileFailed, Wait, CleanPidFile, Finish
  <2>2. UNCHANGED <<status, vm>> \/ Stop({h}, "err")
    BY <1>17 DEF InvokeStep, Spawn, Report, AcquirePidFile, PidFileFailed, Wait, CleanPidFile,
                 Finish, Kill
  <2>3. CASE UNCHANGED <<status, vm>>
    BY <2>1, <2>3 DEF LastAnc
  <2> QED
    BY <2>1, <2>2, <2>3, <1>13
<1>18. ASSUME NEW h \in Children, ChildExits(h) PROVE NilInv'
  BY <1>13, <1>18 DEF ChildExits
<1>19. CASE ParentCancel
  BY <1>19 DEF ParentCancel
<1>20. CASE BootReturns
  BY <1>20 DEF BootReturns, LastAnc, ResultInv, ServedInv, ChildInv, ChildOf, Alive
<1>21. CASE ApiUp \/ SockUp \/ RecoilerCloses \/ MonitorEnds \/ Terminated
  BY <1>21 DEF ApiUp, SockUp, RecoilerCloses, MonitorEnds, Terminated, vars, LastAnc
<1> QED
  BY <1>4, <1>5, <1>6, <1>7, <1>8, <1>9, <1>10, <1>11, <1>12, <1>14, <1>15, <1>16, <1>17, <1>18,
     <1>19, <1>20, <1>21
  DEF Next, RequestStep, MainStep

LEMMA StartStep ==
  ASSUME StartInv, [Next]_vars
  PROVE  StartInv'
<1>1. CASE Next
  BY <1>1, FlowStep, TypeStep, ChildStep, ServedStep, ResultStep, ServiceStep, NilStep
  DEF StartInv, FlowInv
<1>2. CASE UNCHANGED vars
  <2> USE <1>2 DEF vars, mainVars, ctxVars, gVars, procVars
  <2>1. FlowInv'
    BY DEF StartInv, FlowInv, TypeOK, StackInv, CreatesInv
  <2>2. ChildInv' /\ ServedInv'
    BY DEF StartInv, ChildInv, ChildOf, ServedInv, Used, UsesPasst, Alive
  <2>3. ResultInv' /\ ServiceInv' /\ NilInv'
    BY DEF StartInv, ResultInv, ServiceInv, NilInv, LastAnc
  <2> QED
    BY <2>1, <2>2, <2>3 DEF StartInv
<1> QED
  BY <1>1, <1>2

LEMMA StartInvariant == Spec => []StartInv
<1>1. Init => StartInv
  BY InitStart
<1>2. StartInv /\ [Next]_vars => StartInv'
  BY StartStep
<1> QED
  BY <1>1, <1>2, PTL DEF Spec

----------------------------------------------------------------------------
(* Theorems for every build, host and schedule *)

\* Every variable keeps its type: no closure returns to nowhere, and vm.create is
\* sent at most twice.
THEOREM TypeCorrect == Spec => []TypeOK
<1>1. StartInv => TypeOK
  BY DEF StartInv, FlowInv
<1> QED
  BY <1>1, StartInvariant, PTL

\* While a guest that was asked to power off still runs, neither passt nor the
\* services have been cancelled (gracefulShutdown defers stopAncillaries).
THEOREM GuestKeepsItsHelpers == Spec => []GuestKeepsHelpers
<1>1. StartInv => GuestKeepsHelpers
  BY DEF StartInv, ServiceInv, GuestKeepsHelpers, Anc, Imm, Over
<1> QED
  BY <1>1, StartInvariant, PTL

\* Start returns nil only when it was asked to stop, or when cloud-hypervisor ended
\* by itself with exit code 0: no failure is swallowed on the way out.
THEOREM NilIsACleanEnd == Spec => []NilMeansCleanEnd
<1>1. StartInv => NilMeansCleanEnd
  BY DEF StartInv, NilInv, ResultInv, NilMeansCleanEnd, LastAnc, Anc, Over, BeforeVm
<1> QED
  BY <1>1, StartInvariant, PTL

----------------------------------------------------------------------------
(* Nothing is left behind *)

\* passt, where it may be used, is reported before it and cloud-hypervisor answer,
\* and a one-second timer on it does not overtake its goroutine.
Scheduled == "passt" \in Backends => "passt" \in ReportFirst \cap TimersLast

LeakyInv == StartInv /\ LeakInv

LEMMA InitLeak == Init => LeakyInv
<1> SUFFICES ASSUME Init PROVE LeakyInv
  OBVIOUS
<1>1. CleanInv
  BY DEF Init, CleanInv, Used, Imm, Over, Children
<1>2. ReportInv
  BY DEF Init, ReportInv
<1> QED
  BY <1>1, <1>2, InitStart DEF LeakyInv, LeakInv

\* Once passt is over it stays so: its goroutine never spawns another.
LEMMA PasstStaysOver ==
  ASSUME StartInv, PasstOver, Next
  PROVE  PasstOver'
<1> USE DEF PasstOver, Alive, Children
<1>1. ASSUME NEW hs, NEW st, Stop(hs, st), g' = g PROVE PasstOver'
  BY <1>1 DEF Stop
<1>2. ASSUME NEW h \in Children, InvokeStep(h) PROVE PasstOver'
  <2>1. CASE PidFileFailed(h)
    BY <2>1, <1>1 DEF PidFileFailed, Kill, GGoto, StartInv, FlowInv, TypeOK
  <2>2. CASE ~PidFileFailed(h)
    BY <1>2, <2>2 DEF InvokeStep, Spawn, Report, AcquirePidFile, Wait, CleanPidFile, Finish, GGoto,
                      StartInv, FlowInv, TypeOK, procVars
  <2> QED
    BY <2>1, <2>2
<1>3. ASSUME NEW h \in Children, ChildExits(h) PROVE PasstOver'
  BY <1>1, <1>3 DEF ChildExits, gVars
<1>4. CASE GraceWait \/ ImmediateWait \/ AncPasst \/ AncDrain
  BY <1>1, <1>4 DEF GraceWait, ImmediateWait, AncPasst, AncDrain, Kill, gVars, procVars
<1>5. CASE Launch
  BY <1>5 DEF Launch, StartInv, ServedInv
<1>6. CASE UNCHANGED <<g, proc>>
  BY <1>6
<1>7. CASE RequestStep
  BY <1>6, <1>7
  DEF RequestStep, PingOk, PingFails, CreateOk, CreateFails, gVars, procVars
<1>8. CASE \/ Prepare \/ PingWait \/ SockOk \/ SockFails \/ Started \/ Hang
           \/ BootSucceeded \/ BootFailed \/ OnParentDone \/ OnHypervisorExit \/ OnPasstExit
           \/ Grace \/ PowerButton \/ HypervisorResult \/ Immediate
           \/ AncCancel \/ AncMonitor \/ AncRecoiler \/ AncClean \/ Returned
  BY <1>6, <1>8
  DEF Prepare, PingWait, SockOk, SockFails, Started, Hang, BootSucceeded, BootFailed,
      OnParentDone, OnHypervisorExit, OnPasstExit, Grace, PowerButton, HypervisorResult, Immediate,
      AncCancel, AncMonitor, AncRecoiler, AncClean, Returned, gVars, procVars
<1>9. CASE ParentCancel \/ ApiUp \/ SockUp \/ BootReturns \/ RecoilerCloses \/ MonitorEnds
           \/ Terminated
  BY <1>6, <1>9
  DEF ParentCancel, ApiUp, SockUp, BootReturns, RecoilerCloses, MonitorEnds, Terminated,
      vars, gVars, procVars
<1> QED
  BY <1>2, <1>3, <1>4, <1>5, <1>7, <1>8, <1>9 DEF Next, MainStep

\* The main goroutine reaches the removal, the closures after it and the end of
\* Start in one way each.
LEMMA Ways ==
  ASSUME StartInv, Next
  PROVE  /\ UNCHANGED backend
         /\ pc' = "ancclean" => pc = "ancclean" \/ AncDrain
         /\ pc' \in Imm => pc \in Imm \/ AncClean
         /\ pc' \in Over => pc \in Over \cup Imm \/ AncClean \/ Hang \/ Prepare
         /\ seen'["passt"] => seen["passt"] \/ Ready("passt") \/ AncDrain
<1> USE DEF StartInv, FlowInv, Imm, Over, mainVars, ctxVars
<1>9. Receive("ch") => seen'["passt"] = seen["passt"]
  BY DEF Receive, TypeOK, Children
<1>1. CASE Prepare \/ Launch \/ PingOk \/ SockOk \/ Started \/ CreateOk \/ BootSucceeded
  BY <1>1 DEF Prepare, Launch, PingOk, SockOk, Started, CreateOk, BootSucceeded, Goto
<1>2. CASE PingFails \/ PingWait \/ SockFails \/ Hang
  <2>1. UNCHANGED backend
    BY <1>2 DEF PingFails, PingWait, SockFails, Hang
  <2>2. Hang \/ pc' \in {"ping", "pingwait", "anc"}
    BY <1>2 DEF PingFails, PingWait, SockFails, PingsEnd, NotReady, StopNow, Goto
  <2>3. pc' = "return" \/ ~Hang
    BY DEF Hang, Goto
  <2>4. seen' = seen \/ (Receive("passt") /\ Ready("passt")) \/ Receive("ch")
    BY <1>2 DEF PingFails, PingWait, SockFails, Hang, Children
  <2>5. seen'["passt"] => seen["passt"] \/ Ready("passt")
    BY <2>4, <1>9
  <2>6. CASE Hang
    BY <2>1, <2>3, <2>5, <2>6
  <2>7. CASE ~Hang
    BY <2>1, <2>2, <2>5, <2>7
  <2> QED
    BY <2>6, <2>7
<1>3. CASE CreateFails \/ BootFailed \/ OnParentDone \/ OnHypervisorExit \/ OnPasstExit
  <2>1. UNCHANGED backend
    BY <1>3 DEF CreateFails, BootFailed, OnParentDone, OnHypervisorExit, OnPasstExit
  <2>2. pc' \in {"retry", "grace", "anc"}
    BY <1>3 DEF CreateFails, BootFailed, OnParentDone, OnHypervisorExit, OnPasstExit,
                GracefulShutdown, StopNow, Goto
  <2>3. seen' = seen \/ (Receive("passt") /\ Ready("passt")) \/ Receive("ch")
    BY <1>3 DEF CreateFails, BootFailed, OnParentDone, OnHypervisorExit, OnPasstExit
  <2> QED
    BY <2>1, <2>2, <2>3, <1>9
<1>4. CASE Grace \/ PowerButton \/ GraceWait \/ HypervisorResult \/ Immediate \/ ImmediateWait
  <2>1. UNCHANGED backend
    BY <1>4 DEF Grace, PowerButton, GraceWait, HypervisorResult, Immediate, ImmediateWait
  <2>2. pc' \in Imm \cup Over => pc \in Imm
    BY <1>4, Pops DEF Grace, PowerButton, GraceWait, HypervisorResult, Immediate, ImmediateWait,
                      StackInv, Graceful, Goto, Return
  <2>3. pc' # "ancclean"
    BY <1>4, Pops DEF Grace, PowerButton, GraceWait, HypervisorResult, Immediate, ImmediateWait,
                      StackInv, Graceful, Goto, Return
  <2>4. seen'["passt"] = seen["passt"]
    <3>1. seen' = seen \/ Receive("ch")
      BY <1>4 DEF Grace, PowerButton, GraceWait, HypervisorResult, Immediate, ImmediateWait
    <3> QED
      BY <3>1, <1>9
  <2> QED
    BY <2>1, <2>2, <2>3, <2>4
<1>5. CASE AncCancel \/ AncPasst \/ AncMonitor \/ AncRecoiler \/ AncDrain \/ Returned
  BY <1>5 DEF AncCancel, AncPasst, AncMonitor, AncRecoiler, AncDrain, Returned, Goto
<1>6. CASE AncClean
  BY <1>6, Pops DEF AncClean, StackInv, Anc, Return
<1>7. CASE \E h \in Children : InvokeStep(h) \/ ChildExits(h)
  BY <1>7 DEF InvokeStep, Spawn, Report, AcquirePidFile, PidFileFailed, Wait, CleanPidFile, Finish,
              ChildExits
<1>8. CASE ParentCancel \/ ApiUp \/ SockUp \/ BootReturns \/ RecoilerCloses \/ MonitorEnds
           \/ Terminated
  BY <1>8 DEF ParentCancel, ApiUp, SockUp, BootReturns, RecoilerCloses, MonitorEnds, Terminated,
              vars
<1> QED
  BY <1>1, <1>2, <1>3, <1>4, <1>5, <1>6, <1>7, <1>8 DEF Next, RequestStep, MainStep

\* Only Launch runs the goroutines.
LEMMA IdleStays ==
  ASSUME StartInv, Next, g["ch"] = "idle", ~Launch
  PROVE  g'["ch"] = "idle"
<1> USE DEF gVars
<1>1. ASSUME NEW h \in Children, InvokeStep(h) PROVE g'["ch"] = "idle"
  <2>1. h = "passt"
    BY <1>1 DEF InvokeStep, Spawn, Report, AcquirePidFile, PidFileFailed, Wait, CleanPidFile,
                Finish, Children
  <2>2. g' = g \/ \E n : g' = [g EXCEPT !["passt"] = n]
    BY <1>1, <2>1 DEF InvokeStep, Spawn, Report, AcquirePidFile, PidFileFailed, Wait, CleanPidFile,
                      Finish, GGoto
  <2> QED
    BY <2>2 DEF StartInv, FlowInv, TypeOK, Children
<1>2. CASE ~\E h \in Children : InvokeStep(h)
  BY <1>2
  DEF Next, RequestStep, MainStep, vars,
      Prepare, PingOk, PingFails, PingWait, SockOk, SockFails, Started, Hang, CreateOk,
      CreateFails, BootSucceeded, BootFailed, OnParentDone, OnHypervisorExit, OnPasstExit,
      Grace, PowerButton, GraceWait, HypervisorResult, Immediate, ImmediateWait,
      AncCancel, AncPasst, AncMonitor, AncRecoiler, AncDrain, AncClean, Returned,
      ChildExits, ParentCancel, ApiUp, SockUp, BootReturns, RecoilerCloses, MonitorEnds, Terminated
<1> QED
  BY <1>1, <1>2

\* What stopAncillaries removed does not come back.
LEMMA StaysClean ==
  ASSUME StartInv, Cleaned, Next, pc \in Imm \cup Over
  PROVE  Cleaned'
<1> USE DEF StartInv, Cleaned, UsesPasst
<1>1. UNCHANGED backend
  BY Ways
<1>2. rec' # "running" /\ mon' # "running"
  <2>1. ~CreateOk
    BY DEF CreateOk, Imm, Over
  <2> QED
    BY <2>1
    DEF Next, RequestStep, MainStep, InvokeStep, vars, ctxVars,
        Prepare, Launch, PingOk, PingFails, PingWait, SockOk, SockFails, Started, Hang,
        CreateFails, BootSucceeded, BootFailed, OnParentDone, OnHypervisorExit, OnPasstExit,
        Grace, PowerButton, GraceWait, HypervisorResult, Immediate, ImmediateWait,
        AncCancel, AncPasst, AncMonitor, AncRecoiler, AncDrain, AncClean, Returned,
        Spawn, Report, AcquirePidFile, PidFileFailed, Wait, CleanPidFile, Finish, ChildExits,
        ParentCancel, ApiUp, SockUp, BootReturns, RecoilerCloses, MonitorEnds, Terminated
<1>3. ASSUME backend = "passt" PROVE PasstOver'
  BY <1>3, PasstStaysOver
<1>4. ASSUME backend = "passt"
      PROVE  sock' = "none" /\ pidf'["passt"] = "none"
  <2> USE <1>4 DEF PasstOver, Alive, procVars, gVars
  <2>1. ASSUME NEW hs, NEW st, Stop(hs, st) PROVE sock' = "none"
    BY <2>1 DEF Stop
  <2>2. ASSUME NEW h \in Children, InvokeStep(h) PROVE sock' = "none" /\ pidf'["passt"] = "none"
    <3>1. sock' = "none"
      BY <2>1, <2>2 DEF InvokeStep, Spawn, Report, AcquirePidFile, PidFileFailed, Wait,
                        CleanPidFile, Finish, Kill
    <3>2. AcquirePidFile(h) => h = "ch"
      BY DEF AcquirePidFile, Children
    <3>3. \/ pidf' = pidf \/ pidf' = [pidf EXCEPT !["ch"] = "own"]
          \/ pidf' = [pidf EXCEPT ![h] = "none"]
      BY <2>2, <3>2 DEF InvokeStep, Spawn, Report, AcquirePidFile, PidFileFailed, Wait,
                        CleanPidFile, Finish
    <3>4. pidf'["passt"] = "none"
      BY <3>3 DEF FlowInv, TypeOK, Cleaned, Children
    <3> QED
      BY <3>1, <3>4
  <2>3. ASSUME NEW h \in Children, ChildExits(h) PROVE sock' = "none" /\ pidf'["passt"] = "none"
    BY <2>1, <2>3 DEF ChildExits
  <2>4. CASE GraceWait \/ ImmediateWait \/ AncPasst \/ AncDrain
    BY <2>1, <2>4 DEF GraceWait, ImmediateWait, AncPasst, AncDrain, Kill
  <2>5. CASE AncClean
    BY <2>5 DEF AncClean, Imm, Over
  <2>6. CASE RequestStep \/ Launch
    BY <2>6 DEF RequestStep, PingOk, PingFails, CreateOk, CreateFails, Launch, Imm, Over
  <2>7. CASE \/ Prepare \/ PingWait \/ SockOk \/ SockFails \/ Started \/ Hang
             \/ BootSucceeded \/ BootFailed \/ OnParentDone \/ OnHypervisorExit \/ OnPasstExit
             \/ Grace \/ PowerButton \/ HypervisorResult \/ Immediate
             \/ AncCancel \/ AncMonitor \/ AncRecoiler \/ Returned
    BY <2>7
    DEF Prepare, PingWait, SockOk, SockFails, Started, Hang, BootSucceeded, BootFailed,
        OnParentDone, OnHypervisorExit, OnPasstExit, Grace, PowerButton, HypervisorResult,
        Immediate, AncCancel, AncMonitor, AncRecoiler, Returned
  <2>8. CASE ParentCancel \/ ApiUp \/ SockUp \/ BootReturns \/ RecoilerCloses \/ MonitorEnds
             \/ Terminated
    BY <2>8
    DEF ParentCancel, ApiUp, SockUp, BootReturns, RecoilerCloses, MonitorEnds, Terminated, vars
  <2> QED
    BY <2>2, <2>3, <2>4, <2>5, <2>6, <2>7, <2>8 DEF Next, MainStep
<1> QED
  BY <1>1, <1>2, <1>3, <1>4

\* The drain of stopAncillaries ends with passt over, whichever of the result and
\* the timer comes first.
LEMMA DrainEndsPasst ==
  ASSUME StartInv, CleanInv, Scheduled, UsesPasst, AncDrain
  PROVE  PasstOver'
<1> USE DEF StartInv, UsesPasst
<1>1. "passt" \in TimersLast
  BY DEF Scheduled, FlowInv, TypeOK
<1>2. CASE seen["passt"] \/ Ready("passt")
  <2>1. PasstOver
    BY <1>2 DEF CleanInv, Ready, PasstOver, ChildInv, ChildOf, Alive, Children
  <2> QED
    BY <2>1, PasstStaysOver DEF Next, MainStep
<1>3. CASE ~seen["passt"] /\ TimerFires("passt") /\ Kill(IF Reported("passt") THEN {"passt"} ELSE {})
  <2>1. Alive("passt") /\ g["passt"] = "wait"
    BY <1>1, <1>3 DEF TimerFires
  <2>2. Reported("passt")
    BY <2>1 DEF Reported, ChildInv, ChildOf, Children
  <2> QED
    BY <1>3, <2>1, <2>2 DEF Kill, Stop, PasstOver, Alive, AncDrain, gVars, Children
<1> QED
  BY <1>2, <1>3 DEF AncDrain

LEMMA CleanStep ==
  ASSUME LeakyInv, Scheduled, Next
  PROVE  CleanInv'
<1> USE DEF LeakyInv, LeakInv, UsesPasst
<1>1. backend' = backend
  BY Ways
<1>2. ASSUME UsesPasst, seen'["passt"] PROVE PasstOver'
  <2>1. CASE seen["passt"]
    BY <1>2, <2>1, PasstStaysOver DEF CleanInv
  <2>2. CASE Ready("passt")
    <3>1. PasstOver
      BY <2>2 DEF Ready, PasstOver, StartInv, ChildInv, ChildOf, Alive, Children
    <3> QED
      BY <3>1, PasstStaysOver
  <2>3. CASE AncDrain
    BY <1>2, <2>3, DrainEndsPasst
  <2> QED
    BY <1>2, <2>1, <2>2, <2>3, Ways
<1>3. ASSUME UsesPasst, pc' = "ancclean" PROVE PasstOver'
  <2>1. CASE pc = "ancclean"
    BY <1>3, <2>1, PasstStaysOver DEF CleanInv
  <2>2. CASE AncDrain
    BY <1>3, <2>2, DrainEndsPasst
  <2> QED
    BY <1>3, <2>1, <2>2, Ways
<1>4. ASSUME AncClean PROVE Cleaned'
  <2>1. rec' # "running" /\ mon' # "running"
    BY <1>4 DEF AncClean, StartInv, ServiceInv
  <2>2. ASSUME UsesPasst PROVE PasstOver'
    <3>1. PasstOver
      BY <1>4, <2>2 DEF AncClean, CleanInv
    <3> QED
      BY <1>4, <3>1, PasstStaysOver DEF Next, MainStep
  <2>3. ASSUME UsesPasst PROVE sock' = "none" /\ pidf'["passt"] = "none"
    BY <1>4, <2>3 DEF AncClean, StartInv, FlowInv, TypeOK, Children
  <2> QED
    BY <1>1, <2>1, <2>2, <2>3 DEF Cleaned
<1>5. ASSUME pc \in Imm \cup Over, g["ch"] # "idle" PROVE Cleaned'
  BY <1>5, StaysClean DEF CleanInv
<1>6. pc \in Imm => g["ch"] # "idle"
  BY DEF StartInv, ServedInv, Imm, Over
<1>7. ASSUME pc' \in Imm PROVE Cleaned'
  BY <1>4, <1>5, <1>6, <1>7, Ways
<1>8. ASSUME pc' \in Over, g'["ch"] # "idle" PROVE Cleaned'
  <2>1. CASE AncClean
    BY <1>4, <2>1
  <2>2. CASE pc \in Imm
    BY <1>5, <1>6, <2>2
  <2>3. CASE pc \in Over
    <3>1. g["ch"] # "idle"
      BY <1>8, <2>3, IdleStays DEF Launch, Over
    <3> QED
      BY <1>5, <2>3, <3>1
  <2>4. CASE Hang
    <3>1. ~UsesPasst /\ rec = "off" /\ mon = "off"
      BY <2>4 DEF Hang, ReportInv, StartInv, ServiceInv, BeforeVm
    <3> QED
      BY <1>1, <2>4, <3>1 DEF Hang, Cleaned
  <2>5. CASE Prepare
    BY <1>8, <2>5 DEF Prepare, gVars, StartInv, ServedInv
  <2> QED
    BY <1>8, <2>1, <2>2, <2>3, <2>4, <2>5, Ways
<1> QED
  BY <1>1, <1>2, <1>3, <1>7, <1>8 DEF CleanInv

LEMMA ReportStep ==
  ASSUME LeakyInv, Scheduled, Next
  PROVE  ReportInv'
<1> USE DEF LeakyInv, LeakInv, ReportInv, UsesPasst
<1> SUFFICES ASSUME backend = "passt" PROVE ReportInv'
  BY Ways
<1>1. backend' = "passt" /\ backend \in ReportFirst
  BY Ways DEF Scheduled, StartInv, FlowInv, TypeOK
<1>2. started["ch"] = "sent" => started'["ch"] = "sent"
  <2>1. ASSUME NEW h \in Children, InvokeStep(h)
        PROVE  started["ch"] = "sent" => started'["ch"] = "sent"
    BY <2>1 DEF InvokeStep, Spawn, Report, AcquirePidFile, PidFileFailed, Wait, CleanPidFile, Finish,
                StartInv, FlowInv, TypeOK, Children
  <2>2. CASE ~\E h \in Children : InvokeStep(h)
    BY <2>2
    DEF Next, RequestStep, MainStep, vars, gVars,
        Prepare, Launch, PingOk, PingFails, PingWait, SockOk, SockFails, Started, Hang, CreateOk,
        CreateFails, BootSucceeded, BootFailed, OnParentDone, OnHypervisorExit, OnPasstExit,
        Grace, PowerButton, GraceWait, HypervisorResult, Immediate, ImmediateWait,
        AncCancel, AncPasst, AncMonitor, AncRecoiler, AncDrain, AncClean, Returned,
        ChildExits, ParentCancel, ApiUp, SockUp, BootReturns, RecoilerCloses, MonitorEnds,
        Terminated
  <2> QED
    BY <2>1, <2>2
<1>3. api' => started'["ch"] = "sent"
  <2>1. CASE ApiUp
    <3>1. started["ch"] = "sent"
      BY <1>1, <2>1 DEF ApiUp, Alive, StartInv, ChildInv, ChildOf, FlowInv, TypeOK, Children
    <3> QED
      BY <1>2, <3>1
  <2>2. CASE ~ApiUp
    <3>1. api' => api
      BY <2>2
      DEF Next, RequestStep, MainStep, InvokeStep, Stop, Kill, vars, procVars,
          Prepare, Launch, PingOk, PingFails, PingWait, SockOk, SockFails, Started, Hang, CreateOk,
          CreateFails, BootSucceeded, BootFailed, OnParentDone, OnHypervisorExit, OnPasstExit,
          Grace, PowerButton, GraceWait, HypervisorResult, Immediate, ImmediateWait,
          AncCancel, AncPasst, AncMonitor, AncRecoiler, AncDrain, AncClean, Returned,
          Spawn, Report, AcquirePidFile, PidFileFailed, Wait, CleanPidFile, Finish,
          ChildExits, ParentCancel, SockUp, BootReturns, RecoilerCloses, MonitorEnds, Terminated
    <3> QED
      BY <1>2, <3>1
  <2> QED
    BY <2>1, <2>2
<1>4. pc' \in {"sock", "started", "hang"} =>
        \/ pc' = pc \/ PingOk
        \/ pc = "sock" /\ pc' = "started"
        \/ pc = "started" /\ Started
  <2>1. CASE Grace \/ HypervisorResult \/ Immediate \/ AncClean
    BY <2>1, Pops DEF Grace, HypervisorResult, Immediate, AncClean, Return, Goto, StartInv, FlowInv,
                      StackInv, Graceful, Imm, Anc
  <2>2. CASE PingOk \/ SockOk \/ Started
    BY <2>2 DEF SockOk, Started, Goto
  <2>3. CASE ~(Grace \/ HypervisorResult \/ Immediate \/ AncClean \/ PingOk \/ SockOk \/ Started)
    BY <2>3
    DEF Next, RequestStep, MainStep, InvokeStep, vars, mainVars, Goto, StopNow, GracefulShutdown,
        NotReady, PingsEnd,
        Prepare, Launch, PingFails, PingWait, SockFails, Hang, CreateOk,
        CreateFails, BootSucceeded, BootFailed, OnParentDone, OnHypervisorExit, OnPasstExit,
        PowerButton, GraceWait, ImmediateWait,
        AncCancel, AncPasst, AncMonitor, AncRecoiler, AncDrain, Returned,
        Spawn, Report, AcquirePidFile, PidFileFailed, Wait, CleanPidFile, Finish,
        ChildExits, ParentCancel, ApiUp, SockUp, BootReturns, RecoilerCloses, MonitorEnds, Terminated
  <2> QED
    BY <2>1, <2>2, <2>3
<1>5. PingOk => started["ch"] = "sent" /\ pc' # "hang"
  BY DEF PingOk, Goto
<1>6. pc = "started" /\ Started => pc' = "create"
  BY DEF Started, Goto, Reported
<1> QED
  BY <1>1, <1>2, <1>3, <1>4, <1>5, <1>6

LEMMA LeakStep ==
  ASSUME LeakyInv, Scheduled, [Next]_vars
  PROVE  LeakyInv'
<1>1. StartInv'
  BY StartStep DEF LeakyInv
<1>2. CASE Next
  BY <1>1, <1>2, CleanStep, ReportStep DEF LeakyInv, LeakInv
<1>3. CASE UNCHANGED vars
  BY <1>1, <1>3
  DEF LeakyInv, LeakInv, CleanInv, Cleaned, PasstOver, ReportInv, UsesPasst, Alive, vars, mainVars,
      ctxVars, gVars, procVars
<1> QED
  BY <1>2, <1>3

LEMMA LeakInvariant ==
  ASSUME Scheduled
  PROVE  Spec => []LeakyInv
<1>1. Init => LeakyInv
  BY InitLeak
<1>2. LeakyInv /\ [Next]_vars => LeakyInv'
  BY LeakStep
<1> QED
  BY <1>1, <1>2, PTL DEF Spec

\* When Start returns after it launched something, it leaves nothing of it behind:
\* no child, recoiler, monitor, socket or pid file of a child, on any return path.
THEOREM NothingLeaks ==
  ASSUME Scheduled
  PROVE  Spec => []NoLeakAtReturn
<1>1. LeakyInv => NoLeakAtReturn
  BY DEF LeakyInv, LeakInv, CleanInv, Cleaned, PasstOver, StartInv, ResultInv, ChildInv, ChildOf,
         Children, Over, NoLeakAtReturn, Used, Alive, FlowInv, TypeOK
<1>2. Spec => []LeakyInv
  BY LeakInvariant
<1> QED
  BY <1>1, <1>2, PTL

\* The pid file of a child is removed only once that child is gone, by its
\* goroutine after cmd.Wait and by stopAncillaries after the drain.
THEOREM PidFileOutlivesChild ==
  ASSUME Scheduled
  PROVE  Spec => LivePidFileKept
<1> DEFINE Kept == \A h \in Children : pidf[h] = "own" /\ pidf'[h] = "none" => ~Alive(h)
<1>1. LeakyInv /\ [Next]_vars => [Kept]_vars
  <2> SUFFICES ASSUME LeakyInv, Next, NEW h \in Children, pidf[h] = "own", pidf'[h] = "none"
               PROVE  ~Alive(h)
    OBVIOUS
  <2>1. AncClean \/ \E k \in Children : InvokeStep(k)
    BY DEF Next, RequestStep, MainStep, vars, gVars,
        Prepare, Launch, PingOk, PingFails, PingWait, SockOk, SockFails, Started, Hang, CreateOk,
        CreateFails, BootSucceeded, BootFailed, OnParentDone, OnHypervisorExit, OnPasstExit,
        Grace, PowerButton, GraceWait, HypervisorResult, Immediate, ImmediateWait,
        AncCancel, AncPasst, AncMonitor, AncRecoiler, AncDrain, Returned,
        ChildExits, ParentCancel, ApiUp, SockUp, BootReturns, RecoilerCloses, MonitorEnds,
        Terminated
  <2>2. CASE AncClean
    <3>1. h = "passt" /\ UsesPasst
      BY <2>2 DEF AncClean, Children, LeakyInv, StartInv, FlowInv, TypeOK
    <3> QED
      BY <2>2, <3>1 DEF AncClean, LeakyInv, LeakInv, CleanInv, PasstOver
  <2>3. ASSUME NEW k \in Children, InvokeStep(k) PROVE ~Alive(h)
    <3>1. CleanPidFile(k) /\ k = h
      BY <2>3 DEF InvokeStep, Spawn, Report, AcquirePidFile, PidFileFailed, Wait, CleanPidFile,
                  Finish, LeakyInv, StartInv, FlowInv, TypeOK
    <3> QED
      BY <3>1 DEF CleanPidFile, LeakyInv, StartInv, ChildInv, ChildOf, Alive
  <2> QED
    BY <2>1, <2>2, <2>3
<1>2. Spec => []LeakyInv
  BY LeakInvariant
<1> QED
  BY <1>1, <1>2, PTL DEF Spec, LivePidFileKept

----------------------------------------------------------------------------
(* Start implements NodeLife *)

Parts == {"ch", "passt", "shares", "monitor"}

\* The state of NodeLife that a state of Start stands for.
Phase == IF pc = "done" THEN "ended"
         ELSE IF pc \in {"booting", "booted"} THEN "serving"
         ELSE IF pc \in BeforeVm THEN "starting"
         ELSE "stopping"
Up == {h \in Children : Alive(h)} \cup {p \in {"shares"} : rec = "running"}
        \cup {p \in {"monitor"} : mon = "running"}
Begun == {h \in Children : proc[h] # "none"} \cup {p \in {"shares"} : rec # "off"}
           \cup {p \in {"monitor"} : mon # "off"}

LEMMA LifeStutters == UNCHANGED <<Phase, Up, Begun>> => Life!vars' = Life!vars
  BY DEF Life!vars, Phase, Up, Begun, Supervising, BeforeVm

LEMMA LifeActions ==
  /\ Life!Init <=> Phase = "starting" /\ Up = {} /\ Begun = {}
  /\ \A p : Life!Start(p) <=>
       /\ Phase # "ended" /\ p \notin Begun
       /\ Up' = Up \cup {p} /\ Begun' = Begun \cup {p} /\ Phase' = Phase
  /\ \A p : Life!Ends(p) <=>
       /\ Phase # "ended" /\ p \in Up
       /\ Up' = Up \ {p} /\ Begun' = Begun /\ Phase' = Phase
  /\ Life!Serve <=>
       /\ Phase = "starting" /\ "ch" \in Begun /\ Phase' = "serving"
       /\ {"shares", "monitor"} \cap Begun = {}
       /\ Up' = Up \cup {"shares", "monitor"} /\ Begun' = Begun \cup {"shares", "monitor"}
  /\ Life!Stop <=>
       /\ Phase \in {"starting", "serving"} /\ Phase' = "stopping" /\ UNCHANGED <<Up, Begun>>
  /\ Life!Over <=>
       /\ Phase = "stopping" /\ Up = {} /\ Phase' = "ended" /\ UNCHANGED <<Up, Begun>>
  /\ Life!Next <=>
       \/ \E p \in {"ch", "passt"} : Life!Start(p)
       \/ \E p \in Parts : Life!Ends(p)
       \/ Life!Serve \/ Life!Stop \/ Life!Over
<1>1. Life!Init <=> Phase = "starting" /\ Up = {} /\ Begun = {}
  BY DEF Life!Init, Phase, Up, Begun, Supervising, BeforeVm
<1>2. \A p : Life!Start(p) <=>
       /\ Phase # "ended" /\ p \notin Begun
       /\ Up' = Up \cup {p} /\ Begun' = Begun \cup {p} /\ Phase' = Phase
  <2>1. \A p : {p} \cap Begun = {} <=> p \notin Begun
    OBVIOUS
  <2> QED
    BY <2>1 DEF Life!Start, Life!Begin, Phase, Up, Begun, Supervising, BeforeVm
<1>3. \A p : Life!Ends(p) <=>
       /\ Phase # "ended" /\ p \in Up
       /\ Up' = Up \ {p} /\ Begun' = Begun /\ Phase' = Phase
  BY DEF Life!Ends, Phase, Up, Begun, Supervising, BeforeVm
<1>4. Life!Serve <=>
       /\ Phase = "starting" /\ "ch" \in Begun /\ Phase' = "serving"
       /\ {"shares", "monitor"} \cap Begun = {}
       /\ Up' = Up \cup {"shares", "monitor"} /\ Begun' = Begun \cup {"shares", "monitor"}
  BY DEF Life!Serve, Life!Begin, Phase, Up, Begun, Supervising, BeforeVm
<1>5. Life!Stop <=>
       /\ Phase \in {"starting", "serving"} /\ Phase' = "stopping" /\ UNCHANGED <<Up, Begun>>
  BY DEF Life!Stop, Phase, Up, Begun, Supervising, BeforeVm
<1>6. Life!Over <=>
       /\ Phase = "stopping" /\ Up = {} /\ Phase' = "ended" /\ UNCHANGED <<Up, Begun>>
  BY DEF Life!Over, Phase, Up, Begun, Supervising, BeforeVm
<1>7. Life!Next <=>
       \/ \E p \in {"ch", "passt"} : Life!Start(p)
       \/ \E p \in Parts : Life!Ends(p)
       \/ Life!Serve \/ Life!Stop \/ Life!Over
  <2>1. /\ (Children \cup {"shares", "monitor"}) \ {"shares", "monitor"} = {"ch", "passt"}
        /\ Children \cup {"shares", "monitor"} = Parts
    BY DEF Children, Parts
  <2> QED
    BY <2>1 DEF Life!Next
<1> QED
  BY <1>1, <1>2, <1>3, <1>4, <1>5, <1>6, <1>7

\* A part is up, or has begun, by its own variable alone.
LEMMA PartState ==
  /\ Up \subseteq Parts /\ Begun \subseteq Parts
  /\ \A h \in Children : (h \in Up <=> Alive(h)) /\ (h \in Begun <=> proc[h] # "none")
  /\ "shares" \in Up <=> rec = "running"
  /\ "shares" \in Begun <=> rec # "off"
  /\ "monitor" \in Up <=> mon = "running"
  /\ "monitor" \in Begun <=> mon # "off"
  BY DEF Up, Begun, Parts, Children

\* A change of phase that is one of NodeLife when the parts stay as they are.
LEMMA PhaseStep ==
  ASSUME UNCHANGED <<proc, rec, mon>>,
         Phase' = Phase \/ (Phase \in {"starting", "serving"} /\ Phase' = "stopping")
  PROVE  [Life!Next]_(Life!vars)
<1>1. UNCHANGED <<Up, Begun>>
  BY DEF Up, Begun, Alive
<1> QED
  BY <1>1, LifeStutters, LifeActions

\* Children that stop leave the life of the node one at a time.
LEMMA StopIsEnds ==
  ASSUME StartInv, Running, NEW h \in Children, NEW st, Stop({h}, st) \/ Stop({}, st),
         Phase' = Phase, UNCHANGED <<rec, mon>>
  PROVE  [Life!Next]_(Life!vars)
<1> USE DEF StartInv, FlowInv, TypeOK
<1>1. CASE UNCHANGED proc
  BY <1>1, PhaseStep
<1>2. CASE proc' # proc
  <2>1. Alive(h) /\ proc' = [proc EXCEPT ![h] = "exited"]
    BY <1>2 DEF Stop, Alive
  <2>2. h \in Up /\ h \in Parts
    BY <2>1, PartState DEF Children, Parts
  <2>3. Begun' = Begun
    BY <2>1 DEF Begun, Alive
  <2>4. Up' = Up \ {h}
    BY <2>1 DEF Up, Alive, Children
  <2>5. Phase # "ended"
    BY DEF Running, Phase
  <2> QED
    BY <2>2, <2>3, <2>4, <2>5, LifeActions
<1> QED
  BY <1>1, <1>2

LEMMA LifeStep ==
  ASSUME LeakyInv, Next
  PROVE  [Life!Next]_(Life!vars)
<1> USE DEF LeakyInv, StartInv, FlowInv, mainVars, ctxVars, gVars, procVars
<1>1. CASE Prepare \/ Launch \/ PingOk \/ PingFails \/ PingWait
  <2>1. UNCHANGED <<proc, rec, mon>>
    BY <1>1 DEF Prepare, Launch, PingOk, PingFails, PingWait
  <2>2. Phase = "starting" /\ Phase' \in {"starting", "stopping"}
    BY <1>1 DEF Prepare, Launch, PingOk, PingFails, PingWait, PingsEnd, NotReady, StopNow, Goto,
                Phase, BeforeVm
  <2> QED
    BY <2>1, <2>2, PhaseStep
<1>2. CASE SockOk \/ SockFails \/ Started \/ Hang \/ CreateFails
  <2>1. UNCHANGED <<proc, rec, mon>>
    BY <1>2 DEF SockOk, SockFails, Started, Hang, CreateFails
  <2>2. Phase = "starting" /\ Phase' \in {"starting", "stopping"}
    BY <1>2 DEF SockOk, SockFails, Started, Hang, CreateFails, NotReady, GracefulShutdown, StopNow,
                Goto, Phase, BeforeVm
  <2> QED
    BY <2>1, <2>2, PhaseStep
<1>3. CASE CreateOk
  <2>1. pc \in BeforeVm /\ rec = "off" /\ mon = "off" /\ Alive("ch")
    BY <1>3 DEF CreateOk, BeforeVm, ServiceInv, ServedInv
  <2>2. Phase = "starting" /\ Phase' = "serving"
    BY <1>3 DEF CreateOk, Goto, Phase, BeforeVm
  <2>3. "ch" \in Begun /\ {"shares", "monitor"} \cap Begun = {}
    BY <2>1, PartState DEF Children, Alive
  <2>4. Up' = Up \cup {"shares", "monitor"} /\ Begun' = Begun \cup {"shares", "monitor"}
    BY <1>3, <2>1 DEF CreateOk, Up, Begun, Alive
  <2> QED
    BY <2>2, <2>3, <2>4, LifeActions
<1>4. CASE BootSucceeded \/ BootFailed \/ OnParentDone \/ OnHypervisorExit \/ OnPasstExit
  <2>1. UNCHANGED <<proc, rec, mon>>
    BY <1>4 DEF BootSucceeded, BootFailed, OnParentDone, OnHypervisorExit, OnPasstExit
  <2>2. Phase = "serving" /\ Phase' \in {"serving", "stopping"}
    BY <1>4 DEF BootSucceeded, BootFailed, OnParentDone, OnHypervisorExit, OnPasstExit, Supervising,
                GracefulShutdown, StopNow, Goto, Phase, BeforeVm
  <2> QED
    BY <2>1, <2>2, PhaseStep
<1>5. CASE Grace \/ PowerButton \/ HypervisorResult \/ Immediate
  <2>1. UNCHANGED <<proc, rec, mon>>
    BY <1>5 DEF Grace, PowerButton, HypervisorResult, Immediate
  <2>2. Phase = "stopping" /\ Phase' = "stopping"
    BY <1>5, Pops DEF Grace, PowerButton, HypervisorResult, Immediate, StackInv, Graceful, Imm,
                      Return, Goto, Phase, BeforeVm
  <2> QED
    BY <2>1, <2>2, PhaseStep
<1>6. CASE GraceWait \/ ImmediateWait \/ AncPasst \/ AncDrain
  <2>1. Phase = "stopping" /\ Phase' = "stopping" /\ Running /\ UNCHANGED <<rec, mon>>
    BY <1>6 DEF GraceWait, ImmediateWait, AncPasst, AncDrain, Goto, Phase, BeforeVm, Running
  <2>2. UNCHANGED proc \/ \E h \in Children : Stop({h}, "err") \/ Stop({}, "err")
    BY <1>6 DEF GraceWait, ImmediateWait, AncPasst, AncDrain, Kill, Children
  <2> QED
    BY <2>1, <2>2, PhaseStep, StopIsEnds
<1>7. CASE AncCancel \/ AncMonitor \/ AncRecoiler \/ AncClean
  <2>1. UNCHANGED <<proc, rec, mon>>
    BY <1>7 DEF AncCancel, AncMonitor, AncRecoiler, AncClean
  <2>2. Phase = "stopping" /\ Phase' = "stopping"
    BY <1>7, Pops DEF AncCancel, AncMonitor, AncRecoiler, AncClean, StackInv, Anc, Return, Goto,
                      Phase, BeforeVm
  <2> QED
    BY <2>1, <2>2, PhaseStep
<1>8. CASE Returned
  <2>1. Phase = "stopping" /\ Phase' = "ended"
    BY <1>8 DEF Returned, Goto, Phase, BeforeVm
  <2>2. UNCHANGED <<Up, Begun>>
    BY <1>8 DEF Returned, Up, Begun, Alive
  <2>3. rec # "running" /\ mon # "running" /\ ~Alive("ch") /\ ~Alive("passt")
    <3>1. CASE g["ch"] = "idle"
      BY <3>1 DEF ServedInv, ChildInv, ChildOf, Alive, Children
    <3>2. CASE g["ch"] # "idle"
      <4>1. Cleaned /\ g["ch"] = "end"
        BY <1>8, <3>2 DEF Returned, Over, LeakInv, CleanInv, ResultInv
      <4>2. ~Alive("ch")
        BY <4>1 DEF ChildInv, ChildOf, Alive, Children
      <4>3. ~Alive("passt")
        BY <4>1 DEF Cleaned, PasstOver, ChildInv, ChildOf, Alive, Children, Used
      <4> QED
        BY <4>1, <4>2, <4>3 DEF Cleaned
    <3> QED
      BY <3>1, <3>2
  <2>4. Up = {}
    BY <2>3, PartState DEF Parts, Children
  <2> QED
    BY <2>1, <2>2, <2>4, LifeActions
<1>9. ASSUME NEW h \in Children, InvokeStep(h) PROVE [Life!Next]_(Life!vars)
  <2>1. Phase' = Phase /\ UNCHANGED <<rec, mon>> /\ Running
    BY <1>9 DEF InvokeStep, Spawn, Report, AcquirePidFile, PidFileFailed, Wait, CleanPidFile, Finish,
                Phase
  <2>2. CASE UNCHANGED proc
    BY <2>1, <2>2, PhaseStep
  <2>3. CASE PidFileFailed(h) /\ Kill({h})
    BY <2>1, <2>3, StopIsEnds DEF Kill
  <2>4. CASE proc' = [proc EXCEPT ![h] = "reaped"] /\ proc[h] = "exited"
    <3>1. UNCHANGED <<Up, Begun>>
      BY <2>1, <2>4 DEF Up, Begun, Alive, TypeOK
    <3> QED
      BY <2>1, <3>1, LifeStutters
  <2>5. CASE g[h] = "spawn" /\ proc' = [proc EXCEPT ![h] = "alive"]
    <3>1. proc[h] = "none"
      BY <2>5 DEF ChildInv, ChildOf
    <3>2. h \notin Begun /\ h \in {"ch", "passt"}
      BY <3>1, PartState DEF Children
    <3>3. Up' = Up \cup {h} /\ Begun' = Begun \cup {h}
      BY <2>1, <2>5, <3>1 DEF Up, Begun, Alive, TypeOK
    <3>4. Phase # "ended"
      BY <2>1 DEF Running, Phase
    <3> QED
      BY <2>1, <3>2, <3>3, <3>4, LifeActions
  <2> QED
    BY <1>9, <2>2, <2>3, <2>4, <2>5
    DEF InvokeStep, Spawn, Report, AcquirePidFile, PidFileFailed, Wait, CleanPidFile, Finish
<1>10. ASSUME NEW h \in Children, ChildExits(h) PROVE [Life!Next]_(Life!vars)
  <2>1. Phase' = Phase /\ UNCHANGED <<rec, mon>> /\ Running
    BY <1>10 DEF ChildExits, Phase
  <2> QED
    BY <1>10, <2>1, StopIsEnds DEF ChildExits
<1>11. CASE RecoilerCloses \/ MonitorEnds
  <2>1. Phase' = Phase /\ Phase # "ended" /\ UNCHANGED proc
    BY <1>11 DEF RecoilerCloses, MonitorEnds, Running, Phase
  <2>2. CASE RecoilerCloses
    <3>1. "shares" \in Up /\ "shares" \in Parts /\ Up' = Up \ {"shares"} /\ Begun' = Begun
      BY <2>1, <2>2 DEF RecoilerCloses, Up, Begun, Alive, Parts, Children
    <3> QED
      BY <2>1, <3>1, LifeActions
  <2>3. CASE MonitorEnds
    <3>1. "monitor" \in Up /\ "monitor" \in Parts /\ Up' = Up \ {"monitor"} /\ Begun' = Begun
      BY <2>1, <2>3 DEF MonitorEnds, Up, Begun, Alive, Parts, Children
    <3> QED
      BY <2>1, <3>1, LifeActions
  <2> QED
    BY <1>11, <2>2, <2>3
<1>12. CASE ParentCancel \/ ApiUp \/ SockUp \/ BootReturns \/ Terminated
  <2>1. UNCHANGED <<proc, rec, mon, pc>>
    BY <1>12 DEF ParentCancel, ApiUp, SockUp, BootReturns, Terminated, vars
  <2> QED
    BY <2>1, PhaseStep DEF Phase
<1> QED
  BY <1>1, <1>2, <1>3, <1>4, <1>5, <1>6, <1>7, <1>8, <1>9, <1>10, <1>11, <1>12
  DEF Next, RequestStep, MainStep

\* Start implements NodeLife: nothing starts twice, the services start with the VM
\* and only if cloud-hypervisor ran, a stopped node never serves again, and it is
\* over only when nothing runs any more.
THEOREM StartImplementsLife ==
  ASSUME Scheduled
  PROVE  Spec => LivesOnce
<1>1. Init => Life!Init
  <2>1. Init => Phase = "starting" /\ Up = {} /\ Begun = {}
    BY DEF Init, Phase, BeforeVm, Up, Begun, Alive
  <2> QED
    BY <2>1, LifeActions
<1>2. LeakyInv /\ [Next]_vars => [Life!Next]_(Life!vars)
  <2>1. ASSUME UNCHANGED vars PROVE Life!vars' = Life!vars
    <3>1. UNCHANGED <<Phase, Up, Begun>>
      BY <2>1 DEF vars, mainVars, procVars, Phase, Up, Begun, Alive
    <3> QED
      BY <3>1, LifeStutters
  <2> QED
    BY <2>1, LifeStep
<1>3. Spec => []LeakyInv
  BY LeakInvariant
<1> QED
  BY <1>1, <1>2, <1>3, PTL DEF Spec, LivesOnce, Life!Spec

=============================================================================
