----------------------------- MODULE Hypervisor -----------------------------
(***************************************************************************)
(* Hypervisor.Start of one manager, from the moment it owns cvmm.pid: the  *)
(* main goroutine, the goroutine that runs each direct child through       *)
(* invoke (cloud-hypervisor "ch", and "passt" with the passt backend), the *)
(* children themselves, the VMM API, the virtiofsd recoiler, the status    *)
(* monitor and the vm.boot goroutine.                                      *)
(*                                                                         *)
(* Channels are modelled by what their readers can tell apart, contexts by *)
(* a flag, timeouts by an alternative that may be taken at any time.  The  *)
(* closures of Start (stopAncillaries, stopHypervisorImmediately,          *)
(* gracefulShutdown) are runs of program counters that return through the  *)
(* stack `todo`.                                                           *)
(***************************************************************************)
EXTENDS Naturals, Sequences

CONSTANTS
  Backends,    \* the network backends a manifest may name: "passt", "tap"
  Leftovers,   \* whether a killed manager left files and sockets behind
  HostTHP,     \* what the probe of the host may decide
  PingLimit,   \* availableAwaitingLimit
  ReportFirst, \* backends with which a child is ready only after its goroutine reported it
  TimersLast   \* backends with which a one-second timer fires after what can run has run

ASSUME HypervisorAssumption ==
  /\ Backends \subseteq {"passt", "tap"}
  /\ Leftovers \subseteq BOOLEAN /\ HostTHP \subseteq {"on", "off"}
  /\ PingLimit \in Nat \ {0}
  /\ ReportFirst \subseteq Backends
  /\ TimersLast \subseteq Backends

Children == {"ch", "passt"}
VARIABLES
  backend,       \* the backend of this manifest
  pc, todo,      \* the main goroutine and what its closures return to
  failed,        \* Start will return an error
  tries,         \* pings sent by waitForHypervisorReady
  thp,           \* the THP decision of the vm.create payload
  creates,       \* vm.create requests sent
  seen,          \* seen[h]: the result channel of h was received from, or is nil
  known,         \* known[h]: hypervisorProcess / passtProcess is set
  parentDone, ctxDone, ancDone,   \* parentCtx, its child ctx, ancillaryCtx
  cancel,        \* cancel[h]: the context of the child's exec.Cmd is cancelled
  g,             \* g[h]: where the goroutine that invokes h is
  proc,          \* proc[h]: the child process
  status,        \* status[h]: "ok" when it exited with code 0
  termed,        \* termed[h]: it was sent SIGTERM by Signal
  started,       \* started[h]: the startedChan of h
  res,           \* res[h]: the result channel of h once invoke returned
  pidf,          \* pidf[h]: the pid file of h
  api, vm,       \* the VMM API answers; the VM behind it ("off": it ended after power-off was asked)
  sock,          \* passt.sock
  rec, mon, boot \* recoiler, status monitor, vm.boot goroutine

mainVars == <<pc, todo, failed, tries, thp, creates, seen, known>>
ctxVars == <<backend, parentDone, ctxDone, ancDone, cancel>>
gVars == <<g, started, res, pidf>>
procVars == <<proc, status, api, vm, sock>>
vars == <<mainVars, ctxVars, gVars, procVars, termed, rec, mon, boot>>

UsesPasst == backend = "passt"
Used(h) == h = "ch" \/ UsesPasst

MainPCs == {"prepare", "launch", "ping", "pingwait", "sock", "started", "hang", "create",
            "retry", "booting", "booted", "grace", "power", "gracewait", "graceres", "imm",
            "immwait", "immblock", "anc", "ancpasst", "ancmon", "ancrec", "ancdrain",
            "ancclean", "return", "done"}

TypeOK ==
  /\ backend \in Backends
  /\ pc \in MainPCs
  /\ todo \in Seq(MainPCs)
  /\ failed \in BOOLEAN
  /\ tries \in 0 .. PingLimit - 1
  /\ thp \in {"undecided", "on", "off"}
  /\ creates \in 0 .. 2
  /\ seen \in [Children -> BOOLEAN] /\ known \in [Children -> BOOLEAN]
  /\ parentDone \in BOOLEAN /\ ctxDone \in BOOLEAN /\ ancDone \in BOOLEAN
  /\ cancel \in [Children -> BOOLEAN]
  /\ g \in [Children -> {"idle", "spawn", "report", "pidfile", "pidfail", "wait", "clean",
                         "finish", "fail", "end"}]
  /\ proc \in [Children -> {"none", "alive", "exited", "reaped"}]
  /\ status \in [Children -> {"ok", "err"}]
  /\ termed \in [Children -> BOOLEAN]
  /\ started \in [Children -> {"open", "sent", "closed"}]
  /\ res \in [Children -> {"open", "ok", "err"}]
  /\ pidf \in [Children -> {"none", "stale", "own"}]
  /\ api \in BOOLEAN
  /\ vm \in {"none", "created", "booted", "stopping", "off"}
  /\ sock \in {"none", "dead", "live"}
  /\ rec \in {"off", "running", "closed"}
  /\ mon \in {"off", "running", "closed"}
  /\ boot \in {"off", "running", "ok", "err", "taken"}

----------------------------------------------------------------------------
Init ==
  /\ backend \in Backends
  /\ pc = "prepare" /\ todo = <<>> /\ failed = FALSE /\ tries = 0
  /\ thp = "undecided" /\ creates = 0
  /\ seen = [h \in Children |-> ~Used(h)]
  /\ known = [h \in Children |-> FALSE]
  /\ parentDone = FALSE /\ ctxDone = FALSE /\ ancDone = FALSE
  /\ cancel = [h \in Children |-> FALSE]
  /\ g = [h \in Children |-> "idle"]
  /\ proc = [h \in Children |-> "none"]
  /\ status = [h \in Children |-> "ok"]
  /\ termed = [h \in Children |-> FALSE]
  /\ started = [h \in Children |-> "open"]
  /\ res = [h \in Children |-> "open"]
  /\ \E leftovers \in Leftovers :
       /\ pidf = [h \in Children |-> IF leftovers /\ Used(h) THEN "stale" ELSE "none"]
       /\ sock = IF leftovers /\ UsesPasst THEN "dead" ELSE "none"
  /\ api = FALSE /\ vm = "none"
  /\ rec = "off" /\ mon = "off" /\ boot = "off"

----------------------------------------------------------------------------
(* Helpers of the main goroutine *)

\* After Start has returned the process ends; nothing is modelled beyond.
Running == pc # "done"

Alive(h) == proc[h] = "alive"
Goto(next) == pc' = next /\ UNCHANGED todo
Return == pc' = Head(todo) /\ todo' = Tail(todo)
Fail(when) == failed' = (failed \/ when)

\* A channel that can be received from: it has the error, or is closed.
Ready(h) == ~seen[h] /\ res[h] # "open"
Receive(h) == seen' = [seen EXCEPT ![h] = TRUE]

\* hypervisorStarted, passtStarted: a non-blocking receive that is remembered.
Reported(h) == known[h] \/ started[h] = "sent"
Poll(h) == known' = [known EXCEPT ![h] = Reported(h)]

\* The children in hs stop, with status st.
Stop(hs, st) ==
  /\ proc' = [h \in Children |-> IF h \in hs /\ Alive(h) THEN "exited" ELSE proc[h]]
  /\ status' = [h \in Children |-> IF h \in hs /\ Alive(h) THEN st ELSE status[h]]
  /\ api' = (api /\ "ch" \notin hs)
  /\ vm' = IF "ch" \notin hs THEN vm ELSE IF vm \in {"stopping", "off"} THEN "off" ELSE "none"
  /\ sock' = IF "passt" \in hs /\ sock = "live" THEN "dead" ELSE sock
Kill(hs) == Stop(hs, "err")

\* A one-second timer on a child fires while the child lives; on a starved host
\* it may also fire before the child's goroutine has done its part.
TimerFires(h) == backend \notin TimersLast \/ (Alive(h) /\ g[h] = "wait")

\* return stopHypervisorImmediately(), possibly joined with an error
StopNow(err) ==
  /\ pc' = "anc"
  /\ todo' = <<"imm", "return">>
  /\ Fail(err)

\* Faulty variant: stopAncillaries is called, not deferred.
GracefulShutdownUndeferred(err) ==
  /\ pc' = "anc"
  /\ todo' = <<"grace", "return">>
  /\ Fail(err)

\* return gracefulShutdown(): its deferred stopAncillaries runs at the end
GracefulShutdown(err) ==
  /\ pc' = "grace"
  /\ todo' = <<"anc", "return">>
  /\ Fail(err)

----------------------------------------------------------------------------
(* Start up to vm.create *)

\* preparePidFile for ch and passt: a stale file is reused, unless its pid
\* matches or cannot be verified.
Prepare ==
  /\ pc = "prepare"
  /\ \/ Goto("launch") /\ UNCHANGED failed
     \/ /\ \E h \in Children : Used(h) /\ pidf[h] = "stale"
        /\ Goto("return")
        /\ Fail(TRUE)
  /\ UNCHANGED <<tries, thp, creates, seen, known, ctxVars, gVars, procVars, termed, rec, mon,
                 boot>>

\* The stale sockets are removed and the goroutines started.
Launch ==
  /\ pc = "launch"
  /\ g' = [h \in Children |-> IF Used(h) THEN "spawn" ELSE g[h]]
  /\ sock' = IF UsesPasst THEN "none" ELSE sock
  /\ Goto("ping")
  /\ UNCHANGED <<failed, tries, thp, creates, seen, known, ctxVars, started, res, pidf, proc,
                 status, api, vm, termed, rec, mon, boot>>

\* A failed wait for readiness: the error counts unless the parent was cancelled.
NotReady == StopNow(~parentDone)

\* waitForHypervisorReady returns, and its count of pings with it.
PingsEnd == tries' = 0 /\ NotReady

PingOk ==
  /\ pc = "ping" /\ api /\ ~ctxDone
  /\ Goto(IF UsesPasst THEN "sock" ELSE "started")
  /\ tries' = 0
  /\ UNCHANGED <<failed, thp, creates, seen, known, ctxVars, gVars, procVars, termed, rec, mon,
                 boot>>

\* Faulty variant: one ping more than the limit.
PingFailsOffByOne ==
  /\ pc = "ping"
  /\ IF tries + 1 > PingLimit THEN PingsEnd
     ELSE tries' = tries + 1 /\ Goto("pingwait") /\ UNCHANGED failed
  /\ UNCHANGED <<seen, thp, creates, known, ctxVars, gVars, procVars, termed, rec, mon, boot>>

\* VmmPing failed: look at the children, then at ctx, then at the limit.
PingFails ==
  /\ pc = "ping"
  /\ \/ Ready("ch") /\ Receive("ch") /\ PingsEnd
     \/ ~Ready("ch") /\ Ready("passt") /\ Receive("passt") /\ PingsEnd
     \/ /\ ~Ready("ch") /\ ~Ready("passt")
        /\ ctxDone \/ tries + 1 >= PingLimit
        /\ PingsEnd /\ UNCHANGED seen
     \/ /\ ~Ready("ch") /\ ~Ready("passt") /\ ~ctxDone /\ tries + 1 < PingLimit
        /\ tries' = tries + 1
        /\ Goto("pingwait") /\ UNCHANGED <<seen, failed>>
  /\ UNCHANGED <<thp, creates, known, ctxVars, gVars, procVars, termed, rec, mon, boot>>

\* The select of one second between two pings.
PingWait ==
  /\ pc = "pingwait"
  /\ \/ Goto("ping") /\ UNCHANGED <<tries, seen, failed>>
     \/ ctxDone /\ PingsEnd /\ UNCHANGED seen
     \/ \E h \in Children : Ready(h) /\ Receive(h) /\ PingsEnd
  /\ UNCHANGED <<thp, creates, known, ctxVars, gVars, procVars, termed, rec, mon, boot>>

SockOk ==
  /\ pc = "sock" /\ sock = "live"
  /\ Goto("started")
  /\ UNCHANGED <<failed, tries, thp, creates, seen, known, ctxVars, gVars, procVars, termed, rec,
                 mon, boot>>

\* waitForUnixSocketReady gives up: helper gone, ctx done, or 30 s without a socket.
SockFails ==
  /\ pc = "sock"
  /\ IF Ready("passt") THEN Receive("passt") ELSE UNCHANGED seen
  /\ NotReady
  /\ UNCHANGED <<tries, thp, creates, known, ctxVars, gVars, procVars, termed, rec, mon, boot>>

\* process := hypervisorStarted(), then the host THP probe.
Started ==
  /\ pc = "started"
  /\ known' = [h \in Children |-> known[h] \/ (started[h] = "sent" /\ Reported("ch"))]
  /\ Goto(IF Reported("ch") THEN "create" ELSE "hang")
  /\ thp' \in (IF Reported("ch") THEN HostTHP ELSE {thp})
  /\ UNCHANGED <<failed, tries, creates, seen, ctxVars, gVars, procVars, termed, rec, mon, boot>>

\* The process was not reported: join an error with waitHypervisorResult().
Hang ==
  /\ pc = "hang"
  /\ seen["ch"] \/ Ready("ch")
  /\ Receive("ch")
  /\ Goto("return")
  /\ Fail(TRUE)
  /\ UNCHANGED <<tries, thp, creates, known, ctxVars, gVars, procVars, termed, rec, mon, boot>>

----------------------------------------------------------------------------
(* vm.create, the THP retry, and vm.boot *)

\* Accepted: recoiler, status monitor and the vm.boot goroutine start.
CreateOk ==
  /\ pc \in {"create", "retry"} /\ api /\ vm = "none" /\ ~ctxDone
  /\ vm' = "created"
  /\ creates' = creates + 1
  /\ rec' = "running" /\ mon' = "running" /\ boot' = "running"
  /\ Goto("booting")
  /\ UNCHANGED <<failed, tries, thp, seen, known, ctxVars, gVars, proc, status, api, sock,
                 termed>>

\* Rejected, cancelled, or the connection broke; a lost answer leaves the VM created.
CreateFails ==
  /\ pc \in {"create", "retry"}
  /\ creates' = creates + 1
  /\ \E thpRelated \in BOOLEAN, lost \in BOOLEAN :
       /\ thpRelated => api /\ thp = "on" /\ ~lost
       /\ vm' = IF lost /\ api THEN "created" ELSE vm
       /\ \/ pc = "create" /\ parentDone /\ GracefulShutdown(FALSE) /\ UNCHANGED thp
          \/ /\ pc = "create" /\ ~parentDone /\ thpRelated
             /\ thp' = "off" /\ Goto("retry") /\ UNCHANGED failed
          \/ pc = "create" /\ ~parentDone /\ ~thpRelated /\ StopNow(TRUE) /\ UNCHANGED thp
          \/ pc = "retry" /\ StopNow(TRUE) /\ UNCHANGED thp
  /\ UNCHANGED <<tries, seen, known, ctxVars, gVars, proc, status, api, sock, termed, rec, mon,
                 boot>>

\* The cases of both selects: the one with vm.boot pending, and the one after it.
Supervising == pc \in {"booting", "booted"}

BootSucceeded ==
  /\ pc = "booting" /\ boot = "ok"
  /\ boot' = "taken"
  /\ Goto("booted")
  /\ UNCHANGED <<failed, tries, thp, creates, seen, known, ctxVars, gVars, procVars, termed, rec,
                 mon>>

BootFailed ==
  /\ pc = "booting" /\ boot = "err"
  /\ boot' = "taken"
  /\ IF parentDone THEN GracefulShutdown(FALSE) ELSE StopNow(TRUE)
  /\ UNCHANGED <<tries, thp, creates, seen, known, ctxVars, gVars, procVars, termed, rec, mon>>

OnParentDone ==
  /\ Supervising /\ parentDone
  /\ GracefulShutdown(FALSE)
  /\ UNCHANGED <<tries, thp, creates, seen, known, ctxVars, gVars, procVars, termed, rec, mon,
                 boot>>

\* Faulty variant: the exit of the VM returns without stopAncillaries.
OnHypervisorExitBare ==
  /\ Supervising /\ Ready("ch")
  /\ Receive("ch")
  /\ Goto("return")
  /\ Fail(res["ch"] = "err")
  /\ UNCHANGED <<tries, thp, creates, known, ctxVars, gVars, procVars, termed, rec, mon, boot>>

OnHypervisorExit ==
  /\ Supervising /\ Ready("ch")
  /\ Receive("ch")
  /\ pc' = "anc" /\ todo' = <<"return">>
  /\ Fail(res["ch"] = "err")
  /\ UNCHANGED <<tries, thp, creates, known, ctxVars, gVars, procVars, termed, rec, mon, boot>>

\* Faulty variant: the loss of passt is logged, not returned.
OnPasstExitQuiet ==
  /\ Supervising /\ Ready("passt")
  /\ Receive("passt")
  /\ GracefulShutdown(FALSE)
  /\ UNCHANGED <<tries, thp, creates, known, ctxVars, gVars, procVars, termed, rec, mon, boot>>

\* Faulty variant: only the first select has the case.
OnPasstExitOnce ==
  /\ pc = "booting" /\ Ready("passt")
  /\ Receive("passt")
  /\ GracefulShutdown(TRUE)
  /\ UNCHANGED <<tries, thp, creates, known, ctxVars, gVars, procVars, termed, rec, mon, boot>>

\* fatalPasstExit
OnPasstExit ==
  /\ Supervising /\ Ready("passt")
  /\ Receive("passt")
  /\ GracefulShutdown(TRUE)
  /\ UNCHANGED <<tries, thp, creates, known, ctxVars, gVars, procVars, termed, rec, mon, boot>>

----------------------------------------------------------------------------
(* gracefulShutdown *)

Grace ==
  /\ pc = "grace"
  /\ Poll("ch")
  /\ \/ ~Reported("ch") /\ pc' = "anc" /\ todo' = <<"imm">> \o todo /\ UNCHANGED <<seen, failed>>
     \/ /\ Reported("ch") /\ (seen["ch"] \/ Ready("ch"))
        /\ Receive("ch") /\ Return
        /\ Fail(Ready("ch") /\ res["ch"] = "err")
     \/ Reported("ch") /\ ~seen["ch"] /\ ~Ready("ch") /\ Goto("power") /\ UNCHANGED <<seen, failed>>
  /\ UNCHANGED <<tries, thp, creates, ctxVars, gVars, procVars, termed, rec, mon, boot>>

\* VmPowerButton, within shutdownDeadline.
PowerButton ==
  /\ pc = "power"
  /\ \/ api /\ vm = "booted" /\ vm' = "stopping" /\ Goto("gracewait")
     \/ vm' = vm /\ pc' = "anc" /\ todo' = <<"imm">> \o todo
  /\ UNCHANGED <<failed, tries, thp, creates, seen, known, ctxVars, gVars, proc, status, api,
                 sock, termed, rec, mon, boot>>

\* Faulty variant: the power-off is awaited without a deadline.
GraceWaitForever ==
  /\ pc = "gracewait" /\ ~Alive("ch")
  /\ Goto("graceres")
  /\ UNCHANGED <<failed, tries, thp, creates, seen, known, ctxVars, gVars, procVars, termed, rec,
                 mon, boot>>

\* WaitUntilProcessFinished, until the guest has powered off or the deadline.
GraceWait ==
  /\ pc = "gracewait"
  /\ Goto("graceres")
  /\ \/ ~Alive("ch") /\ UNCHANGED <<cancel, procVars>>
     \/ cancel' = [cancel EXCEPT !["ch"] = TRUE] /\ Kill({"ch"})
  /\ UNCHANGED <<backend, failed, tries, thp, creates, seen, known, parentDone, ctxDone, ancDone,
                 gVars, termed, rec, mon, boot>>

\* waitHypervisorResult in gracefulShutdown and in stopHypervisorImmediately
HypervisorResult ==
  /\ pc \in {"graceres", "immblock"}
  /\ seen["ch"] \/ Ready("ch")
  /\ Receive("ch")
  /\ Return
  /\ Fail(Ready("ch") /\ res["ch"] = "err")
  /\ UNCHANGED <<tries, thp, creates, known, ctxVars, gVars, procVars, termed, rec, mon, boot>>

----------------------------------------------------------------------------
(* stopHypervisorImmediately, after its stopAncillaries *)

Immediate ==
  /\ pc = "imm"
  /\ Poll("ch")
  /\ \/ /\ ~Reported("ch")
        /\ Goto("immblock")
        /\ cancel' = [cancel EXCEPT !["ch"] = TRUE]
        /\ UNCHANGED <<seen, failed>>
     \/ /\ Reported("ch") /\ (seen["ch"] \/ Ready("ch"))
        /\ Receive("ch") /\ Return
        /\ Fail(Ready("ch") /\ res["ch"] = "err")
        /\ UNCHANGED cancel
     \/ /\ Reported("ch") /\ ~seen["ch"] /\ ~Ready("ch")
        /\ Goto("immwait")
        /\ cancel' = [cancel EXCEPT !["ch"] = TRUE]
        /\ UNCHANGED <<seen, failed>>
  /\ UNCHANGED <<backend, tries, thp, creates, parentDone, ctxDone, ancDone, gVars, procVars,
                 termed, rec, mon, boot>>

\* One second for SIGTERM, then SIGKILL.
ImmediateWait ==
  /\ pc = "immwait"
  /\ Goto("immblock")
  /\ \/ ~Alive("ch") /\ UNCHANGED procVars
     \/ Kill({"ch"})
  /\ UNCHANGED <<failed, tries, thp, creates, seen, known, ctxVars, gVars, termed, rec, mon,
                 boot>>

----------------------------------------------------------------------------
(* stopAncillaries *)

AncCancel ==
  /\ pc = "anc"
  /\ ctxDone' = TRUE /\ ancDone' = TRUE
  /\ cancel' = [cancel EXCEPT !["passt"] = @ \/ UsesPasst]
  /\ Poll("passt")
  /\ termed' = [termed EXCEPT !["passt"] = @ \/ (Reported("passt") /\ Alive("passt"))]
  /\ Goto(IF Reported("passt") THEN "ancpasst" ELSE "ancmon")
  /\ UNCHANGED <<backend, failed, tries, thp, creates, seen, parentDone, gVars, procVars, rec,
                 mon, boot>>

\* passt has gone, or one second is over and it is killed, or the wait for it fails.
AncPasst ==
  /\ pc = "ancpasst"
  /\ Goto("ancmon")
  /\ UNCHANGED procVars \/ Kill({"passt"})
  /\ UNCHANGED <<failed, tries, thp, creates, seen, known, ctxVars, gVars, termed, rec, mon,
                 boot>>

AncMonitor ==
  /\ pc = "ancmon" /\ mon # "running"
  /\ Goto("ancrec")
  /\ UNCHANGED <<failed, tries, thp, creates, seen, known, ctxVars, gVars, procVars, termed, rec,
                 mon, boot>>

AncRecoiler ==
  /\ pc = "ancrec" /\ rec # "running"
  /\ Goto("ancdrain")
  /\ UNCHANGED <<failed, tries, thp, creates, seen, known, ctxVars, gVars, procVars, termed, rec,
                 mon, boot>>

\* Faulty variant: the drain of passt gives up without killing it.
AncDrainUnkilled ==
  /\ pc = "ancdrain"
  /\ Goto("ancclean")
  /\ seen["passt"] \/ Ready("passt") \/ TimerFires("passt")
  /\ Receive("passt")
  /\ UNCHANGED <<failed, tries, thp, creates, known, ctxVars, gVars, procVars, termed, rec, mon,
                 boot>>

\* The result of passt, or one second and SIGKILL.
AncDrain ==
  /\ pc = "ancdrain"
  /\ Goto("ancclean")
  /\ \/ (seen["passt"] \/ Ready("passt")) /\ Receive("passt") /\ UNCHANGED <<known, procVars>>
     \/ /\ ~seen["passt"] /\ TimerFires("passt")
        /\ Poll("passt")
        /\ Kill(IF Reported("passt") THEN {"passt"} ELSE {})
        /\ Receive("passt")
  /\ UNCHANGED <<failed, tries, thp, creates, ctxVars, gVars, termed, rec, mon, boot>>

\* passt.sock and passt.pid are removed, whoever wrote them.
AncClean ==
  /\ pc = "ancclean"
  /\ sock' = IF UsesPasst THEN "none" ELSE sock
  /\ pidf' = IF UsesPasst THEN [pidf EXCEPT !["passt"] = "none"] ELSE pidf
  /\ Return
  /\ UNCHANGED <<failed, tries, thp, creates, seen, known, ctxVars, g, started, res, proc, status,
                 api, vm, termed, rec, mon, boot>>

\* The deferred cancels of Start; the context of passt is not among them.
Returned ==
  /\ pc = "return"
  /\ Goto("done")
  /\ ctxDone' = TRUE /\ ancDone' = TRUE
  /\ cancel' = [cancel EXCEPT !["ch"] = TRUE]
  /\ UNCHANGED <<backend, failed, tries, thp, creates, seen, known, parentDone, gVars, procVars,
                 termed, rec, mon, boot>>
----------------------------------------------------------------------------
(* invoke, and the goroutine around it *)

GGoto(h, next) == g' = [g EXCEPT ![h] = next]

\* cmd.Start fails when the binary cannot be executed or its context is done.
Spawn(h) ==
  /\ Running
  /\ g[h] = "spawn"
  /\ \/ GGoto(h, "fail") /\ UNCHANGED proc
     \/ /\ ~cancel[h]
        /\ GGoto(h, "report")
        /\ proc' = [proc EXCEPT ![h] = "alive"]
  /\ UNCHANGED <<mainVars, ctxVars, started, res, pidf, status, api, vm, sock, termed, rec, mon,
                 boot>>

Report(h) ==
  /\ Running
  /\ g[h] = "report"
  /\ GGoto(h, "pidfile")
  /\ started' = [started EXCEPT ![h] = "sent"]
  /\ UNCHANGED <<mainVars, ctxVars, res, pidf, procVars, termed, rec, mon, boot>>

\* AcquirePidFileReplacing; when it fails the child gets SIGTERM.
AcquirePidFile(h) ==
  /\ Running
  /\ g[h] = "pidfile"
  /\ \/ /\ GGoto(h, "wait")
        /\ pidf' = [pidf EXCEPT ![h] = "own"]
        /\ UNCHANGED termed
     \/ /\ GGoto(h, "pidfail")
        /\ termed' = [termed EXCEPT ![h] = TRUE]
        /\ UNCHANGED pidf
  /\ UNCHANGED <<mainVars, ctxVars, started, res, procVars, rec, mon, boot>>

\* One second, then SIGKILL; cmd.Wait reaps the child.
PidFileFailed(h) ==
  /\ Running
  /\ g[h] = "pidfail"
  /\ \/ /\ Alive(h) /\ Kill({h}) /\ UNCHANGED g
     \/ /\ proc[h] = "exited"
        /\ proc' = [proc EXCEPT ![h] = "reaped"]
        /\ GGoto(h, "fail")
        /\ UNCHANGED <<status, api, vm, sock>>
  /\ UNCHANGED <<mainVars, ctxVars, started, res, pidf, termed, rec, mon, boot>>

Wait(h) ==
  /\ Running
  /\ g[h] = "wait" /\ proc[h] = "exited"
  /\ GGoto(h, "clean")
  /\ proc' = [proc EXCEPT ![h] = "reaped"]
  /\ UNCHANGED <<mainVars, ctxVars, started, res, pidf, status, api, vm, sock, termed, rec, mon,
                 boot>>

\* The deferred pidClean removes the file if it is still this one.
CleanPidFile(h) ==
  /\ Running
  /\ g[h] = "clean"
  /\ GGoto(h, "finish")
  /\ pidf' = [pidf EXCEPT ![h] = "none"]
  /\ UNCHANGED <<mainVars, ctxVars, started, res, procVars, termed, rec, mon, boot>>

\* The error is sent, if there is one, and both channels are closed.
Finish(h) ==
  /\ Running
  /\ g[h] \in {"finish", "fail"}
  /\ GGoto(h, "end")
  /\ res' = [res EXCEPT ![h] = IF g[h] = "fail" THEN "err" ELSE status[h]]
  /\ started' = [started EXCEPT ![h] = IF @ = "open" THEN "closed" ELSE @]
  /\ UNCHANGED <<mainVars, ctxVars, pidf, procVars, termed, rec, mon, boot>>

----------------------------------------------------------------------------
(* The processes and goroutines beside the main one *)

ParentCancel ==
  /\ Running
  /\ ~parentDone
  /\ parentDone' = TRUE /\ ctxDone' = TRUE
  /\ UNCHANGED <<backend, mainVars, ancDone, cancel, gVars, procVars, termed, rec, mon, boot>>

\* A child may end at any time: powered off, crashed, or told to.  Start reads
\* the exit code of cloud-hypervisor only; passt must not end, whatever its code.
ChildExits(h) ==
  /\ Running
  /\ Alive(h)
  /\ \E st \in (IF h = "ch" THEN {"ok", "err"} ELSE {"err"}) : Stop({h}, st)
  /\ UNCHANGED <<mainVars, ctxVars, gVars, termed, rec, mon, boot>>
Told(h) == termed[h] \/ cancel[h]

ApiUp ==
  /\ Running
  /\ Alive("ch") /\ ~api
  /\ backend \in ReportFirst => g["ch"] # "report"
  /\ api' = TRUE
  /\ UNCHANGED <<mainVars, ctxVars, gVars, proc, status, vm, sock, termed, rec, mon, boot>>

SockUp ==
  /\ Running
  /\ Alive("passt") /\ sock # "live"
  /\ backend \in ReportFirst => g["passt"] # "report"
  /\ sock' = "live"
  /\ UNCHANGED <<mainVars, ctxVars, gVars, proc, status, api, vm, termed, rec, mon, boot>>

BootReturns ==
  /\ Running
  /\ boot = "running"
  /\ \/ /\ api /\ vm = "created" /\ ~ctxDone
        /\ vm' = "booted" /\ boot' = "ok"
     \/ /\ boot' = "err"
        /\ vm' \in {vm, IF api /\ vm = "created" THEN "booted" ELSE vm}
  /\ UNCHANGED <<mainVars, ctxVars, gVars, proc, status, api, sock, termed, rec, mon>>

\* Module VirtiofsdRecoiler: it closes its channel some time after its context is done.
RecoilerCloses ==
  /\ Running
  /\ rec = "running" /\ ancDone
  /\ rec' = "closed"
  /\ UNCHANGED <<mainVars, ctxVars, gVars, procVars, termed, mon, boot>>

\* hypervisorStatusMonitor ends with ctx, or when a request of its own fails.
MonitorEnds ==
  /\ Running
  /\ mon = "running"
  /\ mon' = "closed"
  /\ UNCHANGED <<mainVars, ctxVars, gVars, procVars, termed, rec, boot>>

----------------------------------------------------------------------------
\* Steps of the main goroutine that wait for the VMM's answer, and the others.
RequestStep == PingOk \/ PingFails \/ CreateOk \/ CreateFails
MainStep ==
  \/ Prepare \/ Launch \/ PingWait \/ SockOk \/ SockFails \/ Started \/ Hang
  \/ BootSucceeded \/ BootFailed \/ OnParentDone \/ OnHypervisorExit \/ OnPasstExit
  \/ Grace \/ PowerButton \/ GraceWait \/ HypervisorResult \/ Immediate \/ ImmediateWait
  \/ AncCancel \/ AncPasst \/ AncMonitor \/ AncRecoiler \/ AncDrain \/ AncClean \/ Returned
InvokeStep(h) ==
  Spawn(h) \/ Report(h) \/ AcquirePidFile(h) \/ PidFileFailed(h) \/ Wait(h) \/ CleanPidFile(h)
  \/ Finish(h)

Terminated == pc = "done" /\ UNCHANGED vars

Next ==
  \/ RequestStep \/ MainStep
  \/ \E h \in Children : InvokeStep(h) \/ ChildExits(h)
  \/ ParentCancel \/ ApiUp \/ SockUp \/ BootReturns \/ RecoilerCloses \/ MonitorEnds
  \/ Terminated

Spec == Init /\ [][Next]_vars

\* Goroutines and timers progress.  A request returns for sure only when its
\* context is done or nobody serves the socket: the client sets no timeout.  A
\* child that was told to stop does.  Children, guest and API are otherwise free.
Fairness ==
  /\ WF_vars(MainStep)
  /\ WF_vars(RequestStep /\ (ctxDone \/ ~api))
  /\ \A h \in Children : /\ WF_vars(InvokeStep(h))
                         /\ WF_vars(ChildExits(h) /\ Told(h))
  /\ WF_vars(RecoilerCloses)
  /\ WF_vars(MonitorEnds /\ ctxDone)

FairSpec == Spec /\ Fairness

----------------------------------------------------------------------------
(* What Start promises: module NodeLife *)

Life == INSTANCE NodeLife WITH
  Parts <- Children \cup {"shares", "monitor"},
  Services <- {"shares", "monitor"},
  Guest <- "ch",
  phase <- IF pc = "done" THEN "ended"
           ELSE IF Supervising THEN "serving"
           ELSE IF pc \in {"prepare", "launch", "ping", "pingwait", "sock", "started", "hang",
                           "create", "retry"} THEN "starting"
           ELSE "stopping",
  up <- {h \in Children : Alive(h)} \cup {p \in {"shares"} : rec = "running"}
          \cup {p \in {"monitor"} : mon = "running"},
  begun <- {h \in Children : proc[h] # "none"} \cup {p \in {"shares"} : rec # "off"}
          \cup {p \in {"monitor"} : mon # "off"}

----------------------------------------------------------------------------
(* Properties *)

\* Start lives the life of NodeLife: no child or service is ever started twice,
\* the services come with the VM, a node that is being stopped serves no more,
\* and it is over only when nothing it started is left.
LivesOnce == Life!Spec


\* When Start returns after it launched something, no child, recoiler or monitor
\* of this manager is left behind, and neither are the files of passt or the
\* pid file of cloud-hypervisor: every return path runs its clean-up.
NoLeakAtReturn ==
  pc = "done" /\ g["ch"] # "idle" =>
    /\ \A h \in Children : ~Alive(h) /\ pidf[h] # "own"
    /\ rec # "running" /\ mon # "running"
    /\ UsesPasst => sock = "none" /\ pidf["passt"] = "none"

\* A guest that was asked to power off keeps its network and its shares until
\* cloud-hypervisor has exited (gracefulShutdown defers stopAncillaries).
GuestKeepsHelpers ==
  pc \in {"power", "gracewait"} /\ Alive("ch") =>
    ~cancel["passt"] /\ ~ancDone /\ rec # "closed"

\* Start returns nil only when it was asked to stop or cloud-hypervisor ended
\* by itself with exit code 0, not because Start had asked it to power off: the
\* loss of passt, or a failed request, never ends it silently.
NilMeansCleanEnd ==
  pc = "done" /\ ~failed =>
    parentDone \/ (status["ch"] = "ok" /\ g["ch"] = "end" /\ vm # "off")

\* The pid file of a child is never removed while that child is alive, neither
\* by the goroutine that wrote it nor by stopAncillaries.
LivePidFileKept ==
  [][\A h \in Children : pidf[h] = "own" /\ pidf'[h] = "none" => ~Alive(h)]_vars

\* A cancelled start returns, wherever the cancellation finds it -- unless it
\* took a running VMM for ended and waits for it (hypervisor.go:690-693).
CancelReturns == parentDone ~> pc \in {"done", "hang"}

\* The manager outlives neither its VM nor the network of its VM: once
\* cloud-hypervisor or passt is gone, Start returns.
LossReturns ==
  (Supervising /\ \E h \in Children : Used(h) /\ ~Alive(h)) ~> pc = "done"
============================================================================
