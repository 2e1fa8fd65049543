----------------------------- MODULE VmmClient -----------------------------
(***************************************************************************)
(* The callers of the cloud-hypervisor HTTP API: `cvmm client ACTION`, and *)
(* the goroutines of a manager, which share one clientImpl and its Close.  *)
(* Each call of clientImpl is a run of the same steps; what differs is the *)
(* reading of the status code.  The VMM is external and serves one request *)
(* at a time; answers are lost when the context ends or the VMM does.      *)
(***************************************************************************)
EXTENDS Naturals, FiniteSets

CONSTANTS
  Callers,   \* concurrent calls
  Ops        \* the calls that are made

\* The calls by what their switch on the status has cases for: none but success, one
\* sentinel or two, none and a description of the device, two or one.  "add" is every
\* VmAdd call, "snapshot" also VmCoredump, "migrate" both ends of a migration.
PlainCalls == {"ping", "vmmshutdown", "nmi", "info", "counters", "create", "delete",
               "resizezone"}
LifeCalls == {"boot", "pause", "resume", "shutdown", "reboot", "powerbutton", "resize"}
DeviceCalls == {"add", "remove"}
StateCalls == {"snapshot", "restore", "migrate"}

ASSUME VmmClientAssumption ==
  /\ IsFiniteSet(Callers)
  /\ Ops \subseteq PlainCalls \cup LifeCalls \cup DeviceCalls \cup StateCalls

States == {"none", "created", "running", "paused"}
Sentinels == {"ErrVmNotCreated", "ErrVmNotStarted", "ErrVmNotBooted", "ErrVmNotPaused",
              "ErrVmAlreadyCreated"}

VARIABLES
  pc,       \* pc[c]: where the call of c is
  op,       \* op[c]: what it asks for
  ctx,      \* ctx[c]: its context is done
  code,     \* code[c]: the status of the answer under way, or 0
  result,   \* result[c]: what the call returned
  served,   \* served[c]: how often the VMM has executed it (history)
  seen,     \* seen[c]: states of the VM between send and return (history)
  inflight, \* clientImpl.wg
  closer,   \* clientImpl.Close
  early,    \* calls in flight when Close was called (history)
  pending,  \* requests the VMM has not taken yet
  up, vm    \* the VMM process and its VM

vars == <<pc, op, ctx, code, result, served, seen, inflight, closer, early, pending, up, vm>>

TypeOK ==
  /\ pc \in [Callers -> {"idle", "decode", "call", "flight", "answer", "return"}]
  /\ op \in [Callers -> Ops \cup {"none"}]
  /\ ctx \in [Callers -> BOOLEAN]
  /\ code \in [Callers -> {0, 200, 204, 404, 405, 500}]
  /\ result \in [Callers -> {"none", "ok", "http", "transport", "decode"} \cup Sentinels]
  /\ served \in [Callers -> 0 .. 1]
  /\ seen \in [Callers -> SUBSET States]
  /\ inflight \in 0 .. Cardinality(Callers)
  /\ closer \in {"open", "waiting", "closed"}
  /\ early \subseteq Callers /\ pending \subseteq Callers
  /\ up \in BOOLEAN /\ vm \in States

Init ==
  /\ pc = [c \in Callers |-> "idle"] /\ op = [c \in Callers |-> "none"]
  /\ ctx = [c \in Callers |-> FALSE] /\ code = [c \in Callers |-> 0]
  /\ result = [c \in Callers |-> "none"]
  /\ served = [c \in Callers |-> 0] /\ seen = [c \in Callers |-> {}]
  /\ inflight = 0 /\ closer = "open" /\ early = {} /\ pending = {}
  /\ up = TRUE /\ vm \in States

----------------------------------------------------------------------------
(* The switch on resp.StatusCode of each call *)

Gets == {"ping", "info", "counters"}

PlainOk(o) == IF o \in Gets THEN {200} ELSE IF o = "add" THEN {200, 204} ELSE {204}

\* Faulty variant: the two cases of VmResume are swapped.
LifeErrorSwapped(o, s) ==
  IF s = 404 THEN IF o = "resume" THEN "ErrVmNotPaused" ELSE "ErrVmNotCreated"
  ELSE IF s # 405 THEN "http"
  ELSE IF o = "shutdown" THEN "ErrVmNotStarted"
  ELSE IF o \in {"pause", "resume", "reboot", "powerbutton"} THEN "ErrVmNotBooted"
  ELSE "http"

LifeError(o, s) ==
  IF s = 404 THEN IF o = "resume" THEN "ErrVmNotBooted" ELSE "ErrVmNotCreated"
  ELSE IF s # 405 THEN "http"
  ELSE IF o = "shutdown" THEN "ErrVmNotStarted"
  ELSE IF o = "resume" THEN "ErrVmNotPaused"
  ELSE IF o \in {"pause", "reboot", "powerbutton"} THEN "ErrVmNotBooted"
  ELSE "http"

\* VmRestore reads 404 as "already created"; migrations have no sentinel.
StateError(o, s) ==
  IF s = 404 /\ o = "snapshot" THEN "ErrVmNotCreated"
  ELSE IF s = 405 /\ o = "snapshot" THEN "ErrVmNotBooted"
  ELSE IF s = 404 /\ o = "restore" THEN "ErrVmAlreadyCreated"
  ELSE "http"

Outcome(o, s) ==
  IF s \in PlainOk(o) THEN "ok"
  ELSE IF o \in LifeCalls THEN LifeError(o, s)
  ELSE IF o \in StateCalls THEN StateError(o, s)
  ELSE "http"

----------------------------------------------------------------------------
(* A call *)

Goto(c, next) == pc' = [pc EXCEPT ![c] = next]

\* entry.Client reads the request from stdin before the call, for some actions.
WithBody(o) == o \in {"create", "resize", "resizezone"} \cup DeviceCalls \cup StateCalls

Begin(c) ==
  /\ pc[c] = "idle"
  /\ \E o \in Ops :
       /\ op' = [op EXCEPT ![c] = o]
       /\ Goto(c, IF WithBody(o) THEN "decode" ELSE "call")
  /\ UNCHANGED <<ctx, code, result, served, seen, inflight, closer, early, pending, up, vm>>

\* decodeYAMLRequest waits for stdin and looks at no context.
Decode(c) ==
  /\ pc[c] = "decode"
  /\ \/ Goto(c, "call") /\ UNCHANGED result
     \/ Goto(c, "return") /\ result' = [result EXCEPT ![c] = "decode"]
  /\ UNCHANGED <<op, ctx, code, served, seen, inflight, closer, early, pending, up, vm>>

\* Faulty variant: the wait group is not entered.
SendUncounted(c) ==
  /\ pc[c] = "call"
  /\ seen' = [seen EXCEPT ![c] = {vm}]
  /\ IF up /\ ~ctx[c]
     THEN Goto(c, "flight") /\ pending' = pending \cup {c} /\ UNCHANGED result
     ELSE Goto(c, "return") /\ result' = [result EXCEPT ![c] = "transport"] /\ UNCHANGED pending
  /\ UNCHANGED <<op, ctx, code, served, inflight, closer, early, up, vm>>

\* wg.Add(1), then cli.Do over a connection to the socket.
Send(c) ==
  /\ pc[c] = "call"
  /\ seen' = [seen EXCEPT ![c] = {vm}]
  /\ IF up /\ ~ctx[c]
     THEN /\ Goto(c, "flight") /\ UNCHANGED result
          /\ inflight' = inflight + 1 /\ pending' = pending \cup {c}
     ELSE /\ Goto(c, "return") /\ UNCHANGED <<inflight, pending>>
          /\ result' = [result EXCEPT ![c] = "transport"]
  /\ UNCHANGED <<op, ctx, code, served, closer, early, up, vm>>

Left(n) == IF n = 0 THEN 0 ELSE n - 1

\* The answer arrives and is read; a device's description may be cut off.
Receive(c) ==
  /\ pc[c] = "answer"
  /\ Goto(c, "return")
  /\ \E r \in {Outcome(op[c], code[c])} \cup (IF code[c] = 200 THEN {"http"} ELSE {}) :
       result' = [result EXCEPT ![c] = r]
  /\ code' = [code EXCEPT ![c] = 0]
  /\ inflight' = Left(inflight)
  /\ UNCHANGED <<op, ctx, served, seen, closer, early, pending, up, vm>>

\* Faulty variant: only the end of the VMM ends a call (context.Background()).
BreakDeaf(c) ==
  /\ pc[c] \in {"flight", "answer"} /\ ~up
  /\ Goto(c, "return")
  /\ result' = [result EXCEPT ![c] = "transport"]
  /\ code' = [code EXCEPT ![c] = 0]
  /\ inflight' = Left(inflight)
  /\ UNCHANGED <<op, ctx, served, seen, closer, early, pending, up, vm>>

\* Faulty variant: a request without an answer is sent again.
BreakRetrying(c) ==
  /\ pc[c] \in {"flight", "answer"} /\ (ctx[c] \/ ~up)
  /\ Goto(c, "flight")
  /\ pending' = pending \cup {c}
  /\ code' = [code EXCEPT ![c] = 0]
  /\ UNCHANGED <<op, ctx, result, served, seen, inflight, closer, early, up, vm>>

\* Do fails: the context is done, or the VMM went away.  The request may have
\* been executed all the same, or be executed later.
Break(c) ==
  /\ pc[c] \in {"flight", "answer"} /\ (ctx[c] \/ ~up)
  /\ Goto(c, "return")
  /\ result' = [result EXCEPT ![c] = "transport"]
  /\ code' = [code EXCEPT ![c] = 0]
  /\ inflight' = Left(inflight)
  /\ UNCHANGED <<op, ctx, served, seen, closer, early, pending, up, vm>>

Cancel(c) ==
  /\ ~ctx[c] /\ pc[c] \notin {"idle", "return"}
  /\ ctx' = [ctx EXCEPT ![c] = TRUE]
  /\ UNCHANGED <<pc, op, code, result, served, seen, inflight, closer, early, pending, up, vm>>

----------------------------------------------------------------------------
(* clientImpl.Close *)

InFlight == {c \in Callers : pc[c] \in {"flight", "answer"}}

CloseCalled ==
  /\ closer = "open"
  /\ closer' = "waiting"
  /\ early' = InFlight
  /\ UNCHANGED <<pc, op, ctx, code, result, served, seen, inflight, pending, up, vm>>

CloseReturns ==
  /\ closer = "waiting" /\ inflight = 0
  /\ closer' = "closed"
  /\ UNCHANGED <<pc, op, ctx, code, result, served, seen, inflight, early, pending, up, vm>>

----------------------------------------------------------------------------
(* The VMM *)

Reply(s, next) == [code |-> s, next |-> next]
Replies == [code : {200, 204, 404, 405, 500}, next : States]

\* The VMM refuses, with 404 or with 405, what a VM in state v cannot do; it
\* may fail whatever it is asked.
Refusal(o, v) ==
  \/ /\ v = "none"
     /\ o \in {"info", "counters", "resizezone", "snapshot"} \cup DeviceCalls \cup LifeCalls
  \/ v = "created" /\ o = "resume"
  \/ v # "none" /\ o = "restore"

Unsuitable(o, v) ==
  \/ v = "created" /\ o \in {"pause", "shutdown", "reboot", "powerbutton", "snapshot"}
  \/ v = "running" /\ o = "resume"

\* What an operation makes of a VM it suits.
Effect(o, v, next) ==
  \/ o = "create" /\ v = "none" /\ next = "created"
  \/ o = "delete" /\ next = "none"
  \/ o = "boot" /\ v = "created" /\ next = "running"
  \/ o = "pause" /\ v = "running" /\ next = "paused"
  \/ o = "resume" /\ v = "paused" /\ next = "running"
  \/ o = "shutdown" /\ v \in {"running", "paused"} /\ next = "created"
  \/ o = "reboot" /\ v \in {"running", "paused"} /\ next = "running"
  \/ o = "powerbutton" /\ v \in {"running", "paused"} /\ next = v
  \/ o \in {"info", "counters", "resize", "resizezone"} \cup DeviceCalls /\ v # "none" /\ next = v
  \/ o = "snapshot" /\ v = "paused" /\ next = v
  \/ o = "restore" /\ v = "none" /\ next = "paused"
  \/ o \in {"ping", "nmi", "migrate"} /\ next = v
  \/ o = "vmmshutdown" /\ next = "none"   \* the process ends after its answer

\* The answers of a VMM with a VM in state v, as the client's cases expect them.
Answers(o, v) ==
  {r \in Replies :
     \/ r = Reply(500, v)
     \/ r = Reply(404, v) /\ Refusal(o, v)
     \/ r = Reply(405, v) /\ Unsuitable(o, v)
     \/ /\ Effect(o, v, r.next)
        /\ r.code = IF o \in Gets \/ (o = "add" /\ v # "created") THEN 200 ELSE 204}

\* Every call under way sees the state the VM takes.
Observed(v) ==
  [c \in Callers |-> seen[c] \cup (IF pc[c] \in {"flight", "answer"} THEN {v} ELSE {})]

Serve(c) ==
  /\ c \in pending /\ up
  /\ pending' = pending \ {c}
  /\ \E r \in Answers(op[c], vm) :
       /\ vm' = r.next
       /\ seen' = Observed(r.next)
       /\ served' = [served EXCEPT ![c] = IF r.code < 300 THEN @ + 1 ELSE @]
       /\ IF pc[c] = "flight"
          THEN Goto(c, "answer") /\ code' = [code EXCEPT ![c] = r.code]
          ELSE UNCHANGED <<pc, code>>   \* nobody waits for it any more
  /\ UNCHANGED <<op, ctx, result, inflight, closer, early, up>>

\* cloud-hypervisor ends: the guest powered off, or it was killed.
VmmEnds ==
  /\ up
  /\ up' = FALSE /\ vm' = "none" /\ pending' = {}
  /\ seen' = Observed("none")
  /\ UNCHANGED <<pc, op, ctx, code, result, served, inflight, closer, early>>

----------------------------------------------------------------------------
CallStep(c) == Send(c) \/ Receive(c) \/ Break(c)
Terminated == (\A c \in Callers : pc[c] = "return") /\ closer = "closed" /\ ~up /\ UNCHANGED vars

Next ==
  \/ \E c \in Callers : Begin(c) \/ Decode(c) \/ CallStep(c) \/ Cancel(c) \/ Serve(c)
  \/ CloseCalled \/ CloseReturns \/ VmmEnds \/ Terminated

Spec == Init /\ [][Next]_vars

\* A goroutine runs on; the VMM need not answer, and stdin need not end.
FairSpec ==
  /\ Spec
  /\ \A c \in Callers : WF_vars(CallStep(c))

----------------------------------------------------------------------------
(* Properties *)

\* A call that returns nil was executed by the VMM, exactly once.
NilMeansServed ==
  \A c \in Callers : result[c] = "ok" => served[c] = 1

\* What each sentinel error says of a VM in state v.
Claims(e, v) ==
  \/ e = "ErrVmNotCreated" /\ v = "none"
  \/ e \in {"ErrVmNotBooted", "ErrVmNotStarted"} /\ v \in {"none", "created"}
  \/ e = "ErrVmNotPaused" /\ v # "paused"
  \/ e = "ErrVmAlreadyCreated" /\ v # "none"

\* A sentinel error was true at some moment between the send and the return,
\* whatever the other callers did meanwhile.
SentinelWasTrue ==
  \A c \in Callers : result[c] \in Sentinels => \E v \in seen[c] : Claims(result[c], v)

\* When Close has returned, every call that was in flight when it was called has too.
CloseWaits == closer = "closed" => early \cap InFlight = {}

\* A call whose context is done returns, although the VMM never answers it; only
\* the reading of stdin is not interrupted.
CancelledCallReturns ==
  \A c \in Callers : (ctx[c] /\ pc[c] # "decode") ~> (pc[c] = "return")
============================================================================
