------------------------- MODULE VirtiofsdRecoiler -------------------------
(***************************************************************************)
(* virtiofsdRecoiler: one goroutine per shared directory that keeps a      *)
(* virtiofsd process running through a circuit breaker, until the context  *)
(* of the ancillaries is done; its closer channel is closed when all of    *)
(* them have ended.  stopAncillaries (module Hypervisor) waits for that.   *)
(*                                                                         *)
(* The breaker (github.com/sony/gobreaker) is a dependency, modelled from  *)
(* the settings it is given.  Time is `expired`: the interval of a closed  *)
(* breaker, or the timeout of an open one, is over.                        *)
(***************************************************************************)
EXTENDS Naturals, FiniteSets

CONSTANTS
  Shares,     \* the shared directories of the manifest
  Window,     \* bound: runs of a virtiofsd that fit into one interval of the breaker
  Patience    \* bound of the history variable streak

ASSUME RecoilerAssumption ==
  IsFiniteSet(Shares) /\ Window \in Nat /\ Window >= 3 /\ Patience \in Nat

\* gobreaker.Settings: MaxRequests, and ReadyToTrip
MaxRequests == 2
ReadyToTrip(c) == c.requests >= 3 /\ (c.failures * 100) \div c.requests >= 60

VARIABLES
  pc,        \* pc[s]: where the goroutine of share s is
  recoil,    \* recoil[s]: its loop variable
  breaker,   \* breaker[s]: "closed", "open" or "halfopen"
  counts,    \* counts[s]: the requests and results of the current generation
  expired,   \* expired[s]: see above
  result,    \* result[s]: whether invoke returned nil
  proc,      \* proc[s]: the virtiofsd process
  told,      \* told[s]: it was sent SIGTERM
  sock,      \* sock[s]: the socket of the share
  pidf,      \* pidf[s]: the pid file holds the pid of this process
  ctxDone,   \* ancillaryCtx
  closed,    \* the closer channel
  streak     \* streak[s]: failures in a row since the breaker last opened (history)

vars == <<pc, recoil, breaker, counts, expired, result, proc, told, sock, pidf, ctxDone, closed,
          streak>>
breakerVars == <<breaker, counts, expired>>
procVars == <<proc, told, sock, pidf>>

NoCounts == [requests |-> 0, failures |-> 0, consecutive |-> 0]

TypeOK ==
  /\ pc \in [Shares -> {"loop", "launch", "fork", "pidfile", "pidfail", "wait", "clean", "check",
                        "after", "end"}]
  /\ recoil \in [Shares -> BOOLEAN]
  /\ breaker \in [Shares -> {"closed", "open", "halfopen"}]
  /\ counts \in [Shares -> [requests : 0 .. Window, failures : 0 .. Window,
                            consecutive : 0 .. Window]]
  /\ expired \in [Shares -> BOOLEAN] /\ result \in [Shares -> BOOLEAN]
  /\ proc \in [Shares -> {"none", "alive", "exited"}]
  /\ told \in [Shares -> BOOLEAN]
  /\ sock \in [Shares -> {"none", "stale", "live"}]
  /\ pidf \in [Shares -> BOOLEAN]
  /\ ctxDone \in BOOLEAN /\ closed \in BOOLEAN
  /\ streak \in [Shares -> 0 .. Patience]

Init ==
  /\ pc = [s \in Shares |-> "loop"]
  /\ recoil = [s \in Shares |-> TRUE]
  /\ breaker = [s \in Shares |-> "closed"]
  /\ counts = [s \in Shares |-> NoCounts]
  /\ expired = [s \in Shares |-> FALSE]
  /\ result = [s \in Shares |-> FALSE]
  /\ proc = [s \in Shares |-> "none"]
  /\ told = [s \in Shares |-> FALSE]
  /\ sock \in [Shares -> {"none", "stale"}]
  /\ pidf = [s \in Shares |-> FALSE]
  /\ ctxDone = FALSE /\ closed = FALSE
  /\ streak = [s \in Shares |-> 0]

Goto(s, next) == pc' = [pc EXCEPT ![s] = next]

----------------------------------------------------------------------------
(* The circuit breaker *)

\* toNewGeneration
Generation(s, b) ==
  /\ breaker' = [breaker EXCEPT ![s] = b]
  /\ counts' = [counts EXCEPT ![s] = NoCounts]
  /\ expired' = [expired EXCEPT ![s] = FALSE]

\* beforeRequest accepts: first an expired interval starts a new generation and
\* an expired timeout half-opens the breaker; then the request is counted.
Accept(s) ==
  LET b == IF breaker[s] = "open" /\ expired[s] THEN "halfopen" ELSE breaker[s]
      c == IF expired[s] /\ breaker[s] # "halfopen" THEN NoCounts ELSE counts[s]
  IN /\ b # "open"
     /\ b = "halfopen" => c.requests < MaxRequests
     /\ c.requests < Window
     /\ breaker' = [breaker EXCEPT ![s] = b]
     /\ counts' = [counts EXCEPT ![s] = [c EXCEPT !.requests = @ + 1]]
     /\ expired' = [expired EXCEPT ![s] = FALSE]

\* Faulty variant: the half-open breaker closes one success too late.
SuccessOffByOne(s) ==
  LET c == [counts[s] EXCEPT !.consecutive = @ + 1]
  IN IF breaker[s] = "closed" /\ expired[s] THEN Generation(s, "closed")
     ELSE IF breaker[s] = "halfopen" /\ c.consecutive > MaxRequests THEN Generation(s, "closed")
     ELSE counts' = [counts EXCEPT ![s] = c] /\ UNCHANGED <<breaker, expired>>

\* Faulty variant: a failed request is taken back from the requests.
FailureUncounted(s) ==
  LET c == [requests |-> counts[s].requests - 1, failures |-> counts[s].failures + 1,
            consecutive |-> 0]
  IN IF breaker[s] = "halfopen" \/ ReadyToTrip(c) THEN Generation(s, "open")
     ELSE counts' = [counts EXCEPT ![s] = c] /\ UNCHANGED <<breaker, expired>>

\* afterRequest: a result that comes after the interval it was asked in counts nothing.
Success(s) ==
  LET c == [counts[s] EXCEPT !.consecutive = @ + 1]
  IN IF breaker[s] = "closed" /\ expired[s] THEN Generation(s, "closed")
     ELSE IF breaker[s] = "halfopen" /\ c.consecutive >= MaxRequests THEN Generation(s, "closed")
     ELSE counts' = [counts EXCEPT ![s] = c] /\ UNCHANGED <<breaker, expired>>

Failure(s) ==
  LET c == [requests |-> counts[s].requests, failures |-> counts[s].failures + 1,
            consecutive |-> 0]
  IN IF breaker[s] = "closed" /\ expired[s] THEN Generation(s, "closed")
     ELSE IF breaker[s] = "halfopen" \/ ReadyToTrip(c) THEN Generation(s, "open")
     ELSE counts' = [counts EXCEPT ![s] = c] /\ UNCHANGED <<breaker, expired>>

\* Time passes: 100 ms in a closed breaker, 3 s in an open one.
Expire(s) ==
  /\ breaker[s] # "halfopen" /\ ~expired[s] /\ pc[s] # "end"
  /\ expired' = [expired EXCEPT ![s] = TRUE]
  /\ UNCHANGED <<pc, recoil, breaker, counts, result, procVars, ctxDone, closed, streak>>

----------------------------------------------------------------------------
(* The goroutine of a share.  An Execute the breaker rejects changes nothing: *)
(* the loop spins until the timeout is over.                                  *)

Execute(s) ==
  /\ pc[s] = "loop" /\ recoil[s]
  /\ Accept(s)
  /\ Goto(s, "launch")
  /\ sock' = [sock EXCEPT ![s] = "none"]
  /\ UNCHANGED <<recoil, result, proc, told, pidf, ctxDone, closed, streak>>

\* invoke: cmd.Start looks at the context first, and then forks.  (On Linux setting the
\* process attributes does not fail, so that nothing returns before invoke.)
LaunchChecks(s) ==
  /\ pc[s] = "launch"
  /\ Goto(s, IF ctxDone THEN "check" ELSE "fork")
  /\ UNCHANGED <<recoil, breakerVars, result, procVars, ctxDone, closed, streak>>

LaunchForks(s) ==
  /\ pc[s] = "fork"
  /\ \/ Goto(s, "check") /\ UNCHANGED proc   \* the binary cannot be executed
     \/ /\ Goto(s, "pidfile")
        /\ proc' = [proc EXCEPT ![s] = "alive"]
  /\ UNCHANGED <<recoil, breakerVars, result, told, sock, pidf, ctxDone, closed, streak>>

\* AcquirePidFileReplacing; when it fails the process gets SIGTERM.
RecordPid(s) ==
  /\ pc[s] = "pidfile"
  /\ \/ /\ Goto(s, "wait")
        /\ pidf' = [pidf EXCEPT ![s] = TRUE]
        /\ UNCHANGED told
     \/ /\ Goto(s, "pidfail")
        /\ told' = [told EXCEPT ![s] = TRUE]
        /\ UNCHANGED pidf
  /\ UNCHANGED <<recoil, breakerVars, result, proc, sock, ctxDone, closed, streak>>

Exits(s, st) ==
  /\ proc' = [proc EXCEPT ![s] = "exited"]
  /\ sock' = [sock EXCEPT ![s] = IF @ = "live" THEN "stale" ELSE @]
  /\ result' = [result EXCEPT ![s] = st]

\* One second, then SIGKILL, then cmd.Wait: an error in any case.
RecordFailed(s) ==
  /\ pc[s] = "pidfail"
  /\ \/ proc[s] = "alive" /\ Exits(s, FALSE) /\ UNCHANGED <<pc, told>>
     \/ /\ proc[s] = "exited"
        /\ Goto(s, "check")
        /\ proc' = [proc EXCEPT ![s] = "none"]
        /\ told' = [told EXCEPT ![s] = FALSE]
        /\ result' = [result EXCEPT ![s] = FALSE]
        /\ UNCHANGED sock
  /\ UNCHANGED <<recoil, breakerVars, pidf, ctxDone, closed, streak>>

\* cmd.Wait, and the deferred pidClean.
Reap(s) ==
  /\ pc[s] = "wait" /\ proc[s] = "exited"
  /\ Goto(s, "clean")
  /\ proc' = [proc EXCEPT ![s] = "none"]
  /\ told' = [told EXCEPT ![s] = FALSE]
  /\ UNCHANGED <<recoil, breakerVars, result, sock, pidf, ctxDone, closed, streak>>

RemovePid(s) ==
  /\ pc[s] = "clean"
  /\ Goto(s, "check")
  /\ pidf' = [pidf EXCEPT ![s] = FALSE]
  /\ UNCHANGED <<recoil, breakerVars, result, proc, told, sock, ctxDone, closed, streak>>

\* Faulty variant: a clean exit of virtiofsd ends the loop.
CheckContextOrSuccess(s) ==
  /\ pc[s] = "check"
  /\ Goto(s, "after")
  /\ recoil' = [recoil EXCEPT ![s] = @ /\ ~ctxDone /\ ~result[s]]
  /\ UNCHANGED <<breakerVars, result, procVars, ctxDone, closed, streak>>

\* The select on ctx.Done() at the end of the executed function.
CheckContext(s) ==
  /\ pc[s] = "check"
  /\ Goto(s, "after")
  /\ recoil' = [recoil EXCEPT ![s] = @ /\ ~ctxDone]
  /\ UNCHANGED <<breakerVars, result, procVars, ctxDone, closed, streak>>

AfterRequest(s) ==
  /\ pc[s] = "after"
  /\ Goto(s, "loop")
  /\ IF result[s] THEN Success(s) ELSE Failure(s)
  /\ result' = [result EXCEPT ![s] = FALSE]
  /\ streak' = [streak EXCEPT ![s] = IF result[s] \/ breaker'[s] = "open" THEN 0
                                     ELSE IF @ = Patience THEN @ ELSE @ + 1]
  /\ UNCHANGED <<recoil, procVars, ctxDone, closed>>

\* recoil is false: wg.Done().
LoopEnds(s) ==
  /\ pc[s] = "loop" /\ ~recoil[s]
  /\ Goto(s, "end")
  /\ UNCHANGED <<recoil, breakerVars, result, procVars, ctxDone, closed, streak>>

\* wg.Wait() returns and closer is closed.
Close ==
  /\ ~closed
  /\ \A s \in Shares : pc[s] = "end"
  /\ closed' = TRUE
  /\ UNCHANGED <<pc, recoil, breakerVars, result, procVars, ctxDone, streak>>

----------------------------------------------------------------------------
(* The context, and the process itself *)

Cancel ==
  /\ ~ctxDone
  /\ ctxDone' = TRUE
  /\ UNCHANGED <<pc, recoil, breakerVars, result, procVars, closed, streak>>

\* cmd.Cancel: SIGTERM once the context is done.
Terminate(s) ==
  /\ ctxDone /\ proc[s] = "alive" /\ ~told[s]
  /\ told' = [told EXCEPT ![s] = TRUE]
  /\ UNCHANGED <<pc, recoil, breakerVars, result, proc, sock, pidf, ctxDone, closed, streak>>

Bind(s) ==
  /\ proc[s] = "alive" /\ sock[s] = "none"
  /\ sock' = [sock EXCEPT ![s] = "live"]
  /\ UNCHANGED <<pc, recoil, breakerVars, result, proc, told, pidf, ctxDone, closed, streak>>

ProcessExits(s) ==
  /\ proc[s] = "alive"
  /\ \E st \in BOOLEAN : Exits(s, st)
  /\ UNCHANGED <<pc, recoil, breakerVars, told, pidf, ctxDone, closed, streak>>

----------------------------------------------------------------------------
GoroutineStep(s) ==
  \/ Execute(s) \/ LaunchChecks(s) \/ LaunchForks(s) \/ RecordPid(s) \/ RecordFailed(s)
  \/ Reap(s) \/ RemovePid(s) \/ CheckContext(s) \/ AfterRequest(s) \/ LoopEnds(s)

Terminated == closed /\ UNCHANGED vars

Next ==
  \/ \E s \in Shares : \/ GoroutineStep(s) \/ Expire(s) \/ Terminate(s) \/ Bind(s)
                       \/ ProcessExits(s)
  \/ Close \/ Cancel \/ Terminated

Spec == Init /\ [][Next]_vars

\* Goroutines run, time passes, and a virtiofsd that was told to end does.
Fairness ==
  /\ \A s \in Shares : /\ WF_vars(GoroutineStep(s))
                       /\ WF_vars(Expire(s))
                       /\ WF_vars(Terminate(s))
                       /\ WF_vars(ProcessExits(s) /\ told[s])
  /\ WF_vars(Close)

FairSpec == Spec /\ Fairness

----------------------------------------------------------------------------
(* What it promises: module ShareKeeper *)

\* The helper of a share, from the fork to the removal of its pid file.
Helper(s) ==
  IF proc[s] = "alive" THEN "running"
  ELSE IF proc[s] = "exited" \/ pidf[s] THEN "remains" ELSE "none"

Keeper == INSTANCE ShareKeeper WITH
  helper <- [s \in Shares |-> Helper(s)],
  kept <- {s \in Shares : pc[s] # "end"},
  cancelled <- ctxDone

----------------------------------------------------------------------------
(* Properties *)

\* The recoiler implements ShareKeeper: whatever the breaker counts, the
\* goroutines start, reap, clean up, give up and close in its order only.
KeepsShares == Keeper!Spec

\* The breaker rejects no request of the loop once it is half-open: with one
\* request at a time, MaxRequests is never reached without a transition.
HalfOpenAdmits ==
  \A s \in Shares : breaker[s] = "halfopen" /\ pc[s] = "loop" =>
    counts[s].requests < MaxRequests /\ counts[s].requests = counts[s].consecutive

\* A share without a process gets another attempt, whatever the breaker counted,
\* unless the recoiler is cancelled.
ShareIsRetried ==
  \A s \in Shares : (pc[s] = "loop" /\ ~ctxDone) ~> (pc[s] = "launch" \/ ctxDone)

\* Cancelling closes the channel stopAncillaries waits for, from every state of
\* every breaker (an open one delays it for its timeout).
CancelCloses == ctxDone ~> closed

\* A virtiofsd that fails every time opens the breaker before it has failed
\* Patience times in a row ("the recoiler mitigates repeated failures").
RepeatedFailureTrips == \A s \in Shares : streak[s] < Patience
============================================================================
