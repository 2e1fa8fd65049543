----------------------- MODULE VirtiofsdRecoilerProofs -----------------------
(***************************************************************************)
(* What VirtiofsdRecoiler promises for any set of shares and any Window:   *)
(* one reaped process per goroutine, no goroutine that gives up early,     *)
(* nothing left behind once the closer channel is closed -- in short, that *)
(* it implements ShareKeeper.                                              *)
(***************************************************************************)
EXTENDS VirtiofsdRecoiler, TLAPS

\* The parts of TypeOK the proofs need: every goroutine is somewhere, and the
\* variables are functions over Shares.
Shape ==
  /\ pc \in [Shares -> {"loop", "launch", "fork", "pidfile", "pidfail", "wait", "clean", "check",
                        "after", "end"}]
  /\ recoil \in [Shares -> BOOLEAN]
  /\ proc \in [Shares -> {"none", "alive", "exited"}]
  /\ pidf \in [Shares -> BOOLEAN]
  /\ ctxDone \in BOOLEAN

\* From the fork until it is reaped there is a process, alive or not.
HasProcess ==
  \A s \in Shares : pc[s] \in {"pidfile", "pidfail", "wait"} => proc[s] # "none"

\* Once closer is closed no virtiofsd of this manager is left, and no pid file of one.
ClosedMeansStopped ==
  closed => \A s \in Shares : proc[s] = "none" /\ ~pidf[s]

\* A goroutine never starts a second virtiofsd of its share, and never gives up
\* one that it has not reaped: outside of invoke there is neither process nor pid file.
ReapedBeforeRestart ==
  \A s \in Shares : pc[s] \in {"loop", "launch", "fork", "check", "after", "end"} =>
    proc[s] = "none" /\ ~pidf[s]

\* A goroutine ends its loop only after the context was done: no result of the
\* process and no state of the breaker makes it give up its share.
GivesUpOnlyWhenCancelled ==
  \A s \in Shares : pc[s] = "end" \/ ~recoil[s] => ctxDone

\* Between reaping the process and removing its pid file only the file is left.
FileOutlivesProcess ==
  \A s \in Shares : /\ pc[s] = "clean" => proc[s] = "none"
                    /\ pc[s] \in {"pidfile", "pidfail"} => ~pidf[s]

\* closer is closed by the last goroutine.
ClosedAtEnd == closed => \A s \in Shares : pc[s] = "end"

RecoilerInv ==
  Shape /\ HasProcess /\ FileOutlivesProcess /\ ReapedBeforeRestart /\ GivesUpOnlyWhenCancelled /\ ClosedAtEnd

\* The initial states satisfy the invariant.
LEMMA InitRecoiler == Init => RecoilerInv
<1> SUFFICES ASSUME Init PROVE RecoilerInv
  OBVIOUS
<1>1. Shape
  BY DEF Init, Shape
<1>2. HasProcess /\ FileOutlivesProcess /\ ReapedBeforeRestart
  BY DEF Init, HasProcess, FileOutlivesProcess, ReapedBeforeRestart
<1>3. GivesUpOnlyWhenCancelled
  BY DEF Init, GivesUpOnlyWhenCancelled
<1>4. ClosedAtEnd
  BY DEF Init, ClosedAtEnd
<1> QED
  BY <1>1, <1>2, <1>3, <1>4 DEF RecoilerInv

\* Every step keeps it: one case per action, the goroutine's own actions first.
LEMMA RecoilerStep == RecoilerInv /\ [Next]_vars => RecoilerInv'
<1> SUFFICES ASSUME RecoilerInv, [Next]_vars PROVE RecoilerInv'
  OBVIOUS
<1> USE DEF RecoilerInv, Shape, HasProcess, FileOutlivesProcess, ReapedBeforeRestart,
            GivesUpOnlyWhenCancelled, ClosedAtEnd, Goto, procVars, breakerVars
<1>1. ASSUME NEW s \in Shares, Execute(s) PROVE RecoilerInv'
  BY <1>1 DEF Execute
<1>2. ASSUME NEW s \in Shares, LaunchChecks(s) PROVE RecoilerInv'
  BY <1>2 DEF LaunchChecks
<1>3. ASSUME NEW s \in Shares, LaunchForks(s) PROVE RecoilerInv'
  BY <1>3 DEF LaunchForks
<1>4. ASSUME NEW s \in Shares, RecordPid(s) PROVE RecoilerInv'
  <2>1. CASE pc' = [pc EXCEPT ![s] = "wait"] /\ pidf' = [pidf EXCEPT ![s] = TRUE]
    BY <1>4, <2>1 DEF RecordPid
  <2>2. CASE pc' = [pc EXCEPT ![s] = "pidfail"] /\ pidf' = pidf
    BY <1>4, <2>2 DEF RecordPid
  <2> QED
    BY <1>4, <2>1, <2>2 DEF RecordPid
<1>5. ASSUME NEW s \in Shares, RecordFailed(s) PROVE RecoilerInv'
  BY <1>5 DEF RecordFailed, Exits
<1>6. ASSUME NEW s \in Shares, Reap(s) PROVE RecoilerInv'
  BY <1>6 DEF Reap
<1>7. ASSUME NEW s \in Shares, RemovePid(s) PROVE RecoilerInv'
  BY <1>7 DEF RemovePid
<1>8. ASSUME NEW s \in Shares, CheckContext(s) PROVE RecoilerInv'
  BY <1>8 DEF CheckContext
<1>9. ASSUME NEW s \in Shares, AfterRequest(s) PROVE RecoilerInv'
  BY <1>9 DEF AfterRequest
<1>10. ASSUME NEW s \in Shares, LoopEnds(s) PROVE RecoilerInv'
  BY <1>10 DEF LoopEnds
<1>11. ASSUME NEW s \in Shares, Expire(s) \/ Terminate(s) \/ Bind(s) PROVE RecoilerInv'
  BY <1>11 DEF Expire, Terminate, Bind
<1>12. ASSUME NEW s \in Shares, ProcessExits(s) PROVE RecoilerInv'
  BY <1>12 DEF ProcessExits, Exits
<1>13. CASE Close
  BY <1>13 DEF Close
<1>14. CASE Cancel
  BY <1>14 DEF Cancel
<1>15. CASE UNCHANGED vars
  BY <1>15 DEF vars
<1> QED
  BY <1>1, <1>2, <1>3, <1>4, <1>5, <1>6, <1>7, <1>8, <1>9, <1>10, <1>11, <1>12, <1>13, <1>14,
     <1>15 DEF Next, GoroutineStep, Terminated

\* Whatever the number of shares, closing the channel means that every virtiofsd
\* has been reaped and every pid file removed.
THEOREM RecoilerStops == Spec => []ClosedMeansStopped
<1>1. RecoilerInv => ClosedMeansStopped
  BY DEF RecoilerInv, ClosedAtEnd, ReapedBeforeRestart, ClosedMeansStopped
<1> QED
  BY <1>1, InitRecoiler, RecoilerStep, PTL DEF Spec

\* A goroutine never has two processes, nor a pid file without one.
THEOREM RecoilerReaps == Spec => []ReapedBeforeRestart
<1>1. RecoilerInv => ReapedBeforeRestart
  BY DEF RecoilerInv
<1> QED
  BY <1>1, InitRecoiler, RecoilerStep, PTL DEF Spec

\* No result of the process and no state of the breaker makes a goroutine give up.
THEOREM RecoilerPersists == Spec => []GivesUpOnlyWhenCancelled
<1>1. RecoilerInv => GivesUpOnlyWhenCancelled
  BY DEF RecoilerInv
<1> QED
  BY <1>1, InitRecoiler, RecoilerStep, PTL DEF Spec

----------------------------------------------------------------------------
(* The refinement *)

\* The first state of the recoiler is the first state of ShareKeeper.
LEMMA KeeperInit == Init => Keeper!Init
  BY DEF Init, Keeper!Init, Helper

\* Every step of the recoiler is one of ShareKeeper's or changes nothing it sees:
\* the fork starts the helper, its exit ends it, the last of cmd.Wait and the
\* pid file's removal cleans it, and the end of the goroutine gives it up.
LEMMA KeeperStep ==
  RecoilerInv /\ [Next]_vars => [Keeper!Next]_(Keeper!vars)
<1> SUFFICES ASSUME RecoilerInv, [Next]_vars PROVE [Keeper!Next]_(Keeper!vars)
  OBVIOUS
<1> USE DEF RecoilerInv, Shape, Goto, procVars, breakerVars
<1> DEFINE H == [s \in Shares |-> Helper(s)]
           K == {s \in Shares : pc[s] # "end"}
<1>0. ASSUME H' = H, K' = K, UNCHANGED <<ctxDone, closed>> PROVE [Keeper!Next]_(Keeper!vars)
  BY <1>0 DEF Keeper!vars
\* A step of one goroutine that leaves its helper as it is.
<1>1. ASSUME NEW s \in Shares, NEW next \in {"loop", "launch", "fork", "pidfile", "pidfail", "wait",
                                             "clean", "check", "after"},
             pc[s] # "end", pc' = pc \/ pc' = [pc EXCEPT ![s] = next]
      PROVE  K' = K
  BY <1>1
\* A step that moves the helper of s and nothing else ShareKeeper sees.
<1>2. ASSUME NEW s \in Shares, H' = [H EXCEPT ![s] = Helper(s)'], K' = K,
             UNCHANGED <<ctxDone, closed>>,
             \/ pc[s] # "end" /\ Helper(s) = "none" /\ Helper(s)' = "running"
             \/ Helper(s) = "running" /\ Helper(s)' = "remains"
             \/ Helper(s) = "remains" /\ Helper(s)' = "none"
             \/ Helper(s)' = Helper(s)
      PROVE  [Keeper!Next]_(Keeper!vars)
  <2>1. H[s] = Helper(s)
    OBVIOUS
  <2> HIDE DEF H
  <2>2. CASE pc[s] # "end" /\ Helper(s) = "none" /\ Helper(s)' = "running"
    <3>1. s \in K
      BY <2>2
    <3>2. Keeper!Start(s)
      BY <1>2, <2>1, <2>2, <3>1 DEF Keeper!Start, Keeper!Becomes, H
    <3> QED
      BY <3>2 DEF Keeper!Next
  <2>3. CASE Helper(s) = "running" /\ Helper(s)' = "remains"
    BY <1>2, <2>1, <2>3 DEF Keeper!Next, Keeper!Ends, Keeper!Becomes, H
  <2>4. CASE Helper(s) = "remains" /\ Helper(s)' = "none"
    BY <1>2, <2>1, <2>4 DEF Keeper!Next, Keeper!Clean, Keeper!Becomes, H
  <2>5. CASE Helper(s)' = Helper(s)
    <3>1. H' = H
      BY <1>2, <2>5 DEF H
    <3> QED
      BY <1>0, <1>2, <3>1
  <2> QED
    BY <1>2, <2>2, <2>3, <2>4, <2>5
\* A change of process and pid file of one share leaves the helpers of the others.
<1>3. ASSUME NEW s \in Shares, NEW a, NEW b,
             proc' = [proc EXCEPT ![s] = a], pidf' = [pidf EXCEPT ![s] = b]
      PROVE  /\ H' = [H EXCEPT ![s] = Helper(s)']
             /\ Helper(s)' = IF a = "alive" THEN "running"
                             ELSE IF a = "exited" \/ b THEN "remains" ELSE "none"
  BY <1>3 DEF Helper
<1>4. ASSUME UNCHANGED <<proc, pidf>> PROVE H' = H
  BY <1>4 DEF Helper
<1> HIDE DEF H, K
<1>5. ASSUME NEW s \in Shares,
             Execute(s) \/ LaunchChecks(s) \/ CheckContext(s) \/ AfterRequest(s)
      PROVE  [Keeper!Next]_(Keeper!vars)
  BY <1>0, <1>1, <1>4, <1>5 DEF Execute, LaunchChecks, CheckContext, AfterRequest
<1>6. ASSUME NEW s \in Shares, LaunchForks(s) PROVE [Keeper!Next]_(Keeper!vars)
  <2>1. K' = K /\ UNCHANGED <<ctxDone, closed>> /\ pc[s] # "end" /\ proc[s] = "none" /\ ~pidf[s]
    BY <1>1, <1>6 DEF LaunchForks, ReapedBeforeRestart
  <2>2. CASE UNCHANGED proc
    BY <1>0, <1>4, <1>6, <2>1, <2>2 DEF LaunchForks
  <2>3. CASE proc' = [proc EXCEPT ![s] = "alive"]
    <3>1. pidf' = [pidf EXCEPT ![s] = FALSE]
      BY <1>6, <2>1 DEF LaunchForks
    <3> QED
      BY <1>2, <1>3, <2>1, <2>3, <3>1 DEF Helper
  <2> QED
    BY <1>6, <2>2, <2>3 DEF LaunchForks
<1>7. ASSUME NEW s \in Shares, RecordPid(s) PROVE [Keeper!Next]_(Keeper!vars)
  <2>1. K' = K /\ UNCHANGED <<proc, ctxDone, closed>>
    BY <1>1, <1>7 DEF RecordPid
  <2>2. CASE UNCHANGED pidf
    BY <1>0, <1>4, <2>1, <2>2
  <2>3. CASE pidf' = [pidf EXCEPT ![s] = TRUE]
    <3>1. proc' = [proc EXCEPT ![s] = proc[s]] /\ proc[s] \in {"alive", "exited"}
      BY <1>7, <2>1 DEF RecordPid, HasProcess
    <3> QED
      BY <1>2, <1>3, <2>1, <2>3, <3>1 DEF Helper
  <2> QED
    BY <1>7, <2>2, <2>3 DEF RecordPid
<1>8. ASSUME NEW s \in Shares, RecordFailed(s) PROVE [Keeper!Next]_(Keeper!vars)
  <2>1. K' = K /\ UNCHANGED <<ctxDone, closed>> /\ pidf' = [pidf EXCEPT ![s] = FALSE]
    BY <1>1, <1>8 DEF RecordFailed, FileOutlivesProcess
  <2>2. CASE proc[s] = "alive" /\ proc' = [proc EXCEPT ![s] = "exited"]
    BY <1>2, <1>3, <2>1, <2>2 DEF Helper
  <2>3. CASE proc[s] = "exited" /\ proc' = [proc EXCEPT ![s] = "none"]
    BY <1>2, <1>3, <2>1, <2>3 DEF Helper
  <2> QED
    BY <1>8, <2>2, <2>3 DEF RecordFailed, Exits
<1>9. ASSUME NEW s \in Shares, Reap(s) PROVE [Keeper!Next]_(Keeper!vars)
  <2>1. K' = K /\ UNCHANGED <<ctxDone, closed>> /\ pidf' = [pidf EXCEPT ![s] = pidf[s]]
    BY <1>1, <1>9 DEF Reap
  <2>2. proc[s] = "exited" /\ proc' = [proc EXCEPT ![s] = "none"]
    BY <1>9 DEF Reap
  <2> QED
    BY <1>2, <1>3, <2>1, <2>2 DEF Helper
<1>10. ASSUME NEW s \in Shares, RemovePid(s) PROVE [Keeper!Next]_(Keeper!vars)
  <2>1. K' = K /\ UNCHANGED <<ctxDone, closed>> /\ pidf' = [pidf EXCEPT ![s] = FALSE]
    BY <1>1, <1>10 DEF RemovePid
  <2>2. proc[s] = "none" /\ proc' = [proc EXCEPT ![s] = "none"]
    BY <1>10 DEF RemovePid, FileOutlivesProcess
  <2> QED
    BY <1>2, <1>3, <2>1, <2>2 DEF Helper
<1>11. ASSUME NEW s \in Shares, LoopEnds(s) PROVE [Keeper!Next]_(Keeper!vars)
  <2>1. UNCHANGED <<ctxDone, closed>> /\ H' = H
    BY <1>4, <1>11 DEF LoopEnds
  <2>2. ctxDone /\ H[s] = "none"
    BY <1>11 DEF LoopEnds, GivesUpOnlyWhenCancelled, ReapedBeforeRestart, H, Helper
  <2>3. s \in K /\ K' = K \ {s}
    BY <1>11 DEF LoopEnds, K
  <2> QED
    BY <2>1, <2>2, <2>3 DEF Keeper!Next, Keeper!GiveUp, H, K
<1>12. ASSUME NEW s \in Shares, Expire(s) \/ Terminate(s) \/ Bind(s)
      PROVE  [Keeper!Next]_(Keeper!vars)
  BY <1>0, <1>4, <1>12 DEF Expire, Terminate, Bind, K
<1>13. ASSUME NEW s \in Shares, ProcessExits(s) PROVE [Keeper!Next]_(Keeper!vars)
  <2>1. K' = K /\ UNCHANGED <<ctxDone, closed>> /\ pidf' = [pidf EXCEPT ![s] = pidf[s]]
    BY <1>13 DEF ProcessExits, K
  <2>2. proc[s] = "alive" /\ proc' = [proc EXCEPT ![s] = "exited"]
    BY <1>13 DEF ProcessExits, Exits
  <2> QED
    BY <1>2, <1>3, <2>1, <2>2 DEF Helper
<1>14. CASE Close
  <2>1. K = {} /\ K' = K /\ H' = H /\ closed' = TRUE /\ UNCHANGED ctxDone
    BY <1>4, <1>14 DEF Close, K
  <2> QED
    BY <2>1 DEF Keeper!Next, Keeper!Close, H, K
<1>15. CASE Cancel
  <2>1. K' = K /\ H' = H /\ ctxDone' = TRUE /\ UNCHANGED closed
    BY <1>4, <1>15 DEF Cancel, K
  <2> QED
    BY <2>1 DEF Keeper!Next, Keeper!Cancel, H, K
<1>16. CASE UNCHANGED vars
  BY <1>0, <1>4, <1>16 DEF vars, K
<1> QED
  BY <1>5, <1>6, <1>7, <1>8, <1>9, <1>10, <1>11, <1>12, <1>13, <1>14, <1>15, <1>16
  DEF Next, GoroutineStep, Terminated

\* The recoiler implements ShareKeeper.
THEOREM RecoilerKeepsShares == Spec => KeepsShares
  BY InitRecoiler, RecoilerStep, KeeperInit, KeeperStep, PTL DEF Spec, KeepsShares, Keeper!Spec

----------------------------------------------------------------------------
(* The half-open breaker *)

\* While half-open every counted request but the running one has succeeded, and
\* fewer than MaxRequests have.
Running(s) == pc[s] \notin {"loop", "end"}
CountInv ==
  /\ pc \in [Shares -> {"loop", "launch", "fork", "pidfile", "pidfail", "wait", "clean", "check",
                        "after", "end"}]
  /\ breaker \in [Shares -> {"closed", "open", "halfopen"}]
  /\ expired \in [Shares -> BOOLEAN]
  /\ counts \in [Shares -> [requests : Nat, failures : Nat, consecutive : Nat]]
  /\ \A s \in Shares : breaker[s] = "halfopen" =>
       /\ ~expired[s]
       /\ counts[s].consecutive < MaxRequests
       /\ counts[s].requests = counts[s].consecutive + (IF Running(s) THEN 1 ELSE 0)

\* Every step keeps the counts: Execute and AfterRequest change them, Expire the
\* clock, and the other steps at most the place of one goroutine.
LEMMA CountStep == CountInv /\ [Next]_vars => CountInv'
<1> SUFFICES ASSUME CountInv, [Next]_vars PROVE CountInv'
  OBVIOUS
<1> USE DEF CountInv, MaxRequests, Goto, breakerVars, procVars, Running
<1>1. ASSUME NEW s \in Shares, Execute(s) PROVE CountInv'
  <2> DEFINE b == IF breaker[s] = "open" /\ expired[s] THEN "halfopen" ELSE breaker[s]
             c == IF expired[s] /\ breaker[s] # "halfopen" THEN NoCounts ELSE counts[s]
  <2>1. c \in [requests : Nat, failures : Nat, consecutive : Nat]
    BY DEF NoCounts
  <2>2. /\ b # "open" /\ b \in {"closed", "open", "halfopen"}
        /\ breaker' = [breaker EXCEPT ![s] = b]
        /\ counts' = [counts EXCEPT ![s] = [c EXCEPT !.requests = @ + 1]]
        /\ expired' = [expired EXCEPT ![s] = FALSE]
        /\ pc' = [pc EXCEPT ![s] = "launch"]
        /\ pc[s] = "loop"
    BY <1>1 DEF Execute, Accept
  <2>3. b = "halfopen" => c.consecutive < 2 /\ c.requests = c.consecutive
    BY <2>2 DEF NoCounts
  <2> HIDE DEF b, c
  <2> QED
    BY <2>1, <2>2, <2>3
<1>2. ASSUME NEW s \in Shares, AfterRequest(s) PROVE CountInv'
  <2>1. pc[s] = "after" /\ pc' = [pc EXCEPT ![s] = "loop"]
    BY <1>2 DEF AfterRequest
  <2> DEFINE Count == [requests : Nat, failures : Nat, consecutive : Nat]
  <2>2. \/ Generation(s, "closed") \/ Generation(s, "open")
        \/ \E c \in Count : /\ counts' = [counts EXCEPT ![s] = c]
                            /\ UNCHANGED <<breaker, expired>>
                            /\ breaker[s] = "halfopen" => /\ c.consecutive < 2
                                                          /\ c.requests = c.consecutive
    <3>1. counts[s] \in Count /\ counts[s].consecutive \in Nat /\ counts[s].failures \in Nat
      OBVIOUS
    <3>2. CASE Success(s)
      <4> DEFINE c == [counts[s] EXCEPT !.consecutive = @ + 1]
      <4>1. c \in Count /\ c.consecutive = counts[s].consecutive + 1
                       /\ c.requests = counts[s].requests
        BY <3>1
      <4>2. breaker[s] = "halfopen" => c.requests = c.consecutive
        BY <4>1, <2>1
      <4>3. \/ Generation(s, "closed")
            \/ /\ counts' = [counts EXCEPT ![s] = c]
               /\ UNCHANGED <<breaker, expired>>
               /\ ~(breaker[s] = "halfopen" /\ c.consecutive >= 2)
        BY <3>2 DEF Success
      <4> HIDE DEF c
      <4> QED
        BY <4>1, <4>2, <4>3
    <3>3. CASE Failure(s)
      <4> DEFINE c == [requests |-> counts[s].requests, failures |-> counts[s].failures + 1,
                       consecutive |-> 0]
      <4>1. c \in Count
        BY <3>1
      <4>2. \/ Generation(s, "closed") \/ Generation(s, "open")
            \/ /\ counts' = [counts EXCEPT ![s] = c]
               /\ UNCHANGED <<breaker, expired>>
               /\ breaker[s] # "halfopen"
        BY <3>3 DEF Failure
      <4> HIDE DEF c
      <4> QED
        BY <4>1, <4>2
    <3> QED
      BY <1>2, <3>2, <3>3 DEF AfterRequest
  <2>3. ASSUME NEW bb \in {"closed", "open"}, Generation(s, bb) PROVE CountInv'
    BY <2>1, <2>3 DEF Generation, NoCounts
  <2>4. CASE Generation(s, "closed") \/ Generation(s, "open")
    BY <2>3, <2>4
  <2>5. CASE \E c \in Count : /\ counts' = [counts EXCEPT ![s] = c]
                              /\ UNCHANGED <<breaker, expired>>
                              /\ breaker[s] = "halfopen" => /\ c.consecutive < 2
                                                            /\ c.requests = c.consecutive
    <3>0. PICK c \in Count : /\ counts' = [counts EXCEPT ![s] = c]
                             /\ UNCHANGED <<breaker, expired>>
                             /\ breaker[s] = "halfopen" => /\ c.consecutive < 2
                                                           /\ c.requests = c.consecutive
      BY <2>5
    <3>1. counts' \in [Shares -> Count]
      BY <3>0
    <3>2. ASSUME NEW t \in Shares, breaker'[t] = "halfopen"
          PROVE  /\ ~expired'[t] /\ counts'[t].consecutive < 2
                 /\ counts'[t].requests = counts'[t].consecutive + (IF Running(t)' THEN 1 ELSE 0)
      <4>1. CASE t = s
        BY <2>1, <3>0, <3>2, <4>1
      <4>2. CASE t # s
        BY <2>1, <3>0, <3>2, <4>2
      <4> QED
        BY <4>1, <4>2
    <3>3. /\ pc' \in [Shares -> {"loop", "launch", "fork", "pidfile", "pidfail", "wait", "clean",
                                 "check", "after", "end"}]
          /\ breaker' \in [Shares -> {"closed", "open", "halfopen"}]
          /\ expired' \in [Shares -> BOOLEAN]
      BY <2>1, <3>0
    <3> QED
      BY <3>1, <3>2, <3>3
  <2> QED
    BY <2>2, <2>4, <2>5
<1>3. ASSUME NEW s \in Shares, Expire(s) PROVE CountInv'
  BY <1>3 DEF Expire
<1>4. ASSUME NEW s \in Shares,
             LaunchChecks(s) \/ LaunchForks(s) \/ RecordPid(s) \/ RecordFailed(s) \/ Reap(s)
               \/ RemovePid(s) \/ CheckContext(s) \/ LoopEnds(s)
      PROVE  CountInv'
  <2>1. UNCHANGED breakerVars
    BY <1>4 DEF LaunchChecks, LaunchForks, RecordPid, RecordFailed, Reap, RemovePid, CheckContext,
                LoopEnds
  <2>2. CASE LoopEnds(s)
    BY <2>1, <2>2 DEF LoopEnds
  <2>3. ASSUME pc[s] \notin {"loop", "end"},
               NEW next \in {"check", "fork", "pidfile", "wait", "pidfail", "clean", "after"},
               pc' = pc \/ pc' = [pc EXCEPT ![s] = next]
        PROVE  CountInv'
    BY <2>1, <2>3
  <2>4. CASE LaunchChecks(s) \/ LaunchForks(s)
    BY <2>3, <2>4 DEF LaunchChecks, LaunchForks
  <2>5. CASE RecordPid(s) \/ RecordFailed(s)
    BY <2>3, <2>5 DEF RecordPid, RecordFailed
  <2>6. CASE Reap(s) \/ RemovePid(s) \/ CheckContext(s)
    BY <2>3, <2>6 DEF Reap, RemovePid, CheckContext
  <2> QED
    BY <1>4, <2>2, <2>4, <2>5, <2>6
<1>5. ASSUME NEW s \in Shares, Terminate(s) \/ Bind(s) \/ ProcessExits(s) PROVE CountInv'
  BY <1>5 DEF Terminate, Bind, ProcessExits
<1>6. CASE Close \/ Cancel \/ UNCHANGED vars
  BY <1>6 DEF Close, Cancel, vars
<1> QED
  BY <1>1, <1>2, <1>3, <1>4, <1>5, <1>6 DEF Next, GoroutineStep, Terminated

\* A half-open breaker never rejects its goroutine: a share cannot get stuck
\* half-open, for any number of attempts.
THEOREM HalfOpenNeverStuck == Spec => []HalfOpenAdmits
<1>1. Init => CountInv
  BY DEF Init, CountInv, NoCounts, MaxRequests
<1>2. CountInv => HalfOpenAdmits
  BY DEF CountInv, HalfOpenAdmits, MaxRequests, Running
<1> QED
  BY <1>1, <1>2, CountStep, PTL DEF Spec

----------------------------------------------------------------------------
(* The types, and that no result is counted which was not requested *)

\* Within a generation the breaker counts no more results than requests, and the
\* running request of the goroutine has none yet.
CountsFit(s) ==
  /\ counts[s].failures + (IF Running(s) THEN 1 ELSE 0) <= counts[s].requests
  /\ counts[s].consecutive + (IF Running(s) THEN 1 ELSE 0) <= counts[s].requests

TypeInv == TypeOK /\ \A s \in Shares : CountsFit(s)

LEMMA TypeInit == Init => TypeInv
<1> SUFFICES ASSUME Init PROVE TypeInv
  OBVIOUS
<1>1. NoCounts \in [requests : 0 .. Window, failures : 0 .. Window, consecutive : 0 .. Window]
  BY RecoilerAssumption DEF NoCounts
<1>2. \A s \in Shares : CountsFit(s)
  BY DEF Init, CountsFit, Running, NoCounts
<1>3. sock \in [Shares -> {"none", "stale", "live"}] /\ streak \in [Shares -> 0 .. Patience]
  BY RecoilerAssumption DEF Init
<1>4. counts \in [Shares -> [requests : 0 .. Window, failures : 0 .. Window,
                            consecutive : 0 .. Window]]
  BY <1>1 DEF Init
<1> QED
  BY <1>2, <1>3, <1>4 DEF Init, TypeInv, TypeOK

\* A step that counts nothing moves at most one goroutine, and none into or out of
\* its request.
LEMMA TypeFrame ==
  ASSUME TypeInv, UNCHANGED breakerVars,
         \/ UNCHANGED pc
         \/ \E s \in Shares : /\ Running(s)
                              /\ \E next \in {"fork", "pidfile", "pidfail", "wait", "clean", "check",
                                              "after"} :
                                   pc' = [pc EXCEPT ![s] = next]
         \/ \E s \in Shares : pc[s] = "loop" /\ pc' = [pc EXCEPT ![s] = "end"]
  PROVE  /\ \A s \in Shares : CountsFit(s)'
         /\ pc' \in [Shares -> {"loop", "launch", "fork", "pidfile", "pidfail", "wait", "clean",
                                "check", "after", "end"}]
         /\ breaker' \in [Shares -> {"closed", "open", "halfopen"}]
         /\ counts' \in [Shares -> [requests : 0 .. Window, failures : 0 .. Window,
                                    consecutive : 0 .. Window]]
         /\ expired' \in [Shares -> BOOLEAN]
<1> USE DEF TypeInv, TypeOK, breakerVars
<1>1. UNCHANGED <<breaker, counts, expired>>
  OBVIOUS
<1>2. \A t \in Shares : Running(t)' = Running(t)
  BY DEF Running
<1>3. \A t \in Shares : CountsFit(t)'
  BY <1>1, <1>2 DEF CountsFit
<1>4. pc' \in [Shares -> {"loop", "launch", "fork", "pidfile", "pidfail", "wait", "clean",
                         "check", "after", "end"}]
  <2>1. CASE UNCHANGED pc
    BY <2>1
  <2>2. ASSUME NEW s \in Shares,
               NEW next \in {"fork", "pidfile", "pidfail", "wait", "clean", "check", "after", "end"},
               pc' = [pc EXCEPT ![s] = next]
        PROVE  pc' \in [Shares -> {"loop", "launch", "fork", "pidfile", "pidfail", "wait", "clean",
                                   "check", "after", "end"}]
    BY <2>2
  <2> QED
    BY <2>1, <2>2
<1> QED
  BY <1>1, <1>3, <1>4

LEMMA TypeStep == TypeInv /\ [Next]_vars => TypeInv'
<1> SUFFICES ASSUME TypeInv, [Next]_vars PROVE TypeInv'
  OBVIOUS
<1> DEFINE Count == [requests : 0 .. Window, failures : 0 .. Window, consecutive : 0 .. Window]
           PCs == {"loop", "launch", "fork", "pidfile", "pidfail", "wait", "clean", "check",
                   "after", "end"}
<1> USE DEF Goto, procVars
\* One request counted, or one result, or a new generation: at s.
<1>1. ASSUME NEW s \in Shares, NEW b \in {"closed", "open", "halfopen"}, NEW c \in Count,
             NEW e \in BOOLEAN, NEW next \in {"launch", "loop"},
             breaker' = [breaker EXCEPT ![s] = b],
             counts' = [counts EXCEPT ![s] = c], expired' = [expired EXCEPT ![s] = e],
             pc' = [pc EXCEPT ![s] = next],
             c.failures + (IF next = "launch" THEN 1 ELSE 0) <= c.requests,
             c.consecutive + (IF next = "launch" THEN 1 ELSE 0) <= c.requests
      PROVE  /\ \A t \in Shares : CountsFit(t)'
             /\ pc' \in [Shares -> PCs]
             /\ breaker' \in [Shares -> {"closed", "open", "halfopen"}]
             /\ counts' \in [Shares -> Count]
             /\ expired' \in [Shares -> BOOLEAN]
  <2>1. /\ pc' \in [Shares -> PCs]
        /\ breaker' \in [Shares -> {"closed", "open", "halfopen"}]
        /\ counts' \in [Shares -> Count]
        /\ expired' \in [Shares -> BOOLEAN]
    BY <1>1 DEF TypeInv, TypeOK
  <2>2. ASSUME NEW t \in Shares PROVE CountsFit(t)'
    <3>1. CASE t = s
      <4>1. counts'[t] = c /\ (Running(t)' <=> next = "launch")
        BY <1>1, <3>1 DEF TypeInv, TypeOK, Running
      <4> QED
        BY <1>1, <4>1 DEF CountsFit
    <3>2. CASE t # s
      <4>1. counts'[t] = counts[t] /\ (Running(t)' <=> Running(t))
        BY <1>1, <3>2 DEF TypeInv, TypeOK, Running
      <4>2. CountsFit(t)
        BY DEF TypeInv
      <4> QED
        BY <4>1, <4>2 DEF CountsFit
    <3> QED
      BY <3>1, <3>2
  <2> QED
    BY <2>1, <2>2
<1> HIDE DEF PCs
<1>2. NoCounts \in Count /\ NoCounts.failures = 0 /\ NoCounts.consecutive = 0
                        /\ NoCounts.requests = 0
  BY RecoilerAssumption DEF NoCounts
<1>3. ASSUME NEW s \in Shares, Execute(s) PROVE TypeInv'
  <2> DEFINE b == IF breaker[s] = "open" /\ expired[s] THEN "halfopen" ELSE breaker[s]
             c == IF expired[s] /\ breaker[s] # "halfopen" THEN NoCounts ELSE counts[s]
             d == [c EXCEPT !.requests = @ + 1]
  <2>1. c \in Count /\ c.failures <= c.requests /\ c.consecutive <= c.requests
    <3>1. counts[s] \in Count /\ CountsFit(s) /\ ~Running(s)
      BY <1>3 DEF TypeInv, TypeOK, Execute, Running
    <3>2. counts[s].failures <= counts[s].requests /\ counts[s].consecutive <= counts[s].requests
      BY <3>1 DEF CountsFit
    <3> QED
      BY <1>2, <3>1, <3>2
  <2>2. b \in {"closed", "open", "halfopen"}
    BY DEF TypeInv, TypeOK
  <2>3. /\ c.requests < Window
        /\ breaker' = [breaker EXCEPT ![s] = b]
        /\ counts' = [counts EXCEPT ![s] = d]
        /\ expired' = [expired EXCEPT ![s] = FALSE]
        /\ pc' = [pc EXCEPT ![s] = "launch"]
    BY <1>3 DEF Execute, Accept
  <2> HIDE DEF b, c
  <2>4. d \in Count /\ d.failures + 1 <= d.requests /\ d.consecutive + 1 <= d.requests
    BY <2>1, <2>3, RecoilerAssumption
  <2> HIDE DEF d, Count
  <2>5. /\ \A t \in Shares : CountsFit(t)'
        /\ pc' \in [Shares -> PCs]
        /\ breaker' \in [Shares -> {"closed", "open", "halfopen"}]
        /\ counts' \in [Shares -> Count]
        /\ expired' \in [Shares -> BOOLEAN]
    BY <1>1, <2>2, <2>3, <2>4
  <2> QED
    BY <1>3, <2>5 DEF Execute, TypeInv, TypeOK, PCs, Count
<1>4. ASSUME NEW s \in Shares, AfterRequest(s) PROVE TypeInv'
  <2>1. /\ counts[s] \in Count
        /\ counts[s].failures + 1 <= counts[s].requests
        /\ counts[s].consecutive + 1 <= counts[s].requests
    <3>1. counts[s] \in Count /\ CountsFit(s) /\ Running(s)
      BY <1>4 DEF TypeInv, TypeOK, AfterRequest, Running
    <3> QED
      BY <3>1 DEF CountsFit
  <2>2. \E b \in {"closed", "open", "halfopen"}, c \in Count, e \in BOOLEAN :
          /\ breaker' = [breaker EXCEPT ![s] = b] /\ counts' = [counts EXCEPT ![s] = c]
          /\ expired' = [expired EXCEPT ![s] = e]
          /\ c.failures <= c.requests /\ c.consecutive <= c.requests
    <3> DEFINE Q(b, c, e) ==
                 /\ breaker' = [breaker EXCEPT ![s] = b] /\ counts' = [counts EXCEPT ![s] = c]
                 /\ expired' = [expired EXCEPT ![s] = e]
                 /\ c.failures <= c.requests /\ c.consecutive <= c.requests
    <3>1. ASSUME NEW bb \in {"closed", "open"}, Generation(s, bb) PROVE Q(bb, NoCounts, FALSE)
      BY <1>2, <3>1 DEF Generation
    <3>2. ASSUME NEW c \in Count, counts' = [counts EXCEPT ![s] = c], UNCHANGED <<breaker, expired>>,
                 c.failures <= c.requests, c.consecutive <= c.requests
          PROVE  Q(breaker[s], c, expired[s])
      BY <3>2 DEF TypeInv, TypeOK
    <3>3. breaker[s] \in {"closed", "open", "halfopen"} /\ expired[s] \in BOOLEAN
      BY DEF TypeInv, TypeOK
    <3> HIDE DEF Q
    <3>4. ASSUME NEW bb \in {"closed", "open"}, Generation(s, bb)
          PROVE \E b \in {"closed", "open", "halfopen"}, c \in Count, e \in BOOLEAN : Q(b, c, e)
      BY <1>2, <3>1, <3>4
    <3>5. CASE result[s]
      <4> DEFINE c == [counts[s] EXCEPT !.consecutive = @ + 1]
      <4>1. c \in Count /\ c.failures <= c.requests /\ c.consecutive <= c.requests
        BY <2>1, RecoilerAssumption
      <4>2. \/ Generation(s, "closed")
            \/ counts' = [counts EXCEPT ![s] = c] /\ UNCHANGED <<breaker, expired>>
        BY <1>4, <3>5 DEF AfterRequest, Success
      <4> HIDE DEF c, Count
      <4>3. ASSUME counts' = [counts EXCEPT ![s] = c], UNCHANGED <<breaker, expired>>
            PROVE  \E b \in {"closed", "open", "halfopen"}, cc \in Count, e \in BOOLEAN : Q(b, cc, e)
        BY <3>2, <3>3, <4>1, <4>3
      <4>4. \E b \in {"closed", "open", "halfopen"}, cc \in Count, e \in BOOLEAN : Q(b, cc, e)
        BY <3>4, <4>2, <4>3
      <4> QED
        BY <4>4 DEF Q
    <3>6. CASE ~result[s]
      <4> DEFINE c == [requests |-> counts[s].requests, failures |-> counts[s].failures + 1,
                       consecutive |-> 0]
      <4>1. c \in Count /\ c.failures <= c.requests /\ c.consecutive <= c.requests
        BY <2>1, RecoilerAssumption
      <4>2. \/ Generation(s, "closed") \/ Generation(s, "open")
            \/ counts' = [counts EXCEPT ![s] = c] /\ UNCHANGED <<breaker, expired>>
        BY <1>4, <3>6 DEF AfterRequest, Failure
      <4> HIDE DEF c, Count
      <4>3. ASSUME counts' = [counts EXCEPT ![s] = c], UNCHANGED <<breaker, expired>>
            PROVE  \E b \in {"closed", "open", "halfopen"}, cc \in Count, e \in BOOLEAN : Q(b, cc, e)
        BY <3>2, <3>3, <4>1, <4>3
      <4>4. \E b \in {"closed", "open", "halfopen"}, cc \in Count, e \in BOOLEAN : Q(b, cc, e)
        BY <3>4, <4>2, <4>3
      <4> QED
        BY <4>4 DEF Q
    <3> QED
      BY <3>5, <3>6
  <2> HIDE DEF Count
  <2>3. /\ \A t \in Shares : CountsFit(t)'
        /\ pc' \in [Shares -> PCs]
        /\ breaker' \in [Shares -> {"closed", "open", "halfopen"}]
        /\ counts' \in [Shares -> Count]
        /\ expired' \in [Shares -> BOOLEAN]
    <3>1. pc' = [pc EXCEPT ![s] = "loop"]
      BY <1>4 DEF AfterRequest
    <3>2. PICK b \in {"closed", "open", "halfopen"}, c \in Count, e \in BOOLEAN :
            /\ breaker' = [breaker EXCEPT ![s] = b] /\ counts' = [counts EXCEPT ![s] = c]
            /\ expired' = [expired EXCEPT ![s] = e]
            /\ c.failures <= c.requests /\ c.consecutive <= c.requests
      BY <2>2
    <3>3. c.failures + 0 <= c.requests /\ c.consecutive + 0 <= c.requests
      BY <3>2, RecoilerAssumption DEF Count
    <3> QED
      BY <1>1, <3>1, <3>2, <3>3
  <2>4. streak' \in [Shares -> 0 .. Patience] /\ result' \in [Shares -> BOOLEAN]
    <3> DEFINE v == IF result[s] \/ breaker'[s] = "open" THEN 0
                    ELSE IF streak[s] = Patience THEN streak[s] ELSE streak[s] + 1
    <3>1. streak \in [Shares -> 0 .. Patience] /\ result \in [Shares -> BOOLEAN]
      BY DEF TypeInv, TypeOK
    <3>2. v \in 0 .. Patience
      BY <3>1, RecoilerAssumption
    <3>3. streak' = [streak EXCEPT ![s] = v] /\ result' = [result EXCEPT ![s] = FALSE]
      BY <1>4 DEF AfterRequest
    <3> HIDE DEF v
    <3> QED
      BY <3>1, <3>2, <3>3
  <2> QED
    BY <1>4, <2>3, <2>4 DEF AfterRequest, TypeInv, TypeOK, PCs, Count
<1>5. ASSUME NEW s \in Shares, Expire(s) PROVE TypeInv'
  BY <1>5 DEF Expire, TypeInv, TypeOK, CountsFit, Running
<1>6. ASSUME NEW s \in Shares,
             LaunchChecks(s) \/ LaunchForks(s) \/ RecordPid(s) \/ RecordFailed(s) \/ Reap(s)
               \/ RemovePid(s) \/ CheckContext(s) \/ LoopEnds(s) \/ Terminate(s) \/ Bind(s)
               \/ ProcessExits(s) \/ Close \/ Cancel \/ UNCHANGED vars
      PROVE  TypeInv'
  <2>1. UNCHANGED breakerVars
    BY <1>6 DEF LaunchChecks, LaunchForks, RecordPid, RecordFailed, Reap, RemovePid, CheckContext,
                LoopEnds, Terminate, Bind, ProcessExits, Close, Cancel, vars, breakerVars
  <2>2. \/ UNCHANGED pc
        \/ /\ Running(s)
           /\ \E next \in {"fork", "pidfile", "pidfail", "wait", "clean", "check", "after"} :
                pc' = [pc EXCEPT ![s] = next]
        \/ pc[s] = "loop" /\ pc' = [pc EXCEPT ![s] = "end"]
    BY <1>6 DEF LaunchChecks, LaunchForks, RecordPid, RecordFailed, Reap, RemovePid, CheckContext,
                LoopEnds, Terminate, Bind, ProcessExits, Close, Cancel, vars, Running
  <2>3. /\ recoil' \in [Shares -> BOOLEAN]
        /\ result' \in [Shares -> BOOLEAN]
        /\ proc' \in [Shares -> {"none", "alive", "exited"}]
        /\ told' \in [Shares -> BOOLEAN]
        /\ sock' \in [Shares -> {"none", "stale", "live"}]
        /\ pidf' \in [Shares -> BOOLEAN]
        /\ ctxDone' \in BOOLEAN /\ closed' \in BOOLEAN
        /\ streak' \in [Shares -> 0 .. Patience]
    <3> USE DEF TypeInv, TypeOK
    <3>1. CASE LaunchChecks(s) \/ LaunchForks(s) \/ RecordPid(s) \/ Reap(s) \/ RemovePid(s)
      BY <3>1 DEF LaunchChecks, LaunchForks, RecordPid, Reap, RemovePid
    <3>5. ASSUME NEW st \in BOOLEAN, Exits(s, st)
          PROVE  /\ proc' \in [Shares -> {"none", "alive", "exited"}]
                 /\ sock' \in [Shares -> {"none", "stale", "live"}]
                 /\ result' \in [Shares -> BOOLEAN]
      BY <3>5 DEF Exits
    <3>2. CASE RecordFailed(s) \/ ProcessExits(s)
      <4>1. CASE ProcessExits(s)
        BY <3>5, <4>1 DEF ProcessExits
      <4>2. CASE RecordFailed(s)
        BY <3>5, <4>2 DEF RecordFailed
      <4> QED
        BY <3>2, <4>1, <4>2
    <3>3. CASE CheckContext(s) \/ LoopEnds(s) \/ Terminate(s) \/ Bind(s)
      BY <3>3 DEF CheckContext, LoopEnds, Terminate, Bind
    <3>4. CASE Close \/ Cancel \/ UNCHANGED vars
      BY <3>4 DEF Close, Cancel, vars
    <3> QED
      BY <1>6, <3>1, <3>2, <3>3, <3>4
  <2> QED
    BY <2>1, <2>2, <2>3, TypeFrame DEF TypeInv, TypeOK
<1>7. CASE UNCHANGED vars \/ Close \/ Cancel
  <2>1. CASE Shares = {}
    BY <1>7, <2>1 DEF TypeInv, TypeOK, CountsFit, Running, Close, Cancel, vars, breakerVars
  <2> QED
    BY <1>6, <1>7, <2>1
<1> QED
  BY <1>3, <1>4, <1>5, <1>6, <1>7 DEF Next, GoroutineStep, Terminated

\* The variables of the recoiler keep their types; in particular Window bounds
\* what the breaker counts in one generation.
THEOREM RecoilerTypeCorrect == Spec => []TypeOK
<1>1. TypeInv => TypeOK
  BY DEF TypeInv
<1> QED
  BY <1>1, TypeInit, TypeStep, PTL DEF Spec
=============================================================================
