--------------------------- MODULE PidFileProofs ---------------------------
(***************************************************************************)
(* What the pid file protocol guarantees for any number of managers,       *)
(* shutdown commands, inodes and pids, however soon pids are recycled: the *)
(* holder of an inode's lock is unique, its pid is in the file until it    *)
(* closes it, and its cleanup removes no file but its own.                 *)
(***************************************************************************)
EXTENDS PidFile, TLAPS

USE DistinctAssumption

(***************************************************************************)
(* Type correctness, one step per action.                                  *)
(***************************************************************************)
\* Every step keeps the types.
LEMMA TypeStep == TypeOK /\ PidAssigned /\ [Next]_vars => TypeOK'
<1> SUFFICES ASSUME TypeOK, PidAssigned, [Next]_vars PROVE TypeOK'
  OBVIOUS
<1> USE DEF TypeOK, ManagerPCs, Reasons, ShutterPCs
<1>1. ASSUME NEW m \in Managers, Launch(m) PROVE TypeOK'
  BY <1>1 DEF Launch, Spent, shutVars
<1>2. ASSUME NEW m \in Managers, EndProcess(m),
             UNCHANGED <<path, content, used>>, others' \subseteq Pids,
             spc' \in [Shutters -> ShutterPCs], spid' \in [Shutters -> Pids \cup {NoPid}]
      PROVE TypeOK'
  BY <1>2 DEF EndProcess
<1>3. ASSUME NEW m \in Managers, ManagerStep(m) \/ FinishRun(m) \/ Crash(m) PROVE TypeOK'
  <2>1. CASE PrepareRead(m)
    BY <2>1 DEF PrepareRead, RecordedPid, Goto, Refuse, shutVars
  <2>2. CASE PrepareIdentify(m)
    BY <2>2 DEF PrepareIdentify, Goto, Refuse, shutVars
  <2>3. CASE OpenPidFile(m)
    BY <2>3 DEF OpenPidFile, Goto, shutVars
  <2>4. CASE LockPidFile(m)
    BY <2>4 DEF LockPidFile, Goto, Refuse, shutVars
  <2>5. CASE TruncatePidFile(m)
    BY <2>5 DEF TruncatePidFile, AcquireFails, Refuse, Goto, shutVars
  <2>6. CASE WritePidFile(m)
    <3>1. CASE why' = [why EXCEPT ![m] = "ok"] /\ content' = [content EXCEPT ![fd[m]] = pid[m]]
      <4>1. /\ fd[m] \in Inodes => content' \in [Inodes -> Pids \cup {Empty}]
            /\ fd[m] \notin Inodes => content' = content
        BY <2>6, <3>1 DEF PidAssigned, WritePidFile, AcquireFails
      <4>2. why' \in [Managers -> Reasons] /\ pc' \in [Managers -> ManagerPCs]
        BY <2>6, <3>1 DEF WritePidFile, AcquireFails, Goto, Refuse
      <4>3. lock' \in [Inodes -> Managers \cup {NoMgr}]
            /\ fd' \in [Managers -> Inodes \cup {NoInode}]
        BY <2>6 DEF WritePidFile, AcquireFails
      <4>4. content' \in [Inodes -> Pids \cup {Empty}]
        BY <4>1
      <4> QED
        BY <2>6, <4>2, <4>3, <4>4 DEF WritePidFile, AcquireFails, shutVars
    <3>2. CASE Refuse(m, "ioerror")
      BY <2>6, <3>2 DEF WritePidFile, AcquireFails, Goto, Refuse, shutVars
    <3> QED
      BY <2>6, <3>1, <3>2 DEF WritePidFile, AcquireFails
  <2>7. CASE FinishRun(m) \/ CleanLstat(m) \/ CleanRemove(m) \/ CleanClose(m)
    BY <2>7 DEF FinishRun, CleanLstat, CleanRemove, CleanClose, Goto, shutVars
  <2>8. CASE Exit(m) \/ Crash(m)
    BY <2>8, <1>2 DEF Exit, Crash
  <2> QED
    BY <1>3, <2>1, <2>2, <2>3, <2>4, <2>5, <2>6, <2>7, <2>8 DEF ManagerStep
<1>4. ASSUME NEW p \in Pids, OtherStarts(p) \/ OtherExits(p) PROVE TypeOK'
  <2>1. CASE OtherStarts(p)
    BY <2>1 DEF OtherStarts, Spent, mgrVars, shutVars
  <2>2. CASE OtherExits(p)
    <3>1. gone' \in [Shutters -> BOOLEAN] /\ others' \subseteq Pids
      BY <2>2 DEF OtherExits
    <3> QED
      BY <2>2, <3>1 DEF OtherExits, mgrVars
  <2> QED
    BY <1>4, <2>1, <2>2
<1>5. ASSUME NEW s \in Shutters, ShutterStep(s) PROVE TypeOK'
  <2>1. CASE ShutdownRead(s)
    BY <2>1 DEF ShutdownRead, RecordedPid, SGoto, Done, mgrVars
  <2>2. CASE ShutdownIdentify(s)
    BY <2>2 DEF ShutdownIdentify, Identities, SGoto, Done, mgrVars
  <2>3. CASE ShutdownTerm(s)
    BY <2>3 DEF ShutdownTerm, SGoto
  <2>4. CASE ShutdownWatch(s) \/ ShutdownReturn(s) \/ ShutdownGiveUp(s)
    <3>1. CASE ShutdownWatch(s)
      <4>1. gone' \in [Shutters -> BOOLEAN]
        BY <3>1 DEF ShutdownWatch, Live
      <4> QED
        BY <3>1, <4>1 DEF ShutdownWatch, SGoto, mgrVars
    <3>2. CASE ShutdownReturn(s)
      BY <3>2 DEF ShutdownReturn, SGoto, Done, mgrVars
    <3>3. CASE ShutdownGiveUp(s)
      BY <3>3 DEF ShutdownGiveUp, SGoto, mgrVars
    <3> QED
      BY <2>4, <3>1, <3>2, <3>3
  <2>5. CASE ShutdownKill(s)
    <3>1. spc' \in [Shutters -> ShutterPCs] /\ spid' \in [Shutters -> Pids \cup {NoPid}]
      BY <2>5 DEF ShutdownKill, Done, SGoto
    <3>2. CASE \E m \in ManagerOf(spid[s]) : EndProcess(m) /\ UNCHANGED others
      <4>1. PICK m \in Managers : EndProcess(m) /\ UNCHANGED others
        BY <3>2 DEF ManagerOf
      <4>2. UNCHANGED <<path, content, used>>
        BY <2>5 DEF ShutdownKill
      <4> QED
        BY <3>1, <4>1, <4>2, <1>2
    <3>3. CASE ~\E m \in ManagerOf(spid[s]) : EndProcess(m) /\ UNCHANGED others
      <4>1. /\ others' = others \ {spid[s]}
            /\ UNCHANGED <<lock, pc, pid, fd, rd, named, why>>
            /\ UNCHANGED <<path, content, used>>
        BY <2>5, <3>3 DEF ShutdownKill
      <4>2. gone' = [t \in Shutters |-> gone[t] \/ (/\ spid[s] \in others
                                                    /\ spc[t] = "wait"
                                                    /\ spid[t] = spid[s])]
        BY <2>5, <3>3 DEF ShutdownKill
      <4>3. gone' \in [Shutters -> BOOLEAN]
        BY <4>2
      <4> QED
        BY <3>1, <4>1, <4>3
    <3> QED
      BY <3>2, <3>3
  <2> QED
    BY <1>5, <2>1, <2>2, <2>3, <2>4, <2>5 DEF ShutterStep
<1>6. CASE UNCHANGED vars
  BY <1>6 DEF vars, mgrVars, shutVars
<1> QED
  BY <1>1, <1>3, <1>4, <1>5, <1>6 DEF Next


(***************************************************************************)
(* The ownership invariant, one step per action.  Unlinking in CleanRemove *)
(* and creation in OpenPidFile are the two steps that move the path: the   *)
(* first is harmless because two managers in "remove" would hold the lock  *)
(* of one inode, the second because it finds no path at all.               *)
(***************************************************************************)
\* The initial states satisfy the ownership invariant.
LEMMA InitOwnership == Init => OwnershipInv
  BY DEF Init, OwnershipInv, TypeOK, PidAssigned, OpenBeforeLock, LockedByHolder,
         OwnPidPublished, RemovesOwnFile, Holding, Published,
         ManagerPCs, Reasons, ShutterPCs

\* An ending process gives back the locks it held and disturbs nobody else.
LEMMA EndProcessOwnership ==
  ASSUME OwnershipInv, NEW m \in Managers, EndProcess(m), UNCHANGED <<path, content>>, TypeOK'
  PROVE  OwnershipInv'
<1> USE DEF OwnershipInv, TypeOK, Holding, Published, EndProcess
<1>1. PidAssigned' /\ OpenBeforeLock' /\ RemovesOwnFile' /\ OwnPidPublished'
  BY DEF PidAssigned, OpenBeforeLock, RemovesOwnFile, OwnPidPublished
<1>2. LockedByHolder'
  BY DEF LockedByHolder
<1> QED
  BY <1>1, <1>2

\* Steps that change neither file, locks, descriptors, pids nor program counters.
LEMMA FrameOwnership ==
  ASSUME OwnershipInv, TypeOK', UNCHANGED <<path, content, lock, pc, pid, fd>>
  PROVE  OwnershipInv'
  BY DEF OwnershipInv, PidAssigned, OpenBeforeLock, LockedByHolder, OwnPidPublished,
         RemovesOwnFile, Holding, Published

\* Every step of a manager, a shutdown command or the system keeps it.
LEMMA OwnershipStep == OwnershipInv /\ [Next]_vars => OwnershipInv'
<1> SUFFICES ASSUME OwnershipInv, [Next]_vars PROVE OwnershipInv'
  OBVIOUS
<1>0. TypeOK'
  BY TypeStep DEF OwnershipInv
<1>1. ASSUME NEW m \in Managers, Launch(m) \/ PrepareRead(m) \/ PrepareIdentify(m)
      PROVE OwnershipInv'
  <2>1. CASE Launch(m)
    BY <1>0, <2>1 DEF Launch, OwnershipInv, TypeOK, PidAssigned, OpenBeforeLock,
       LockedByHolder, OwnPidPublished, RemovesOwnFile, Holding, Published
  <2>2. CASE PrepareRead(m) \/ PrepareIdentify(m)
    BY <1>0, <2>2 DEF PrepareRead, PrepareIdentify, Goto, Refuse, OwnershipInv, TypeOK,
       PidAssigned, OpenBeforeLock, LockedByHolder, OwnPidPublished, RemovesOwnFile,
       Holding, Published
  <2> QED
    BY <1>1, <2>1, <2>2
<1>2. ASSUME NEW m \in Managers, OpenPidFile(m) PROVE OwnershipInv'
  <2> USE DEF OwnershipInv, TypeOK, Holding, Published, OpenPidFile, Goto
  <2>1. PidAssigned' /\ OpenBeforeLock'
    BY <1>2 DEF PidAssigned, OpenBeforeLock
  <2>2. LockedByHolder'
    BY <1>2 DEF LockedByHolder
  <2>3. OwnPidPublished'
    BY <1>2 DEF OwnPidPublished, FreeInode, LockedByHolder
  <2>4. RemovesOwnFile'
    BY <1>2 DEF RemovesOwnFile, LockedByHolder
  <2> QED
    BY <1>0, <2>1, <2>2, <2>3, <2>4
<1>3. ASSUME NEW m \in Managers, LockPidFile(m) PROVE OwnershipInv'
  <2> USE DEF OwnershipInv, TypeOK, Holding, Published, LockPidFile, Goto, Refuse
  <2>1. PidAssigned' /\ OpenBeforeLock' /\ OwnPidPublished' /\ RemovesOwnFile'
    BY <1>3 DEF PidAssigned, OpenBeforeLock, OwnPidPublished, RemovesOwnFile
  <2>2. LockedByHolder'
    BY <1>3 DEF LockedByHolder, OpenBeforeLock
  <2> QED
    BY <1>0, <2>1, <2>2
<1>4. ASSUME NEW m \in Managers, TruncatePidFile(m) PROVE OwnershipInv'
  BY <1>0, <1>4 DEF TruncatePidFile, AcquireFails, Refuse, Goto, OwnershipInv, TypeOK, PidAssigned,
     OpenBeforeLock, LockedByHolder, OwnPidPublished, RemovesOwnFile, Holding, Published
<1>5. ASSUME NEW m \in Managers, WritePidFile(m) PROVE OwnershipInv'
  <2> USE DEF OwnershipInv, TypeOK, Holding, Published, Goto, Refuse
  <2>1. CASE /\ content' = [content EXCEPT ![fd[m]] = pid[m]]
             /\ Goto(m, "running")
             /\ UNCHANGED <<path, lock, fd, pid>>
    BY <1>0, <1>5, <2>1 DEF WritePidFile, AcquireFails, PidAssigned, OpenBeforeLock, LockedByHolder,
       OwnPidPublished, RemovesOwnFile
  <2>2. CASE /\ lock' = [lock EXCEPT ![fd[m]] = NoMgr]
             /\ fd' = [fd EXCEPT ![m] = NoInode]
             /\ Goto(m, "exit")
             /\ UNCHANGED <<path, content, pid>>
    BY <1>0, <1>5, <2>2 DEF WritePidFile, AcquireFails, PidAssigned, OpenBeforeLock, LockedByHolder,
       OwnPidPublished, RemovesOwnFile
  <2> QED
    BY <1>5, <2>1, <2>2 DEF WritePidFile, AcquireFails
<1>6. ASSUME NEW m \in Managers, FinishRun(m) \/ CleanLstat(m) PROVE OwnershipInv'
  BY <1>0, <1>6 DEF FinishRun, CleanLstat, Goto, OwnershipInv, TypeOK, PidAssigned,
     OpenBeforeLock, LockedByHolder, OwnPidPublished, RemovesOwnFile, Holding, Published
<1>7. ASSUME NEW m \in Managers, CleanRemove(m) PROVE OwnershipInv'
  <2> USE DEF OwnershipInv, TypeOK, Holding, Published, CleanRemove, Goto
  <2>1. PidAssigned' /\ OpenBeforeLock' /\ OwnPidPublished' /\ LockedByHolder'
    BY <1>7 DEF PidAssigned, OpenBeforeLock, OwnPidPublished, LockedByHolder
  <2>2. ASSUME NEW n \in Managers, pc[n] = "remove" PROVE n = m
    BY <1>7, <2>2 DEF RemovesOwnFile, LockedByHolder
  <2>3. RemovesOwnFile'
    BY <1>7, <2>2 DEF RemovesOwnFile
  <2> QED
    BY <1>0, <2>1, <2>3
<1>8. ASSUME NEW m \in Managers, CleanClose(m) PROVE OwnershipInv'
  <2> USE DEF OwnershipInv, TypeOK, Holding, Published, CleanClose, Goto
  <2>1. PidAssigned' /\ OpenBeforeLock' /\ OwnPidPublished' /\ RemovesOwnFile'
    BY <1>8 DEF PidAssigned, OpenBeforeLock, OwnPidPublished, RemovesOwnFile
  <2>2. LockedByHolder'
    BY <1>8 DEF LockedByHolder
  <2> QED
    BY <1>0, <2>1, <2>2
<1>9. ASSUME NEW m \in Managers, Exit(m) \/ Crash(m) PROVE OwnershipInv'
  BY <1>0, <1>9, EndProcessOwnership DEF Exit, Crash
<1>10. ASSUME NEW p \in Pids, OtherStarts(p) \/ OtherExits(p) PROVE OwnershipInv'
  BY <1>0, <1>10, FrameOwnership DEF OtherStarts, OtherExits, mgrVars
<1>11. ASSUME NEW s \in Shutters, ShutterStep(s) PROVE OwnershipInv'
  <2>1. CASE ShutdownKill(s)
    <3>1. CASE \E m \in ManagerOf(spid[s]) : EndProcess(m)
      <4>1. PICK m \in Managers : EndProcess(m)
        BY <3>1 DEF ManagerOf
      <4>2. UNCHANGED <<path, content>>
        BY <2>1 DEF ShutdownKill
      <4> QED
        BY <1>0, <4>1, <4>2, EndProcessOwnership
    <3>2. CASE UNCHANGED <<lock, pc, pid, fd, rd, named, why>>
      BY <1>0, <2>1, <3>2, FrameOwnership DEF ShutdownKill
    <3> QED
      BY <2>1, <3>1, <3>2 DEF ShutdownKill
  <2>2. CASE ~ShutdownKill(s)
    BY <1>0, <1>11, <2>2, FrameOwnership
    DEF ShutterStep, ShutdownRead, ShutdownIdentify, ShutdownTerm, ShutdownWatch,
        ShutdownReturn, ShutdownGiveUp, mgrVars
  <2> QED
    BY <2>1, <2>2
<1>12. CASE UNCHANGED vars
  BY <1>0, <1>12, FrameOwnership DEF vars, mgrVars
<1> QED
  BY <1>1, <1>2, <1>3, <1>4, <1>5, <1>6, <1>7, <1>8, <1>9, <1>10, <1>11, <1>12
  DEF Next, ManagerStep

(***************************************************************************)
(* The theorems.                                                           *)
(***************************************************************************)

\* The ownership invariant holds in every reachable state.
LEMMA OwnershipInvariant == Spec => []OwnershipInv
  BY InitOwnership, OwnershipStep, PTL DEF Spec

\* Every reachable state of the protocol is well typed.
THEOREM TypeCorrect == Spec => []TypeOK
<1>1. OwnershipInv => TypeOK
  BY DEF OwnershipInv
<1> QED
  BY <1>1, OwnershipInvariant, PTL

\* acquirePidFile excludes: an inode is held by at most one manager, and the
\* holder of its flock is the manager between flock and Close.
THEOREM LockExclusion == Spec => []LockedByHolder
<1>1. OwnershipInv => LockedByHolder
  BY DEF OwnershipInv
<1> QED
  BY <1>1, OwnershipInvariant, PTL

\* A running manager is the one its pid file names.
THEOREM PidPublication == Spec => []OwnPidPublished
<1>1. OwnershipInv => OwnPidPublished
  BY DEF OwnershipInv
<1> QED
  BY <1>1, OwnershipInvariant, PTL

\* The deferred pidClean unlinks its own file or nothing, although it checks
\* the file and removes the path in two system calls.
THEOREM CleanupRemovesOwnFile == Spec => []RemovesOwnFile
<1>1. OwnershipInv => RemovesOwnFile
  BY DEF OwnershipInv
<1> QED
  BY <1>1, OwnershipInvariant, PTL

\* No step overwrites or unlinks the file of a manager that runs on.
LEMMA OwnershipStableStep ==
  ASSUME OwnershipInv, Next, NEW m \in Managers, pc[m] = "running", pc'[m] = "running"
  PROVE  content'[fd[m]] = content[fd[m]] /\ (path = fd[m] => path' = path)
<1> USE DEF OwnershipInv, TypeOK, Holding, Published
<1>1. fd[m] \in Inodes /\ lock[fd[m]] = m
  BY DEF LockedByHolder
<1>2. ASSUME NEW n \in Managers, Launch(n) \/ ManagerStep(n) \/ FinishRun(n) \/ Crash(n)
      PROVE content'[fd[m]] = content[fd[m]] /\ (path = fd[m] => path' = path)
  <2>1. CASE OpenPidFile(n)
    BY <1>1, <2>1 DEF OpenPidFile, FreeInode
  <2>2. CASE TruncatePidFile(n)
    BY <1>1, <2>2 DEF TruncatePidFile, AcquireFails, Refuse, Goto, LockedByHolder
  <2>3. CASE WritePidFile(n)
    BY <1>1, <2>3 DEF WritePidFile, AcquireFails, Goto, Refuse, LockedByHolder
  <2>4. CASE CleanRemove(n)
    BY <1>1, <2>4 DEF CleanRemove, Goto, RemovesOwnFile, LockedByHolder
  <2>5. CASE UNCHANGED <<path, content>>
    BY <2>5
  <2> QED
    BY <1>2, <2>1, <2>2, <2>3, <2>4, <2>5
    DEF ManagerStep, Launch, PrepareRead, PrepareIdentify, LockPidFile, FinishRun,
        CleanLstat, CleanClose, Exit, Crash
<1>3. ASSUME NEW p \in Pids, OtherStarts(p) \/ OtherExits(p) PROVE UNCHANGED <<path, content>>
  BY <1>3 DEF OtherStarts, OtherExits
<1>4. ASSUME NEW s \in Shutters, ShutterStep(s) PROVE UNCHANGED <<path, content>>
  BY <1>4 DEF ShutterStep, ShutdownRead, ShutdownIdentify, ShutdownTerm, ShutdownWatch,
     ShutdownReturn, ShutdownGiveUp, ShutdownKill
<1> QED
  BY <1>2, <1>3, <1>4 DEF Next

\* While a manager runs on, nobody's step overwrites its pid or unlinks its file,
\* whatever starts, clean-ups, crashes and shutdown commands interleave.
THEOREM OwnershipKept == Spec => OwnershipStable
<1>1. OwnershipInv /\ [Next]_vars =>
        [\A m \in Managers :
           pc[m] = "running" /\ pc'[m] = "running" =>
             /\ content'[fd[m]] = content[fd[m]]
             /\ path = fd[m] => path' = path]_vars
  BY OwnershipStableStep
<1> QED
  BY <1>1, OwnershipInvariant, PTL DEF Spec, OwnershipStable

(***************************************************************************)
(* What a refusal and an empty file tell, and whom a shutdown signals.     *)
(***************************************************************************)

\* Only PrepareIdentify refuses a start as a duplicate.
LEMMA DuplicateStep ==
  ASSUME OwnershipInv, Next, NEW m \in Managers,
         why[m] # "duplicate", why'[m] = "duplicate", rd[m] # pid[m]
  PROVE  \E n \in Managers \ {m} : pc[n] # "off" /\ pid[n] = rd[m]
<1> USE DEF OwnershipInv, TypeOK
<1>1. ASSUME NEW n \in Managers, Launch(n) \/ ManagerStep(n) \/ FinishRun(n) \/ Crash(n)
      PROVE  PrepareIdentify(m)
  <2>1. CASE PrepareIdentify(n)
    BY <2>1 DEF PrepareIdentify, Goto, Refuse
  <2>2. CASE Exit(n) \/ Crash(n)
    BY <2>2 DEF Exit, Crash, EndProcess
  <2>3. CASE PrepareRead(n) \/ LockPidFile(n) \/ WritePidFile(n) \/ TruncatePidFile(n)
    BY <2>3 DEF PrepareRead, LockPidFile, WritePidFile, TruncatePidFile, AcquireFails, Refuse
  <2>4. CASE UNCHANGED why
    BY <2>4
  <2> QED
    BY <1>1, <2>1, <2>2, <2>3, <2>4
    DEF ManagerStep, Launch, OpenPidFile, TruncatePidFile, FinishRun, CleanLstat,
        CleanRemove, CleanClose
<1>2. ASSUME NEW p \in Pids, OtherStarts(p) \/ OtherExits(p) PROVE why' = why
  BY <1>2 DEF OtherStarts, OtherExits, mgrVars
<1>3. ASSUME NEW s \in Shutters, ShutterStep(s) PROVE why'[m] # "duplicate"
  <2>1. CASE ShutdownKill(s)
    BY <2>1 DEF ShutdownKill, EndProcess, ManagerOf
  <2>2. CASE UNCHANGED why
    BY <2>2
  <2> QED
    BY <1>3, <2>1, <2>2
    DEF ShutterStep, ShutdownRead, ShutdownIdentify, ShutdownTerm, ShutdownWatch,
        ShutdownReturn, ShutdownGiveUp, mgrVars
<1>4. PrepareIdentify(m)
  BY <1>1, <1>2, <1>3 DEF Next
<1>5. "match" \in Identities(rd[m])
  BY <1>4 DEF PrepareIdentify, Refuse
<1>6. \E n \in ManagerOf(rd[m]) : named[n]
  BY <1>5 DEF Identities
<1> QED
  BY <1>6 DEF ManagerOf

\* A start is refused as a duplicate for another live manager only, however soon
\* the pid in a stale file was handed out again.
THEOREM RefusedForADuplicate == Spec => RefusalMeansDuplicate
<1>1. OwnershipInv /\ [Next]_vars =>
        [\A m \in Managers :
           why[m] # "duplicate" /\ why'[m] = "duplicate" /\ rd[m] # pid[m] =>
             \E n \in Managers \ {m} : pc[n] # "off" /\ pid[n] = rd[m]]_vars
  BY DuplicateStep
<1> QED
  BY <1>1, OwnershipInvariant, PTL DEF Spec, RefusalMeansDuplicate

\* A file that another start holds is being written, or has its pid in it.
LEMMA HeldIsNotEmpty ==
  ASSUME OwnershipInv, NEW i \in Inodes, lock[i] # NoMgr, content[i] = Empty
  PROVE  \E n \in Managers : lock[i] = n /\ fd[n] = i /\ pc[n] \in {"truncate", "write"}
<1> DEFINE n == lock[i]
<1>1. n \in Managers /\ Holding(n) /\ fd[n] = i
  BY DEF OwnershipInv, TypeOK, LockedByHolder
<1>2. ~Published(n)
  BY <1>1 DEF OwnershipInv, OwnPidPublished, PidAssigned, Published
<1> QED
  BY <1>1, <1>2 DEF Holding, Published

\* The end of a process that was not writing empties nothing.
LEMMA EndLeavesFile ==
  ASSUME OwnershipInv, ~EmptyForGood, EmptyForGood', UNCHANGED <<path, content>>,
         NEW m \in Managers, EndProcess(m)
  PROVE  Writing(m) /\ pc'[m] = "off"
<1> USE DEF OwnershipInv, TypeOK
<1>1. PICK n \in Managers : Writing(n) /\ fd[n] = path
  BY DEF EmptyForGood
<1>2. n = m
  <2>1. SUFFICES ASSUME n # m PROVE FALSE
    OBVIOUS
  <2>2. Writing(n)' /\ fd'[n] = path'
    BY <1>1, <2>1 DEF EndProcess, Writing
  <2> QED
    BY <2>2 DEF EmptyForGood
<1> QED
  BY <1>1, <1>2 DEF EndProcess

\* One step per action that moves the path, a content or a writer.
LEMMA TornStep ==
  ASSUME OwnershipInv, Next, ~EmptyForGood, EmptyForGood'
  PROVE  \E m \in Managers : Writing(m) /\ (pc'[m] = "off" \/ why'[m] = "ioerror")
<1> USE DEF OwnershipInv, TypeOK
<1>1. ASSUME NEW m \in Managers, Launch(m) \/ ManagerStep(m) \/ FinishRun(m) \/ Crash(m)
      PROVE  Writing(m) /\ (pc'[m] = "off" \/ why'[m] = "ioerror")
  <2>1. CASE OpenPidFile(m)
    <3>1. Writing(m)' /\ fd'[m] = path'
      BY <2>1 DEF OpenPidFile, Goto, Writing
    <3> QED
      BY <3>1 DEF EmptyForGood
  <2>2. CASE LockPidFile(m)
    <3>1. UNCHANGED <<path, content>> /\ path # NoInode /\ content[path] = Empty
      BY <2>2 DEF LockPidFile, EmptyForGood
    <3>2. PICK n \in Managers : Writing(n) /\ fd[n] = path
      BY <3>1 DEF EmptyForGood
    <3>3. CASE lock[fd[m]] = NoMgr
      BY <2>2, <3>1, <3>2, <3>3 DEF LockPidFile, Goto, EmptyForGood, Writing
    <3>4. CASE lock[fd[m]] # NoMgr
      <4>1. CASE n # m
        BY <2>2, <3>1, <3>2, <3>4, <4>1 DEF LockPidFile, Goto, Refuse, EmptyForGood, Writing
      <4>2. CASE n = m
        <5>1. PICK k \in Managers : fd[k] = path /\ pc[k] \in {"truncate", "write"}
          BY <3>1, <3>2, <3>4, <4>2, HeldIsNotEmpty
        <5>2. k # m
          BY <2>2, <5>1 DEF LockPidFile
        <5> QED
          BY <2>2, <3>1, <3>4, <5>1, <5>2 DEF LockPidFile, Goto, Refuse, EmptyForGood, Writing
      <4> QED
        BY <4>1, <4>2
    <3> QED
      BY <3>3, <3>4
  <2>3. CASE TruncatePidFile(m)
    <3>1. SUFFICES ASSUME why'[m] # "ioerror" PROVE FALSE
      BY <2>3 DEF TruncatePidFile, AcquireFails, Writing
    <3>2. Writing(m)' /\ Writing(m) /\ UNCHANGED <<path, fd>>
          /\ content' = [content EXCEPT ![fd[m]] = Empty]
      BY <2>3, <3>1 DEF TruncatePidFile, AcquireFails, Refuse, Goto, Writing
    <3>3. path # fd[m] /\ content'[path] = content[path]
      BY <3>2 DEF EmptyForGood
    <3> QED
      BY <2>3, <3>1, <3>2, <3>3
      DEF EmptyForGood, TruncatePidFile, AcquireFails, Refuse, Goto, Writing
  <2>4. CASE WritePidFile(m)
    <3>1. SUFFICES ASSUME why'[m] # "ioerror" PROVE FALSE
      BY <2>4 DEF WritePidFile, AcquireFails, Writing
    <3>2. /\ content' = [content EXCEPT ![fd[m]] = pid[m]]
          /\ Goto(m, "running") /\ UNCHANGED <<path, fd>> /\ pc[m] = "write"
      BY <2>4, <3>1 DEF WritePidFile, AcquireFails, Refuse
    <3>3. pid[m] # Empty
      BY <3>2 DEF PidAssigned
    <3>4. path \in Inodes /\ content'[path] = Empty
      BY <3>2 DEF EmptyForGood
    <3>5. path # fd[m]
      BY <3>2, <3>3, <3>4
    <3>6. content[path] = Empty
      BY <3>2, <3>4, <3>5
    <3>7. PICK n \in Managers : Writing(n) /\ fd[n] = path
      BY <3>4, <3>6 DEF EmptyForGood
    <3>8. Writing(n)' /\ fd'[n] = path'
      BY <3>2, <3>5, <3>7 DEF Goto, Writing
    <3> QED
      BY <3>8 DEF EmptyForGood
  <2>5. CASE CleanRemove(m)
    BY <2>5 DEF CleanRemove, EmptyForGood
  <2>6. CASE Exit(m) \/ Crash(m)
    <3>1. EndProcess(m) /\ UNCHANGED <<path, content>>
      BY <2>6 DEF Exit, Crash
    <3> QED
      BY <3>1, EndLeavesFile
  <2>7. CASE \/ Launch(m) \/ PrepareRead(m) \/ PrepareIdentify(m) \/ FinishRun(m)
             \/ CleanLstat(m) \/ CleanClose(m)
    <3>1. UNCHANGED <<path, content>>
      BY <2>7 DEF Launch, PrepareRead, PrepareIdentify, FinishRun, CleanLstat, CleanClose
    <3>2. PICK n \in Managers : Writing(n) /\ fd[n] = path
      BY <3>1 DEF EmptyForGood
    <3>3. Writing(n)' /\ fd'[n] = fd[n]
      BY <2>7, <3>2 DEF Launch, PrepareRead, PrepareIdentify, FinishRun, CleanLstat, CleanClose,
                        Goto, Refuse, Writing
    <3> QED
      BY <3>1, <3>2, <3>3 DEF EmptyForGood
  <2> QED
    BY <1>1, <2>1, <2>2, <2>3, <2>4, <2>5, <2>6, <2>7 DEF ManagerStep
<1>2. ASSUME NEW p \in Pids, OtherStarts(p) \/ OtherExits(p) PROVE FALSE
  BY <1>2 DEF OtherStarts, OtherExits, mgrVars, EmptyForGood, Writing
<1>3. ASSUME NEW s \in Shutters, ShutterStep(s)
      PROVE  \E m \in Managers : Writing(m) /\ pc'[m] = "off"
  <2>1. UNCHANGED <<path, content>>
    BY <1>3 DEF ShutterStep, ShutdownRead, ShutdownIdentify, ShutdownTerm, ShutdownWatch,
                ShutdownReturn, ShutdownGiveUp, ShutdownKill
  <2>2. CASE \E m \in Managers : EndProcess(m)
    BY <2>1, <2>2, EndLeavesFile
  <2>3. CASE UNCHANGED <<pc, fd>>
    BY <2>1, <2>3 DEF EmptyForGood, Writing
  <2> QED
    BY <1>3, <2>2, <2>3
    DEF ShutterStep, ShutdownRead, ShutdownIdentify, ShutdownTerm, ShutdownWatch,
        ShutdownReturn, ShutdownGiveUp, ShutdownKill, ManagerOf, mgrVars
<1> QED
  BY <1>1, <1>2, <1>3 DEF Next

\* A pid file is left empty only by a start that was killed, or whose write failed,
\* between open and write.
THEOREM OnlyTornStartsEmpty == Spec => EmptyFileIsTorn
<1>1. OwnershipInv /\ [Next]_vars =>
        [~EmptyForGood /\ EmptyForGood' =>
           \E m \in Managers : Writing(m) /\ (pc'[m] = "off" \/ why'[m] = "ioerror")]_vars
  BY TornStep
<1> QED
  BY <1>1, OwnershipInvariant, PTL DEF Spec, EmptyFileIsTorn

\* No manager shares its pid with a stranger; and where pids are never reused, every
\* number a manager has, a file holds or a shutdown works with is used up.
SignalInv ==
  /\ SignalsOnlyManagers
  /\ \A m \in Managers : pc[m] # "off" => pid[m] \notin others
  /\ PidReuse = "never" =>
       /\ \A m \in Managers : pc[m] # "off" => pid[m] \in used
       /\ \A i \in Inodes : content[i] # Empty => content[i] \in used
       /\ \A s \in Shutters : spc[s] \notin {"read", "done"} => spid[s] \in used

\* Steps that neither start a process, nor write a file, nor move a shutdown.
LEMMA FrameSignal ==
  ASSUME SignalInv, UNCHANGED <<used, spc, spid>>, others' \subseteq others,
         \A m \in Managers : pc'[m] = "off" \/ (pc[m] # "off" /\ pid'[m] = pid[m]),
         \A i \in Inodes : content'[i] \in {content[i], Empty}
  PROVE  SignalInv'
  BY DEF SignalInv, SignalsOnlyManagers

\* The end of a manager is such a step.
LEMMA EndProcessSignal ==
  ASSUME TypeOK, NEW m \in Managers, EndProcess(m)
  PROVE  \A n \in Managers : pc'[n] = "off" \/ (pc'[n] = pc[n] /\ pid'[n] = pid[n])
  BY DEF TypeOK, EndProcess

\* A pid comes into use for a stranger only when no shutdown works with it.
LEMMA OtherStartsSignal ==
  ASSUME PidReuse # "any", TypeOK, SignalInv, NEW p \in Pids, OtherStarts(p)
  PROVE  SignalInv'
<1> USE DEF TypeOK, SignalInv, SignalsOnlyManagers
<1>1. /\ ~Live(p) /\ p \notin used /\ (PidReuse = "slow" => ~InUse(p))
      /\ others' = others \cup {p} /\ used \subseteq used'
      /\ UNCHANGED <<content, pc, pid, spc, spid>>
  BY DEF OtherStarts, FreshPid, mgrVars, shutVars
<1>2. \A s \in Shutters : spc[s] \in {"term", "watch", "wait", "kill"} => spid[s] # p
  <2>1. CASE PidReuse = "never"
    BY <1>1, <2>1
  <2>2. CASE PidReuse = "slow"
    BY <1>1, <2>2 DEF InUse
  <2> QED
    BY <2>1, <2>2
<1>3. \A m \in Managers : pc[m] # "off" => pid[m] # p
  BY <1>1 DEF Live, ManagerOf
<1> QED
  BY <1>1, <1>2, <1>3

\* One step per action.
LEMMA SignalStep ==
  ASSUME PidReuse # "any", OwnershipInv, SignalInv, [Next]_vars
  PROVE  SignalInv'
<1> USE DEF OwnershipInv, TypeOK
<1>1. ASSUME NEW m \in Managers, Launch(m) \/ ManagerStep(m) \/ FinishRun(m) \/ Crash(m)
      PROVE  SignalInv'
  <2>1. CASE Launch(m)
    BY <2>1 DEF Launch, FreshPid, Live, Spent, SignalInv, SignalsOnlyManagers, shutVars
  <2>2. CASE WritePidFile(m)
    <3>1. UNCHANGED <<used, others, pid, spc, spid>> /\ pc[m] = "write"
          /\ content' \in {content, [content EXCEPT ![fd[m]] = pid[m]]}
          /\ \A n \in Managers : pc'[n] # "off" => pc[n] # "off"
      BY <2>2 DEF WritePidFile, AcquireFails, Goto, Refuse, shutVars
    <3> QED
      BY <3>1 DEF SignalInv, SignalsOnlyManagers
  <2>3. CASE Exit(m) \/ Crash(m)
    <3>1. UNCHANGED <<content, used, others, spc, spid>> /\ EndProcess(m)
      BY <2>3 DEF Exit, Crash
    <3>2. \A n \in Managers : pc'[n] = "off" \/ (pc[n] # "off" /\ pid'[n] = pid[n])
      BY <3>1, EndProcessSignal
    <3> QED
      BY <3>1, <3>2, FrameSignal
  <2>4. CASE \/ PrepareRead(m) \/ PrepareIdentify(m) \/ OpenPidFile(m) \/ LockPidFile(m)
             \/ TruncatePidFile(m) \/ FinishRun(m) \/ CleanLstat(m) \/ CleanRemove(m)
             \/ CleanClose(m)
    <3> USE <2>4 DEF PrepareRead, PrepareIdentify, OpenPidFile, LockPidFile, TruncatePidFile,
                     AcquireFails,
                     FinishRun, CleanLstat, CleanRemove, CleanClose, Goto, Refuse, shutVars
    <3>1. UNCHANGED <<used, others, pid, spc, spid>>
      OBVIOUS
    <3>2. \A i \in Inodes : content'[i] \in {content[i], Empty}
      OBVIOUS
    <3>3. \A n \in Managers : pc'[n] = "off" \/ pc[n] # "off"
      OBVIOUS
    <3> QED
      BY <3>1, <3>2, <3>3, FrameSignal
  <2> QED
    BY <1>1, <2>1, <2>2, <2>3, <2>4 DEF ManagerStep
<1>2. ASSUME NEW p \in Pids, OtherStarts(p) \/ OtherExits(p) PROVE SignalInv'
  <2>1. CASE OtherExits(p)
    BY <2>1, FrameSignal DEF OtherExits, mgrVars
  <2> QED
    BY <1>2, <2>1, OtherStartsSignal
<1>3. ASSUME NEW s \in Shutters, ShutterStep(s) PROVE SignalInv'
  <2>1. CASE ShutdownRead(s)
    BY <2>1 DEF ShutdownRead, RecordedPid, SGoto, Done, mgrVars, SignalInv, SignalsOnlyManagers
  <2>2. CASE ShutdownIdentify(s)
    <3>1. CASE SGoto(s, "term") /\ UNCHANGED spid /\ "match" \in Identities(spid[s])
      <4>1. \E m \in Managers : pc[m] # "off" /\ pid[m] = spid[s]
        BY <3>1 DEF Identities, ManagerOf
      <4>2. spid[s] \notin others
        BY <4>1 DEF SignalInv
      <4> QED
        BY <2>2, <3>1, <4>2 DEF ShutdownIdentify, SGoto, mgrVars, SignalInv, SignalsOnlyManagers
    <3>2. CASE Done(s)
      BY <2>2, <3>2 DEF ShutdownIdentify, Done, SGoto, mgrVars, SignalInv, SignalsOnlyManagers
    <3> QED
      BY <2>2, <3>1, <3>2 DEF ShutdownIdentify
  <2>3. CASE ShutdownTerm(s)
    BY <2>3 DEF ShutdownTerm, SGoto, SignalInv, SignalsOnlyManagers
  <2>4. CASE ShutdownWatch(s) \/ ShutdownReturn(s) \/ ShutdownGiveUp(s)
    BY <2>4 DEF ShutdownWatch, ShutdownReturn, ShutdownGiveUp, Done, SGoto, mgrVars,
                SignalInv, SignalsOnlyManagers
  <2>5. CASE ShutdownKill(s)
    <3>1. /\ Done(s) /\ UNCHANGED <<content, used>> /\ others' \subseteq others
          /\ \A n \in Managers : pc'[n] = "off" \/ (pc[n] # "off" /\ pid'[n] = pid[n])
      BY <2>5, EndProcessSignal DEF ShutdownKill, ManagerOf
    <3> QED
      BY <3>1 DEF Done, SGoto, SignalInv, SignalsOnlyManagers
  <2> QED
    BY <1>3, <2>1, <2>2, <2>3, <2>4, <2>5 DEF ShutterStep
<1>4. CASE UNCHANGED vars
  BY <1>4 DEF vars, mgrVars, shutVars, SignalInv, SignalsOnlyManagers
<1> QED
  BY <1>1, <1>2, <1>3, <1>4 DEF Next

\* Shutdown checks an identity and signals a bare pid later: as long as the kernel
\* does not hand out that number in between, the signal reaches a manager.
THEOREM ShutdownSignalsManagers ==
  ASSUME PidReuse # "any"
  PROVE  Spec => []SignalsOnlyManagers
<1>1. Init => SignalInv
  BY DEF Init, SignalInv, SignalsOnlyManagers
<1>2. OwnershipInv /\ SignalInv /\ [Next]_vars => SignalInv'
  BY SignalStep
<1>3. SignalInv => SignalsOnlyManagers
  BY DEF SignalInv
<1> QED
  BY <1>1, <1>2, <1>3, OwnershipInvariant, PTL DEF Spec
============================================================================
