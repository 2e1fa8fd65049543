------------------------------ MODULE PidFile ------------------------------
(***************************************************************************)
(* The pid file of one node, cvmm.pid, and the processes that use it:      *)
(*                                                                         *)
(*   - `cvmm start NODE` managers, which inspect the file, lock it, publish *)
(*     their pid in it, run, and remove it (hypervisor.go, proc.go);       *)
(*   - `cvmm shutdown NODE` commands, which read the pid, verify whose it  *)
(*     is, and signal it (Hypervisor.Shutdown).                            *)
(*                                                                         *)
(* One action is one system call of the code, or a run of calls that touch *)
(* nothing another process can see.  An inode is kept apart from the path  *)
(* that names it: flock(2) locks the inode, unlink(2) removes the path.    *)
(***************************************************************************)
EXTENDS Naturals, FiniteSets

CONSTANTS
  Managers,   \* the `cvmm start` processes; one may be launched again after it ended
  Shutters,   \* the `cvmm shutdown` commands
  Inodes,     \* inodes the file system may bind to the path
  Pids,       \* process ids, live or free
  NoMgr, NoInode, NoPid, Empty,
  PidReuse,   \* when the kernel hands out a pid again: "never"; "slow", once nobody
              \* works with the number any more; or "any" time its process is gone
  Named       \* the possible outcomes of SetProcessName: {TRUE}, or BOOLEAN

ASSUME DistinctAssumption ==
  /\ NoMgr \notin Managers
  /\ NoInode \notin Inodes
  /\ NoPid \notin Pids
  /\ Empty \notin Pids
  /\ PidReuse \in {"never", "slow", "any"}
  /\ Named \subseteq BOOLEAN

VARIABLES
  path,      \* the inode the path names, or NoInode
  content,   \* content[i]: the pid written in inode i, or Empty
  lock,      \* lock[i]: the manager whose descriptor holds the flock of i, or NoMgr
  others,    \* pids of live processes that are neither manager nor shutdown command
  used,      \* pids that are not handed out again
  pc, pid, fd, rd, named, why,   \* per manager
  spc, spid, gone                           \* per shutdown command

mgrVars == <<pc, pid, fd, rd, named, why>>
shutVars == <<spc, spid, gone>>
vars == <<path, content, lock, others, used, mgrVars, shutVars>>

ManagerPCs == {"off", "prepare", "identify", "open", "lock", "truncate", "write",
               "running", "lstat", "remove", "close", "exit"}
Reasons == {"none", "ok", "unreadable", "duplicate", "unverifiable", "locked", "ioerror"}
ShutterPCs == {"read", "identify", "term", "watch", "wait", "kill", "done"}

TypeOK ==
  /\ path \in Inodes \cup {NoInode}
  /\ content \in [Inodes -> Pids \cup {Empty}]
  /\ lock \in [Inodes -> Managers \cup {NoMgr}]
  /\ others \subseteq Pids
  /\ used \subseteq Pids
  /\ pc \in [Managers -> ManagerPCs]
  /\ pid \in [Managers -> Pids \cup {NoPid}]
  /\ fd \in [Managers -> Inodes \cup {NoInode}]
  /\ rd \in [Managers -> Pids \cup {NoPid}]
  /\ named \in [Managers -> BOOLEAN]
  /\ why \in [Managers -> Reasons]
  /\ spc \in [Shutters -> ShutterPCs]
  /\ spid \in [Shutters -> Pids \cup {NoPid}]
  /\ gone \in [Shutters -> BOOLEAN]

----------------------------------------------------------------------------
(* Processes and identities *)

ManagerOf(p) == {m \in Managers : pc[m] # "off" /\ pid[m] = p}
Live(p) == p \in others \/ ManagerOf(p) # {}

\* A process that read the number p from the file and has yet to use it.
InUse(p) ==
  \/ \E m \in Managers : pc[m] = "identify" /\ rd[m] = p
  \/ \E s \in Shutters : spc[s] \notin {"read", "done"} /\ spid[s] = p

FreshPid(p) == ~Live(p) /\ p \notin used /\ (PidReuse = "slow" => ~InUse(p))
Spent(p) == IF PidReuse = "never" THEN {p} ELSE {}

\* ProcessIdentityWithExpectation for the manager of this node: a live process
\* matches when its name and its `start NODE` arguments do; reading /proc may
\* fail for a live process.
Identities(p) ==
  IF ~Live(p) THEN {"inactive"}
  ELSE {"unknown"} \cup
       {IF \E m \in ManagerOf(p) : named[m] THEN "match" ELSE "mismatch"}

\* An inode nothing names, holds open or has locked can be allocated.
FreeInode(i) == i # path /\ \A m \in Managers : fd[m] # i

\* What ReadPidFileInfo finds under the path; Empty also when it finds no file.
RecordedPid == IF path = NoInode THEN Empty ELSE content[path]

----------------------------------------------------------------------------
Init ==
  /\ path = NoInode
  /\ content = [i \in Inodes |-> Empty]
  /\ lock = [i \in Inodes |-> NoMgr]
  /\ others = {}
  /\ used = {}
  /\ pc = [m \in Managers |-> "off"]
  /\ pid = [m \in Managers |-> NoPid]
  /\ fd = [m \in Managers |-> NoInode]
  /\ rd = [m \in Managers |-> NoPid]
  /\ named = [m \in Managers |-> FALSE]
  /\ why = [m \in Managers |-> "none"]
  /\ spc = [s \in Shutters |-> "read"]
  /\ spid = [s \in Shutters |-> NoPid]
  /\ gone = [s \in Shutters |-> FALSE]

----------------------------------------------------------------------------
(* The operating system: processes come and go *)

\* Every descriptor of an ending process closes, which drops its flock; who
\* watches the pid through a pidfd is told.
EndProcess(m) ==
  /\ pc' = [pc EXCEPT ![m] = "off"]
  /\ gone' = [s \in Shutters |-> gone[s] \/ (spc[s] = "wait" /\ spid[s] = pid[m])]
  /\ pid' = [pid EXCEPT ![m] = NoPid]
  /\ lock' = [i \in Inodes |-> IF lock[i] = m THEN NoMgr ELSE lock[i]]
  /\ fd' = [fd EXCEPT ![m] = NoInode]
  /\ rd' = [rd EXCEPT ![m] = NoPid]
  /\ named' = [named EXCEPT ![m] = FALSE]
  /\ why' = [why EXCEPT ![m] = "none"]

\* main -> entry.Start up to Hypervisor.Start: SetProcessName names the thread
\* that calls it, which is the process's main thread in the outcomes of Named.
Launch(m) ==
  /\ pc[m] = "off"
  /\ \E p \in Pids :
       /\ FreshPid(p)
       /\ pid' = [pid EXCEPT ![m] = p]
       /\ used' = used \cup Spent(p)
  /\ \E b \in Named : named' = [named EXCEPT ![m] = b]
  /\ pc' = [pc EXCEPT ![m] = "prepare"]
  /\ UNCHANGED <<path, content, lock, others, fd, rd, why, shutVars>>

\* os.Exit, or the return of main.
Exit(m) ==
  /\ pc[m] = "exit"
  /\ EndProcess(m)
  /\ UNCHANGED <<path, content, others, used, spc, spid>>

\* SIGKILL, the OOM killer, a panic: no deferred call runs.
Crash(m) ==
  /\ pc[m] \notin {"off", "exit"}
  /\ EndProcess(m)
  /\ UNCHANGED <<path, content, others, used, spc, spid>>

\* An unrelated process takes a pid.
OtherStarts(p) ==
  /\ FreshPid(p)
  /\ others' = others \cup {p}
  /\ used' = used \cup Spent(p)
  /\ UNCHANGED <<path, content, lock, mgrVars, shutVars>>

OtherExits(p) ==
  /\ p \in others
  /\ others' = others \ {p}
  /\ gone' = [s \in Shutters |-> gone[s] \/ (spc[s] = "wait" /\ spid[s] = p)]
  /\ UNCHANGED <<path, content, lock, used, mgrVars, spc, spid>>

----------------------------------------------------------------------------
(* cvmm start: preparePidFile *)

Goto(m, next) == pc' = [pc EXCEPT ![m] = next]
Refuse(m, reason) ==
  /\ Goto(m, "exit")
  /\ why' = [why EXCEPT ![m] = reason]

\* ReadPidFileInfo: no file is fine, an empty one is an error.
PrepareRead(m) ==
  /\ pc[m] = "prepare"
  /\ \/ /\ path = NoInode
        /\ Goto(m, "open")
        /\ UNCHANGED <<rd, why>>
     \/ /\ path # NoInode
        /\ RecordedPid = Empty
        /\ Refuse(m, "unreadable")
        /\ UNCHANGED rd
     \/ /\ RecordedPid # Empty
        /\ rd' = [rd EXCEPT ![m] = RecordedPid]
        /\ Goto(m, "identify")
        /\ UNCHANGED why
  /\ UNCHANGED <<path, content, lock, others, used, pid, fd, named, shutVars>>

\* Faulty variant: a stale file of a recycled pid counts as a running manager.
PrepareIdentifyLax(m) ==
  /\ pc[m] = "identify"
  /\ \E status \in Identities(rd[m]) :
       IF status = "inactive" THEN Goto(m, "open") /\ UNCHANGED why ELSE Refuse(m, "duplicate")
  /\ rd' = [rd EXCEPT ![m] = NoPid]
  /\ UNCHANGED <<path, content, lock, others, used, pid, fd, named, shutVars>>

\* The switch on the identity of the pid that was read, which is then forgotten.
PrepareIdentify(m) ==
  /\ pc[m] = "identify"
  /\ \E status \in Identities(rd[m]) :
       \/ /\ status \in {"inactive", "mismatch"}
          /\ Goto(m, "open")
          /\ UNCHANGED why
       \/ /\ status = "match"
          /\ Refuse(m, "duplicate")
       \/ /\ status = "unknown"
          /\ Refuse(m, "unverifiable")
  /\ rd' = [rd EXCEPT ![m] = NoPid]
  /\ UNCHANGED <<path, content, lock, others, used, pid, fd, named, shutVars>>

----------------------------------------------------------------------------
(* cvmm start: AcquirePidFileReplacing *)

\* Faulty variant: open(O_RDWR|O_CREAT|O_TRUNC|O_NOFOLLOW)
OpenPidFileTruncating(m) ==
  /\ pc[m] = "open"
  /\ \E i \in Inodes :
       /\ i = path \/ (path = NoInode /\ FreeInode(i))
       /\ path' = i
       /\ content' = [content EXCEPT ![i] = Empty]
       /\ fd' = [fd EXCEPT ![m] = i]
  /\ Goto(m, "lock")
  /\ UNCHANGED <<lock, others, used, pid, rd, named, why, shutVars>>

\* open(O_RDWR|O_CREAT|O_NOFOLLOW)
OpenPidFile(m) ==
  /\ pc[m] = "open"
  /\ \/ /\ path # NoInode
        /\ fd' = [fd EXCEPT ![m] = path]
        /\ UNCHANGED <<path, content>>
     \/ /\ path = NoInode
        /\ \E i \in Inodes :
             /\ FreeInode(i)
             /\ path' = i
             /\ content' = [content EXCEPT ![i] = Empty]
             /\ fd' = [fd EXCEPT ![m] = i]
  /\ Goto(m, "lock")
  /\ UNCHANGED <<lock, others, used, pid, rd, named, why, shutVars>>

\* Faulty variant: the file is taken over without flock.
LockPidFileUnlocked(m) ==
  /\ pc[m] = "lock"
  /\ lock' = [lock EXCEPT ![fd[m]] = m]
  /\ Goto(m, "truncate")
  /\ UNCHANGED <<path, content, others, used, pid, fd, rd, named, why, shutVars>>

\* flock(LOCK_EX|LOCK_NB)
LockPidFile(m) ==
  /\ pc[m] = "lock"
  /\ \/ /\ lock[fd[m]] = NoMgr
        /\ lock' = [lock EXCEPT ![fd[m]] = m]
        /\ Goto(m, "truncate")
        /\ UNCHANGED <<fd, why>>
     \/ /\ lock[fd[m]] # NoMgr
        /\ fd' = [fd EXCEPT ![m] = NoInode]
        /\ Refuse(m, "locked")
        /\ UNCHANGED lock
  /\ UNCHANGED <<path, content, others, used, pid, rd, named, shutVars>>

\* A failed truncate or write closes the descriptor and leaves the file as it is.
AcquireFails(m) ==
  /\ lock' = [lock EXCEPT ![fd[m]] = NoMgr]
  /\ fd' = [fd EXCEPT ![m] = NoInode]
  /\ Refuse(m, "ioerror")
  /\ UNCHANGED content

TruncatePidFile(m) ==
  /\ pc[m] = "truncate"
  /\ \/ /\ content' = [content EXCEPT ![fd[m]] = Empty]
        /\ Goto(m, "write")
        /\ UNCHANGED <<lock, fd, why>>
     \/ AcquireFails(m)
  /\ UNCHANGED <<path, others, used, pid, rd, named, shutVars>>

WritePidFile(m) ==
  /\ pc[m] = "write"
  /\ \/ /\ content' = [content EXCEPT ![fd[m]] = pid[m]]
        /\ Goto(m, "running")
        /\ why' = [why EXCEPT ![m] = "ok"]
        /\ UNCHANGED <<lock, fd>>
     \/ AcquireFails(m)
  /\ UNCHANGED <<path, others, used, pid, rd, named, shutVars>>

----------------------------------------------------------------------------
(* cvmm start: the rest of Start, then the deferred pidClean *)

\* Start returns: cancelled by a signal, or because the guest or a helper ended.
FinishRun(m) ==
  /\ pc[m] = "running"
  /\ Goto(m, "lstat")
  /\ UNCHANGED <<path, content, lock, others, used, pid, fd, rd, named, why, shutVars>>

\* os.Lstat and os.SameFile
CleanLstat(m) ==
  /\ pc[m] = "lstat"
  /\ Goto(m, IF path = fd[m] THEN "remove" ELSE "close")
  /\ UNCHANGED <<path, content, lock, others, used, pid, fd, rd, named, why, shutVars>>

\* os.Remove unlinks whatever the path names by now.
CleanRemove(m) ==
  /\ pc[m] = "remove"
  /\ path' = NoInode
  /\ Goto(m, "close")
  /\ UNCHANGED <<content, lock, others, used, pid, fd, rd, named, why, shutVars>>

\* f.Close drops the lock.
CleanClose(m) ==
  /\ pc[m] = "close"
  /\ lock' = [lock EXCEPT ![fd[m]] = NoMgr]
  /\ fd' = [fd EXCEPT ![m] = NoInode]
  /\ Goto(m, "exit")
  /\ UNCHANGED <<path, content, others, used, pid, rd, named, why, shutVars>>

----------------------------------------------------------------------------
(* cvmm shutdown: Hypervisor.Shutdown *)

SGoto(s, next) == spc' = [spc EXCEPT ![s] = next]
Done(s) ==
  /\ SGoto(s, "done")
  /\ spid' = [spid EXCEPT ![s] = NoPid]

\* ReadPidFile, whose error ends the command: no file, or no number in it.
ShutdownRead(s) ==
  /\ spc[s] = "read"
  /\ \/ RecordedPid = Empty /\ Done(s)
     \/ /\ RecordedPid # Empty
        /\ spid' = [spid EXCEPT ![s] = RecordedPid]
        /\ SGoto(s, "identify")
  /\ UNCHANGED <<path, content, lock, others, used, mgrVars, gone>>

\* Faulty variant: the comparison with ProcessIdentityMatch is inverted.
ShutdownIdentifyInverted(s) ==
  /\ spc[s] = "identify"
  /\ \E status \in Identities(spid[s]) :
       IF status # "match" THEN SGoto(s, "term") /\ UNCHANGED spid ELSE Done(s)
  /\ UNCHANGED <<path, content, lock, others, used, mgrVars, gone>>

ShutdownIdentify(s) ==
  /\ spc[s] = "identify"
  /\ \E status \in Identities(spid[s]) :
       IF status = "match" THEN SGoto(s, "term") /\ UNCHANGED spid ELSE Done(s)
  /\ UNCHANGED <<path, content, lock, others, used, mgrVars, gone>>

\* Process.Signal(SIGTERM), by pid: the signal goroutine of a manager cancels its
\* context, on which FinishRun does not depend; an unrelated process ends.  An
\* error skips the wait and goes to Kill.
ShutdownTerm(s) ==
  /\ spc[s] = "term"
  /\ LET p == spid[s] IN
       /\ others' = others \ {p}
       /\ SGoto(s, IF Live(p) THEN "watch" ELSE "kill")
  /\ UNCHANGED <<path, content, lock, used, pc, pid, fd, rd, named, why, spid, gone>>

\* PidfdOpen in WaitUntilProcessFinished.
ShutdownWatch(s) ==
  /\ spc[s] = "watch"
  /\ gone' = [gone EXCEPT ![s] = ~Live(spid[s])]
  /\ SGoto(s, "wait")
  /\ UNCHANGED <<path, content, lock, others, used, mgrVars, spid>>

ShutdownReturn(s) ==
  /\ spc[s] = "wait"
  /\ gone[s]
  /\ gone' = [gone EXCEPT ![s] = FALSE]
  /\ Done(s)
  /\ UNCHANGED <<path, content, lock, others, used, mgrVars>>

\* Faulty variant: the wait has no deadline.
ShutdownGiveUpNever(s) == FALSE

\* shutdownDeadline passed, or the command itself was interrupted: the loop
\* looks at its context before it looks at the pidfd.
ShutdownGiveUp(s) ==
  /\ spc[s] = "wait"
  /\ gone' = [gone EXCEPT ![s] = FALSE]
  /\ SGoto(s, "kill")
  /\ UNCHANGED <<path, content, lock, others, used, mgrVars, spid>>

\* Process.Kill, by pid.
ShutdownKill(s) ==
  /\ spc[s] = "kill"
  /\ Done(s)
  /\ \/ \E m \in ManagerOf(spid[s]) : EndProcess(m) /\ UNCHANGED others
     \/ /\ ManagerOf(spid[s]) = {}
        /\ others' = others \ {spid[s]}
        /\ gone' = [t \in Shutters |-> gone[t] \/ (/\ spid[s] \in others
                                                   /\ spc[t] = "wait"
                                                   /\ spid[t] = spid[s])]
        /\ UNCHANGED <<lock, pc, pid, fd, rd, named, why>>
  /\ UNCHANGED <<path, content, used>>

----------------------------------------------------------------------------
ManagerStep(m) ==
  \/ PrepareRead(m) \/ PrepareIdentify(m)
  \/ OpenPidFile(m) \/ LockPidFile(m) \/ TruncatePidFile(m) \/ WritePidFile(m)
  \/ CleanLstat(m) \/ CleanRemove(m) \/ CleanClose(m) \/ Exit(m)

ShutterStep(s) ==
  \/ ShutdownRead(s) \/ ShutdownIdentify(s) \/ ShutdownTerm(s) \/ ShutdownWatch(s)
  \/ ShutdownReturn(s) \/ ShutdownGiveUp(s) \/ ShutdownKill(s)

Next ==
  \/ \E m \in Managers : Launch(m) \/ ManagerStep(m) \/ FinishRun(m) \/ Crash(m)
  \/ \E p \in Pids : OtherStarts(p) \/ OtherExits(p)
  \/ \E s \in Shutters : ShutterStep(s)

Spec == Init /\ [][Next]_vars

\* A manager may run for ever or hang in its own shutdown, so FinishRun is not
\* fair; every other step of a process is a system call that returns, and the
\* deadline of the wait passes.
Fairness ==
  /\ \A m \in Managers : WF_vars(ManagerStep(m))
  /\ \A s \in Shutters : WF_vars(ShutterStep(s))

FairSpec == Spec /\ Fairness

----------------------------------------------------------------------------
(* Properties *)

Holding(m) == pc[m] \in {"truncate", "write", "running", "lstat", "remove", "close"}
Published(m) == pc[m] \in {"running", "lstat", "remove", "close"}

\* The managers between flock and Close are exactly the holders of the locks,
\* each of the inode it has open: the non-blocking flock of acquirePidFile.
LockedByHolder ==
  /\ \A m \in Managers : Holding(m) => fd[m] \in Inodes /\ lock[fd[m]] = m
  /\ \A i \in Inodes : lock[i] # NoMgr => Holding(lock[i]) /\ fd[lock[i]] = i

\* A process has a pid from fork to exit.
PidAssigned == \A m \in Managers : pc[m] # "off" => pid[m] \in Pids

\* Until its own Close, the inode a manager acquired holds that manager's pid:
\* nobody else truncates or writes it (acquirePidFile truncates after flock).
OwnPidPublished == \A m \in Managers : Published(m) => content[fd[m]] = pid[m]

\* When a cleanup reaches os.Remove, the path still names the inode that Lstat
\* saw, although the check and the removal are two system calls on a path.
RemovesOwnFile == \A m \in Managers : pc[m] = "remove" => path = fd[m]

\* flock is called on an open descriptor.
OpenBeforeLock == \A m \in Managers : pc[m] = "lock" => fd[m] \in Inodes

\* The inductive invariant of the protocol.
OwnershipInv ==
  /\ TypeOK
  /\ PidAssigned
  /\ OpenBeforeLock
  /\ LockedByHolder
  /\ OwnPidPublished
  /\ RemovesOwnFile

\* No step of anyone overwrites or unlinks the pid file of a running manager.
OwnershipStable ==
  [][\A m \in Managers :
       pc[m] = "running" /\ pc'[m] = "running" =>
         /\ content'[fd[m]] = content[fd[m]]
         /\ path = fd[m] => path' = path]_vars

\* A start refused as "already running" is refused because another manager is
\* alive, never for a stranger who got the pid of a stale file (preparePidFile,
\* cases ProcessIdentityMatch and Mismatch) -- or because the stale pid is its own.
RefusalMeansDuplicate ==
  [][\A m \in Managers :
       why[m] # "duplicate" /\ why'[m] = "duplicate" /\ rd[m] # pid[m] =>
         \E n \in Managers \ {m} : pc[n] # "off" /\ pid[n] = rd[m]]_vars

\* A pid file that stays empty, so that every later start and shutdown finds it
\* unreadable, is the work of one event only: a start that was killed between
\* open and write, or whose write failed.  No start that is refused, and no
\* clean-up, empties a file.
Writing(m) == pc[m] \in {"lock", "truncate", "write"}
EmptyForGood ==
  /\ path # NoInode /\ content[path] = Empty
  /\ \A m \in Managers : Writing(m) => fd[m] # path
EmptyFileIsTorn ==
  [][~EmptyForGood /\ EmptyForGood' =>
       \E m \in Managers : Writing(m) /\ (pc'[m] = "off" \/ why'[m] = "ioerror")]_vars

\* A shutdown command never signals a process that is not a manager, although
\* it verifies the identity and signals the pid in separate steps.
SignalsOnlyManagers ==
  \A s \in Shutters : spc[s] \in {"term", "watch", "wait", "kill"} => spid[s] \notin others

\* At most one manager of the node runs at a time.
SingleManager ==
  \A m, n \in Managers : pc[m] = "running" /\ pc[n] = "running" => m = n

\* Once a shutdown command has signalled a manager, that process ends: on its
\* own within the deadline, or by SIGKILL, even if it hangs.
SignalledManagerEnds ==
  \A s \in Shutters, m \in Managers, p \in Pids :
    (spc[s] = "watch" /\ spid[s] = p /\ pid[m] = p) ~> pid[m] # p
============================================================================
