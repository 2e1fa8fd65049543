-------------------------------- MODULE Node --------------------------------
(***************************************************************************)
(* One node: the managers and shutdown commands of PidFile, composed with  *)
(* what a manager does while it runs -- seen from the outside, as far as   *)
(* another manager of the same node can meet it: the cloud-hypervisor      *)
(* process it launches, the pid file of that process, and the API socket,  *)
(* both found by path.  Module Hypervisor has the inside of one manager.   *)
(*                                                                         *)
(* A manager may be killed at any point; its child is told by pdeathsig    *)
(* but lives for a while, and the next manager may start meanwhile.  A VMM *)
(* goes by the pid of the manager that launched it, so pids are not reused *)
(* here.  The locks on the pid file of the VMM are taken at once with its  *)
(* opening; PidFile shows what happens in between.                         *)
(***************************************************************************)
EXTENDS PidFile

ASSUME NodeAssumption == Pids \subseteq Nat /\ PidReuse = "never"

VARIABLES
  stage,      \* stage[m]: where Start of m is, while pc[m] = "running"
  vmm,        \* vmm[p]: the VMM launched by the manager with pid p
  told,       \* told[p]: that VMM lives and got SIGTERM
  chFile,     \* the pid file of the VMM: NoPid without one, Empty, or the VMM it names
  chLock,     \* the manager whose descriptor holds the flock of that file
  apiSocket,  \* the VMM whose socket the path names, or NoPid
  creator,    \* creator[p]: the manager whose vm.create that VMM has accepted, or NoPid
  met,        \* history: the pairs of managers, by pid, that have run at the same time
  old         \* history: the VMMs that listened when that manager removed the path

nodeVars == <<stage, vmm, told, chFile, chLock, apiSocket, creator, met, old>>
allVars == <<vars, nodeVars>>

Stages == {"check", "unlink", "spawn", "launched", "record", "supervise", "reap", "abort", "over"}

NodeTypeOK ==
  /\ TypeOK
  /\ stage \in [Managers -> Stages]
  /\ vmm \in [Pids -> {"none", "starting", "serving", "dead"}]
  /\ told \in [Pids -> BOOLEAN]
  /\ chFile \in Pids \cup {NoPid, Empty}
  /\ chLock \in Managers \cup {NoMgr}
  /\ apiSocket \in Pids \cup {NoPid}
  /\ creator \in [Pids -> Pids \cup {NoPid}]
  /\ met \subseteq SUBSET Pids
  /\ old \in [Pids -> SUBSET Pids]

Alive(p) == vmm[p] \in {"starting", "serving"}
Runs(p) == \E m \in Managers : pc[m] = "running" /\ pid[m] = p
RunningTogether ==
  {mn \in Managers \X Managers : mn[1] # mn[2] /\ \A i \in 1..2 : pc[mn[i]] = "running"}

NodeInit ==
  /\ Init
  /\ stage = [m \in Managers |-> "check"]
  /\ vmm = [p \in Pids |-> "none"]
  /\ told = [p \in Pids |-> FALSE]
  /\ chFile = NoPid /\ chLock = NoMgr
  /\ apiSocket = NoPid
  /\ creator = [p \in Pids |-> NoPid]
  /\ met = {}
  /\ old = [p \in Pids |-> {}]

----------------------------------------------------------------------------
(* The processes of PidFile, and what the end of a manager does to its VMM *)

\* Faulty variant: without Pdeathsig.
ManagersEndUntold ==
  /\ chLock' = IF \E m \in Managers : chLock = m /\ pc'[m] = "off" THEN NoMgr ELSE chLock
  /\ stage' = [m \in Managers |-> IF pc'[m] = "off" THEN "check" ELSE stage[m]]
  /\ UNCHANGED told

\* The VMM of a manager that ended is told (Pdeathsig), and the flock dropped.
ManagersEnd ==
  /\ told' = [p \in Pids |-> told[p] \/ (Alive(p) /\ ManagerOf(p) # {} /\ ManagerOf(p)' = {})]
  /\ chLock' = IF \E m \in Managers : chLock = m /\ pc'[m] = "off" THEN NoMgr ELSE chLock
  /\ stage' = [m \in Managers |-> IF pc'[m] = "off" THEN "check" ELSE stage[m]]

PidFileStep(A) ==
  /\ A
  /\ ManagersEnd
  /\ met' = met \cup {{pid'[mn[1]], pid'[mn[2]]} : mn \in RunningTogether'}
  /\ UNCHANGED <<vmm, chFile, apiSocket, creator, old>>

\* The kernel hands out pids in turn.
LaunchInTurn(m) == Launch(m) /\ \A p \in Pids \ used : pid'[m] <= p

----------------------------------------------------------------------------
(* A running manager *)

At(m, st) == pc[m] = "running" /\ stage[m] = st
Stage(m, next) == stage' = [stage EXCEPT ![m] = next]
Tell(m) == told' = [told EXCEPT ![pid[m]] = Alive(pid[m])]

\* Faulty variant: a pid file that names a live VMM is taken for a stale one.
CheckVmmLax(m) ==
  /\ At(m, "check")
  /\ \/ chFile # Empty /\ Stage(m, "unlink")
     \/ Stage(m, "over")
  /\ UNCHANGED <<vars, vmm, told, chFile, chLock, apiSocket, creator, met, old>>

\* preparePidFile of the VMM goes on without a file, or with that of a VMM that has
\* ended.  It refuses a live one; and an unreadable file or identity, or the pid file
\* of passt, which is prepared next, may end any start here.
CheckVmm(m) ==
  /\ At(m, "check")
  /\ \/ /\ chFile = NoPid \/ (chFile \in Pids /\ ~Alive(chFile))
        /\ Stage(m, "unlink")
     \/ Stage(m, "over")
  /\ UNCHANGED <<vars, vmm, told, chFile, chLock, apiSocket, creator, met, old>>

NoteOld(m) == old' = [old EXCEPT ![pid[m]] = {p \in Pids : vmm[p] = "serving"}]

\* Faulty variant: a socket left at the path stays.
UnlinkSocketNot(m) ==
  /\ At(m, "unlink")
  /\ Stage(m, "spawn") /\ NoteOld(m)
  /\ UNCHANGED <<vars, vmm, told, chFile, chLock, apiSocket, creator, met>>

\* os.Remove(socketPath)
UnlinkSocket(m) ==
  /\ At(m, "unlink")
  /\ Stage(m, "spawn") /\ NoteOld(m)
  /\ apiSocket' = NoPid
  /\ UNCHANGED <<vars, vmm, told, chFile, chLock, creator, met>>

\* cmd.Start; when it fails, Start fails.
SpawnVmm(m) ==
  /\ At(m, "spawn")
  /\ \/ Stage(m, "over") /\ UNCHANGED vmm
     \/ Stage(m, "launched") /\ vmm' = [vmm EXCEPT ![pid[m]] = "starting"]
  /\ UNCHANGED <<vars, told, chFile, chLock, apiSocket, creator, met, old>>

\* AcquirePidFileReplacing: open, flock and truncate; locked, it fails.
LockRecord(m) ==
  /\ At(m, "launched")
  /\ \/ /\ chLock = NoMgr
        /\ chLock' = m /\ chFile' = Empty
        /\ Stage(m, "record")
        /\ UNCHANGED told
     \/ /\ chLock # NoMgr
        /\ Stage(m, "abort") /\ Tell(m)
        /\ UNCHANGED <<chFile, chLock>>
  /\ UNCHANGED <<vars, vmm, apiSocket, creator, met, old>>

\* A failed write leaves the file empty, and the VMM is told to end.
WriteRecord(m) ==
  /\ At(m, "record")
  /\ \/ /\ chFile' = pid[m]
        /\ Stage(m, "supervise")
        /\ UNCHANGED <<told, chLock>>
     \/ /\ chLock' = NoMgr
        /\ Stage(m, "abort") /\ Tell(m)
        /\ UNCHANGED chFile
  /\ UNCHANGED <<vars, vmm, apiSocket, creator, met, old>>

\* waitForHypervisorReady and vm.create: whoever the path leads to.  Later requests
\* take the same path.
CreateVm(m) ==
  /\ pc[m] = "running" /\ stage[m] \in {"launched", "record", "supervise"}
  /\ apiSocket \in Pids /\ Alive(apiSocket) /\ creator[apiSocket] = NoPid
  /\ creator' = [creator EXCEPT ![apiSocket] = pid[m]]
  /\ UNCHANGED <<vars, stage, vmm, told, chFile, chLock, apiSocket, met, old>>

\* Every shutdown path of Start; one second later it kills.
StopVmm(m) ==
  /\ At(m, "supervise")
  /\ Stage(m, "reap") /\ Tell(m)
  /\ UNCHANGED <<vars, vmm, chFile, chLock, apiSocket, creator, met, old>>

\* cmd.Wait, then the deferred pidClean; without a pid file cmd.Wait only.
ReapVmm(m) ==
  /\ pc[m] = "running" /\ stage[m] \in {"supervise", "reap", "abort"}
  /\ ~Alive(pid[m])
  /\ Stage(m, "over")
  /\ IF stage[m] = "abort" THEN UNCHANGED <<chFile, chLock>>
     ELSE chFile' = NoPid /\ chLock' = NoMgr
  /\ UNCHANGED <<vars, vmm, told, apiSocket, creator, met, old>>

\* Start returns when its VMM is gone.
Finish(m) == stage[m] = "over" /\ FinishRun(m)

----------------------------------------------------------------------------
(* The VMM itself *)

\* It binds where nothing is, also when it has been told to end: SIGTERM is handled
\* by one thread while another one binds.
BindApi(p) ==
  /\ vmm[p] = "starting" /\ apiSocket = NoPid
  /\ vmm' = [vmm EXCEPT ![p] = "serving"]
  /\ apiSocket' = p
  /\ UNCHANGED <<vars, stage, told, chFile, chLock, creator, met, old>>

\* It may take the path of the socket with it, whosever socket that is by now.
VmmEnds(p) ==
  /\ Alive(p)
  /\ vmm' = [vmm EXCEPT ![p] = "dead"]
  /\ told' = [told EXCEPT ![p] = FALSE]
  /\ creator' = [creator EXCEPT ![p] = NoPid]
  /\ apiSocket' \in {apiSocket, NoPid}
  /\ UNCHANGED <<vars, stage, chFile, chLock, met, old>>

----------------------------------------------------------------------------
VmmStep(m) ==
  \/ CheckVmm(m) \/ UnlinkSocket(m) \/ SpawnVmm(m) \/ LockRecord(m) \/ WriteRecord(m)
  \/ ReapVmm(m)

NodeNext ==
  \/ \E m \in Managers :
       \/ PidFileStep(LaunchInTurn(m) \/ ManagerStep(m) \/ Finish(m) \/ Crash(m))
       \/ VmmStep(m) \/ CreateVm(m) \/ StopVmm(m)
  \/ \E s \in Shutters : PidFileStep(ShutterStep(s))
  \/ \E p \in Pids : BindApi(p) \/ VmmEnds(p)

NodeSpec == NodeInit /\ [][NodeNext]_allVars

----------------------------------------------------------------------------
(* Properties *)

\* A VMM that nobody told to end has its manager: neither a crash nor a kill nor
\* an early return of Start leaves one behind.
NoUnmanagedVmm == \A p \in Pids : Alive(p) /\ ~told[p] => Runs(p)

\* A start launches its VMM beside another live one of the node only if that one
\* has been told to end and is not the one in the pid file (its manager was killed
\* between cmd.Start and the pid file), or if the two managers ran at the same
\* time (the race of cvmm.pid): a recorded VMM of an earlier manager is noticed.
SpawnsAlone ==
  [][\A p, q \in Pids :
       p # q /\ vmm[p] = "none" /\ vmm'[p] # "none" /\ Alive(q) =>
         (told[q] /\ chFile # q) \/ {p, q} \in met]_allVars

\* A VMM that listened when a start removed the path gets no vm.create of that start,
\* whoever launched it, although the ping asks by path and does not say who answers.
OldSocketUnused ==
  [][\A p, q \in Pids : creator[q] = NoPid /\ creator'[q] = p => q \notin old[p]]_allVars
============================================================================
