----------------------------- MODULE NodeProofs -----------------------------
(***************************************************************************)
(* No manager of a node leaves behind a VMM that nobody told to end, and   *)
(* every start notices the VMM of an earlier one, for any number of        *)
(* managers, shutdown commands and pids, whatever crashes and kills come   *)
(* between the steps of a start.                                           *)
(***************************************************************************)
EXTENDS Node, PidFileProofs

USE NodeAssumption

----------------------------------------------------------------------------
(* The inductive invariant *)

Before == {"prepare", "identify", "open", "lock", "truncate", "write"}
After == {"lstat", "remove", "close", "exit"}

\* Every process has a pid of its own, which is used up, as is that of a VMM.
PidsDistinct ==
  /\ \A m, n \in Managers : pc[m] # "off" /\ pc[n] # "off" /\ m # n => pid[m] # pid[n]
  /\ \A m \in Managers : pc[m] # "off" => pid[m] \in used
  /\ \A p \in Pids : vmm[p] # "none" => p \in used

\* A manager has no VMM before it launches one, and none when it is over.
ChildOf(m) ==
  /\ pc[m] = "off" => stage[m] = "check"
  /\ pc[m] \in Before => stage[m] = "check"
  /\ pc[m] \in Before \cup {"running"} /\ stage[m] \in {"check", "unlink", "spawn"} =>
       vmm[pid[m]] = "none"
  /\ pc[m] = "running" /\ stage[m] = "over" => ~Alive(pid[m])
  /\ pc[m] \in After => ~Alive(pid[m])

ChildInRun == \A m \in Managers : ChildOf(m)

ManagedInv ==
  /\ OwnershipInv /\ NodeTypeOK
  /\ PidsDistinct /\ ChildInRun /\ NoUnmanagedVmm

LEMMA InitManaged == NodeInit => ManagedInv
<1> SUFFICES ASSUME NodeInit PROVE ManagedInv
  OBVIOUS
<1>1. OwnershipInv
  BY InitOwnership DEF NodeInit
<1> QED
  BY <1>1 DEF NodeInit, Init, ManagedInv, NodeTypeOK, OwnershipInv, Stages, PidsDistinct,
              ChildInRun, ChildOf, NoUnmanagedVmm, Alive, Before, After

----------------------------------------------------------------------------
(* The steps of PidFile *)

PidFileAction ==
  \/ \E m \in Managers : LaunchInTurn(m) \/ ManagerStep(m) \/ Finish(m) \/ Crash(m)
  \/ \E s \in Shutters : ShutterStep(s)

\* A manager is launched with a fresh pid, ends, or goes on with its own.
Launched(n) == /\ pc[n] = "off" /\ pc'[n] = "prepare"
               /\ pid'[n] \in Pids \ used /\ pid'[n] \in used'
GoesOn(n) ==
  /\ pc[n] # "off" /\ pid'[n] = pid[n]
  /\ \/ pc[n] \in Before /\ pc'[n] \in Before \cup After \cup {"running"}
     \/ pc[n] = "running" /\ pc'[n] = "running"
     \/ pc[n] = "running" /\ stage[n] = "over" /\ pc'[n] \in After
     \/ pc[n] \in After /\ pc'[n] \in After

PidFileShape ==
  /\ \A n \in Managers : pc'[n] = "off" \/ Launched(n) \/ GoesOn(n)
  /\ \A n, k \in Managers : Launched(n) /\ Launched(k) => n = k
  /\ used \subseteq used'

\* What a step of PidFile does to the managers.
LEMMA StepShape ==
  ASSUME TypeOK, PidFileAction
  PROVE  PidFileShape
<1> USE DEF TypeOK, PidFileShape, Launched, GoesOn, Before, After, ManagerPCs
<1>1. ASSUME NEW m \in Managers, LaunchInTurn(m) PROVE PidFileShape
  BY <1>1 DEF LaunchInTurn, Launch, FreshPid, Spent, NodeAssumption
<1>2. ASSUME NEW m \in Managers, EndProcess(m), UNCHANGED used PROVE PidFileShape
  BY <1>2 DEF EndProcess
<1>3. ASSUME NEW m \in Managers, ManagerStep(m) \/ Finish(m) \/ Crash(m) PROVE PidFileShape
  <2>1. CASE Exit(m) \/ Crash(m)
    BY <1>2, <2>1 DEF Exit, Crash
  <2>2. CASE PrepareRead(m) \/ PrepareIdentify(m)
    BY <2>2 DEF PrepareRead, PrepareIdentify, Goto, Refuse
  <2>3. CASE OpenPidFile(m) \/ LockPidFile(m) \/ TruncatePidFile(m) \/ WritePidFile(m)
    BY <2>3 DEF OpenPidFile, LockPidFile, TruncatePidFile, WritePidFile, AcquireFails,
        Goto, Refuse
  <2>4. CASE Finish(m) \/ CleanLstat(m) \/ CleanRemove(m) \/ CleanClose(m)
    BY <2>4 DEF Finish, FinishRun, CleanLstat, CleanRemove, CleanClose, Goto
  <2> QED
    BY <1>3, <2>1, <2>2, <2>3, <2>4 DEF ManagerStep
<1>4. ASSUME UNCHANGED <<pc, pid, used>> PROVE PidFileShape
  BY <1>4
<1>5. ASSUME NEW s \in Shutters, ShutterStep(s) PROVE PidFileShape
  <2>1. CASE ShutdownKill(s)
    <3>1. UNCHANGED used
      BY <2>1 DEF ShutdownKill
    <3>2. CASE \E m \in Managers : EndProcess(m)
      BY <1>2, <3>1, <3>2
    <3>3. CASE UNCHANGED <<pc, pid>>
      BY <1>4, <3>1, <3>3
    <3> QED
      BY <2>1, <3>2, <3>3 DEF ShutdownKill, ManagerOf
  <2>2. CASE ~ShutdownKill(s)
    BY <1>4, <1>5, <2>2
    DEF ShutterStep, ShutdownRead, ShutdownIdentify, ShutdownTerm, ShutdownWatch,
        ShutdownReturn, ShutdownGiveUp, mgrVars
  <2> QED
    BY <2>1, <2>2
<1> QED
  BY <1>1, <1>3, <1>5 DEF PidFileAction

\* Such a step is one of PidFile, so the ownership invariant survives it.
LEMMA ActionIsNext ==
  ASSUME PidFileAction
  PROVE  Next
  BY DEF PidFileAction, Next, LaunchInTurn, Finish

\* The children after a step of PidFile: an ending manager's is told.
LEMMA PidFileKeeps ==
  ASSUME ManagedInv, PidFileStep(PidFileAction)
  PROVE  ManagedInv'
<1> USE DEF ManagedInv
<1>1. /\ OwnershipInv' /\ TypeOK' /\ PidFileShape
      /\ UNCHANGED <<vmm, chFile, apiSocket, creator, old>>
  BY StepShape, ActionIsNext, OwnershipStep DEF PidFileStep, OwnershipInv
<1>2. /\ stage' = [m \in Managers |-> IF pc'[m] = "off" THEN "check" ELSE stage[m]]
      /\ told' = [p \in Pids |->
                    told[p] \/ (Alive(p) /\ ManagerOf(p) # {} /\ ManagerOf(p)' = {})]
  BY DEF PidFileStep, ManagersEnd
<1>3. NodeTypeOK'
  <2>1. stage' \in [Managers -> Stages]
    BY <1>2 DEF NodeTypeOK, Stages
  <2>2. told' \in [Pids -> BOOLEAN]
    BY <1>2 DEF NodeTypeOK
  <2>3. chLock' \in Managers \cup {NoMgr}
    BY DEF NodeTypeOK, PidFileStep, ManagersEnd
  <2>4. met' \subseteq SUBSET Pids
    <3>1. \A mn \in RunningTogether' : pid'[mn[1]] \in Pids /\ pid'[mn[2]] \in Pids
      BY <1>1 DEF RunningTogether, OwnershipInv, PidAssigned
    <3>2. met' = met \cup {{pid'[mn[1]], pid'[mn[2]]} : mn \in RunningTogether'}
      BY DEF PidFileStep
    <3>3. met \subseteq SUBSET Pids
      BY DEF NodeTypeOK
    <3>4. ASSUME NEW x \in met', x \notin met PROVE x \subseteq Pids
      <4>1. PICK mn \in RunningTogether' : x = {pid'[mn[1]], pid'[mn[2]]}
        BY <3>2, <3>4
      <4> QED
        BY <3>1, <4>1
    <3> QED
      BY <3>3, <3>4
  <2> QED
    BY <1>1, <2>1, <2>2, <2>3, <2>4 DEF NodeTypeOK
<1>4. PidsDistinct'
  BY <1>1 DEF PidsDistinct, PidFileShape, Launched, GoesOn
<1>5. ChildInRun'
  <2> SUFFICES ASSUME NEW m \in Managers PROVE ChildOf(m)'
    BY DEF ChildInRun
  <2> USE DEF ChildOf
  <2>1. CASE pc'[m] = "off"
    BY <1>2, <2>1 DEF Before, After
  <2>2. CASE Launched(m)
    BY <1>1, <1>2, <2>2 DEF Launched, PidsDistinct, ChildInRun, NodeTypeOK, Before, After
  <2>3. CASE GoesOn(m) /\ pc'[m] # "off"
    BY <1>1, <1>2, <2>3 DEF GoesOn, ChildInRun, Alive, Before, After
  <2> QED
    BY <1>1, <2>1, <2>2, <2>3 DEF PidFileShape
<1>6. NoUnmanagedVmm'
  <2> SUFFICES ASSUME NEW p \in Pids, Alive(p)', ~told'[p] PROVE Runs(p)'
    BY DEF NoUnmanagedVmm
  <2>1. Alive(p) /\ ~told[p]
    BY <1>1, <1>2 DEF Alive
  <2>2. PICK m \in Managers : pc[m] = "running" /\ pid[m] = p
    BY <2>1 DEF NoUnmanagedVmm, Runs
  <2>3. ManagerOf(p)' # {}
    BY <1>2, <2>1, <2>2 DEF ManagerOf
  <2>4. PICK n \in Managers : pc'[n] # "off" /\ pid'[n] = p
    BY <2>3 DEF ManagerOf
  <2>5. n = m
    BY <1>1, <2>2, <2>4 DEF PidFileShape, Launched, GoesOn, PidsDistinct
  <2>6. GoesOn(m)
    BY <1>1, <2>2, <2>4, <2>5 DEF PidFileShape, Launched
  <2>7. stage[m] # "over"
    BY <2>1, <2>2 DEF ChildInRun, ChildOf
  <2> QED
    BY <2>2, <2>6, <2>7 DEF GoesOn, Runs, Before, After
<1> QED
  BY <1>1, <1>3, <1>4, <1>5, <1>6

----------------------------------------------------------------------------
(* The steps of a running manager, and those of a VMM *)

\* A manager's own step moves its stage and its VMM, and nobody else's.
OwnStep(m) ==
  /\ UNCHANGED vars /\ pc[m] = "running" /\ stage' \in [Managers -> Stages]
  /\ \A n \in Managers \ {m} : stage'[n] = stage[n]
  /\ \A p \in Pids \ {pid[m]} : vmm'[p] = vmm[p] /\ told'[p] = told[p]

LEMMA OwnStepKeeps ==
  ASSUME ManagedInv, NEW m \in Managers, OwnStep(m), NodeTypeOK', ChildOf(m)'
  PROVE  ManagedInv'
<1> USE DEF ManagedInv, OwnStep
<1>1. UNCHANGED <<path, content, lock, used, pc, pid, fd>>
  BY DEF vars, mgrVars
<1>2. OwnershipInv' /\ pid[m] \in Pids
  BY <1>1, FrameOwnership DEF NodeTypeOK, OwnershipInv, PidAssigned
<1>3. \A n \in Managers \ {m} : pc[n] # "off" => pid[n] \in Pids \ {pid[m]}
  BY DEF PidsDistinct, OwnershipInv, PidAssigned
<1>4. PidsDistinct'
  BY <1>1, <1>2 DEF PidsDistinct
<1>5. ASSUME NEW n \in Managers, n # m PROVE ChildOf(n)'
  <2>1. stage'[n] = stage[n] /\ (pc[n] # "off" => vmm'[pid[n]] = vmm[pid[n]])
    BY <1>3, <1>5
  <2>2. ChildOf(n)
    BY DEF ChildInRun
  <2> QED
    BY <1>1, <2>1, <2>2 DEF ChildOf, Alive, Before, After
<1>6. NoUnmanagedVmm'
  <2> SUFFICES ASSUME NEW p \in Pids, Alive(p)', ~told'[p] PROVE Runs(p)'
    BY DEF NoUnmanagedVmm
  <2>1. CASE p = pid[m]
    BY <1>1, <2>1 DEF Runs
  <2>2. CASE p # pid[m]
    BY <1>1, <2>2 DEF NoUnmanagedVmm, Runs, Alive
  <2> QED
    BY <2>1, <2>2
<1> QED
  BY <1>2, <1>4, <1>5, <1>6 DEF ChildInRun

LEMMA ManagerKeeps ==
  ASSUME ManagedInv, NEW m \in Managers, VmmStep(m) \/ CreateVm(m) \/ StopVmm(m)
  PROVE  ManagedInv'
<1> USE DEF ManagedInv, NodeTypeOK, Stages, At, Stage
<1>1. UNCHANGED vars /\ pc[m] = "running" /\ ChildOf(m) /\ pid[m] \in Pids
  BY DEF VmmStep, CheckVmm, UnlinkSocket, SpawnVmm, LockRecord, WriteRecord, ReapVmm,
         CreateVm, StopVmm, ChildInRun, OwnershipInv, PidAssigned
<1>2. TypeOK' /\ UNCHANGED <<pc, pid>>
  BY <1>1 DEF vars, mgrVars, shutVars, TypeOK
<1>3. CASE CheckVmm(m) \/ UnlinkSocket(m)
  <2>1. old' \in [Pids -> SUBSET Pids]
    BY <1>1, <1>3 DEF CheckVmm, UnlinkSocket, NoteOld
  <2>2. NodeTypeOK' /\ OwnStep(m) /\ ChildOf(m)'
    BY <1>1, <1>2, <1>3, <2>1 DEF CheckVmm, UnlinkSocket, OwnStep, ChildOf, Alive, Before, After
  <2> QED
    BY <2>2, OwnStepKeeps
<1>4. CASE SpawnVmm(m)
  <2>1. NodeTypeOK' /\ OwnStep(m) /\ ChildOf(m)'
    BY <1>1, <1>2, <1>4 DEF SpawnVmm, OwnStep, ChildOf, Alive, Before, After
  <2> QED
    BY <2>1, OwnStepKeeps
<1>5. CASE LockRecord(m) \/ WriteRecord(m) \/ StopVmm(m)
  <2>0. Alive(pid[m]) \in BOOLEAN
    BY DEF Alive
  <2>a. told' = told \/ told' = [told EXCEPT ![pid[m]] = Alive(pid[m])]
    BY <1>5 DEF LockRecord, WriteRecord, StopVmm, Tell
  <2>1. told' \in [Pids -> BOOLEAN] /\ \A p \in Pids \ {pid[m]} : told'[p] = told[p]
    BY <1>1, <2>0, <2>a
  <2>2. NodeTypeOK'
    BY <1>1, <1>2, <1>5, <2>1 DEF LockRecord, WriteRecord, StopVmm
  <2>3. OwnStep(m) /\ ChildOf(m)'
    BY <1>1, <1>2, <1>5, <2>1
    DEF LockRecord, WriteRecord, StopVmm, OwnStep, ChildOf, Alive, Before, After
  <2> QED
    BY <2>2, <2>3, OwnStepKeeps
<1>6. CASE ReapVmm(m) \/ CreateVm(m)
  <2>1. NodeTypeOK' /\ OwnStep(m) /\ ChildOf(m)'
    BY <1>1, <1>2, <1>6 DEF ReapVmm, CreateVm, OwnStep, ChildOf, Alive, Before, After
  <2> QED
    BY <2>1, OwnStepKeeps
<1> QED
  BY <1>3, <1>4, <1>5, <1>6 DEF VmmStep

LEMMA VmmKeeps ==
  ASSUME ManagedInv, NEW p \in Pids, BindApi(p) \/ VmmEnds(p)
  PROVE  ManagedInv'
<1> USE DEF ManagedInv
<1>1. /\ UNCHANGED <<vars, stage, chFile, chLock, met, old>> /\ vmm[p] \in {"starting", "serving"}
      /\ \/ vmm' = [vmm EXCEPT ![p] = "serving"] /\ told' = told
         \/ vmm' = [vmm EXCEPT ![p] = "dead"] /\ told' = [told EXCEPT ![p] = FALSE]
  BY DEF BindApi, VmmEnds, Alive
<1>2. UNCHANGED <<path, content, lock, used, pc, pid, fd>> /\ TypeOK'
  BY <1>1 DEF vars, mgrVars, shutVars, NodeTypeOK, TypeOK
<1>3. OwnershipInv'
  BY <1>2, FrameOwnership
<1>4. NodeTypeOK'
  <2>1. vmm' \in [Pids -> {"none", "starting", "serving", "dead"}] /\ told' \in [Pids -> BOOLEAN]
    BY <1>1 DEF NodeTypeOK
  <2>2. apiSocket' \in Pids \cup {NoPid} /\ creator' \in [Pids -> Pids \cup {NoPid}]
    BY DEF NodeTypeOK, BindApi, VmmEnds
  <2> QED
    BY <1>1, <1>2, <2>1, <2>2 DEF NodeTypeOK
<1>5. \A q \in Pids : /\ vmm'[q] = "none" <=> vmm[q] = "none"
                      /\ Alive(q)' => Alive(q) /\ told'[q] = told[q]
  BY <1>1 DEF NodeTypeOK, Alive
<1>6. PidsDistinct'
  BY <1>2, <1>5 DEF PidsDistinct
<1>7. ChildInRun'
  BY <1>1, <1>2, <1>5 DEF ChildInRun, ChildOf, OwnershipInv, PidAssigned, Before, After
<1>8. NoUnmanagedVmm'
  BY <1>2, <1>5 DEF NoUnmanagedVmm, Runs
<1> QED
  BY <1>3, <1>4, <1>6, <1>7, <1>8

LEMMA ManagedStep == ManagedInv /\ [NodeNext]_allVars => ManagedInv'
<1> SUFFICES ASSUME ManagedInv, [NodeNext]_allVars PROVE ManagedInv'
  OBVIOUS
<1>1. CASE \/ \E m \in Managers :
                PidFileStep(LaunchInTurn(m) \/ ManagerStep(m) \/ Finish(m) \/ Crash(m))
           \/ \E s \in Shutters : PidFileStep(ShutterStep(s))
  <2>1. PidFileStep(PidFileAction)
    BY <1>1 DEF PidFileStep, PidFileAction
  <2> QED
    BY <2>1, PidFileKeeps
<1>2. CASE UNCHANGED allVars
  <2>1. UNCHANGED <<path, content, lock, others, used, pc, pid, fd, rd, named, why,
                    spc, spid, gone, stage, vmm, told, chFile, chLock, apiSocket, creator, met,
                    old>>
    BY <1>2 DEF allVars, vars, mgrVars, shutVars, nodeVars
  <2>2. NodeTypeOK' /\ OwnershipInv'
    BY <2>1, FrameOwnership DEF ManagedInv, NodeTypeOK, TypeOK
  <2> QED
    BY <2>1, <2>2 DEF ManagedInv, PidsDistinct, ChildInRun, ChildOf, NoUnmanagedVmm, Runs, Alive
<1> QED
  BY <1>1, <1>2, ManagerKeeps, VmmKeeps DEF NodeNext

LEMMA ManagedInvariant == NodeSpec => []ManagedInv
  BY InitManaged, ManagedStep, PTL DEF NodeSpec

----------------------------------------------------------------------------
(* Theorems *)

\* The variables of a node keep their types.
THEOREM NodeTypeCorrect == NodeSpec => []NodeTypeOK
<1>1. ManagedInv => NodeTypeOK
  BY DEF ManagedInv
<1> QED
  BY <1>1, ManagedInvariant, PTL

\* A VMM without its manager has been told to end: pdeathsig covers a crash and a
\* SIGKILL at any step of a start, Start itself every other way out.
THEOREM VmmsAreManaged == NodeSpec => []NoUnmanagedVmm
<1>1. ManagedInv => NoUnmanagedVmm
  BY DEF ManagedInv
<1> QED
  BY <1>1, ManagedInvariant, PTL

----------------------------------------------------------------------------
(* Managers that run at the same time, and what they find by path *)

\* Managers that run at the same time have met.
Acquainted ==
  \A m, n \in Managers : m # n /\ pc[m] = "running" /\ pc[n] = "running" =>
    {pid[m], pid[n]} \in met

\* From cmd.Start on a manager has a VMM, and the pid file names only such.
RecordedVmmsRan ==
  /\ \A m \in Managers : pc[m] = "running" /\ stage[m] \in {"launched", "record"} =>
       vmm[pid[m]] # "none"
  /\ chFile \in Pids => vmm[chFile] # "none"

\* Between its check and its cmd.Start a manager is overtaken only by one it met.
CheckHolds ==
  \A m \in Managers, q \in Pids :
    pc[m] = "running" /\ stage[m] \in {"unlink", "spawn"} /\ chFile = q /\ Alive(q) =>
      {pid[m], q} \in met

MeetInv == ManagedInv /\ Acquainted /\ RecordedVmmsRan /\ CheckHolds

LEMMA InitMeet == NodeInit => MeetInv
<1> SUFFICES ASSUME NodeInit PROVE MeetInv
  OBVIOUS
<1>1. \A m \in Managers : pc[m] # "running"
  BY DEF NodeInit, Init
<1>2. chFile \notin Pids
  BY DistinctAssumption DEF NodeInit
<1> QED
  BY <1>1, <1>2, InitManaged DEF MeetInv, Acquainted, RecordedVmmsRan, CheckHolds

\* A step of PidFile: who goes on running keeps stage and pid, who begins is at its check.
LEMMA PidFileMeets ==
  ASSUME MeetInv, PidFileStep(PidFileAction)
  PROVE  MeetInv'
<1> USE DEF MeetInv
<1>1. ManagedInv'
  BY PidFileKeeps
<1>2. /\ PidFileShape /\ UNCHANGED <<vmm, chFile, apiSocket>>
      /\ stage' = [m \in Managers |-> IF pc'[m] = "off" THEN "check" ELSE stage[m]]
      /\ met' = met \cup {{pid'[mn[1]], pid'[mn[2]]} : mn \in RunningTogether'}
  BY StepShape DEF PidFileStep, ManagersEnd, ManagedInv, OwnershipInv
<1>3. Acquainted'
  <2> SUFFICES ASSUME NEW m \in Managers, NEW n \in Managers, m # n,
                      pc'[m] = "running", pc'[n] = "running"
               PROVE  {pid'[m], pid'[n]} \in met'
    BY DEF Acquainted
  <2>1. <<m, n>> \in RunningTogether'
    BY DEF RunningTogether
  <2>2. {pid'[m], pid'[n]} \in {{pid'[mn[1]], pid'[mn[2]]} : mn \in RunningTogether'}
    BY <2>1
  <2> QED
    BY <1>2, <2>2
<1>4. ASSUME NEW m \in Managers, pc'[m] = "running", stage'[m] # "check"
      PROVE  pc[m] = "running" /\ stage'[m] = stage[m] /\ pid'[m] = pid[m]
  BY <1>2, <1>4 DEF PidFileShape, Launched, GoesOn, ManagedInv, ChildInRun, ChildOf, Before, After
<1>5. RecordedVmmsRan'
  BY <1>2, <1>4 DEF RecordedVmmsRan
<1>6. CheckHolds'
  BY <1>2, <1>4 DEF CheckHolds, Alive
<1> QED
  BY <1>1, <1>3, <1>5, <1>6

LEMMA ManagerMeets ==
  ASSUME MeetInv, NEW m \in Managers, VmmStep(m) \/ CreateVm(m) \/ StopVmm(m)
  PROVE  MeetInv'
<1> USE DEF MeetInv, At, Stage
<1>1. ManagedInv'
  BY ManagerKeeps
<1>2. pc[m] = "running" /\ UNCHANGED <<pc, pid, met>> /\ ChildOf(m) /\ pid[m] \in Pids
  BY DEF VmmStep, CheckVmm, UnlinkSocket, SpawnVmm, LockRecord, WriteRecord, ReapVmm, CreateVm,
         StopVmm, vars, mgrVars, ManagedInv, ChildInRun, OwnershipInv, PidAssigned
<1>3. Acquainted'
  BY <1>2 DEF Acquainted
<1> USE DEF ManagedInv, NodeTypeOK
<1>4. CASE CheckVmm(m)
  BY <1>1, <1>2, <1>3, <1>4, DistinctAssumption
  DEF CheckVmm, RecordedVmmsRan, CheckHolds, Alive
<1>5. CASE UnlinkSocket(m)
  BY <1>1, <1>2, <1>3, <1>5, DistinctAssumption
  DEF UnlinkSocket, RecordedVmmsRan, CheckHolds, Alive
<1>6. CASE SpawnVmm(m)
  <2>1. vmm[pid[m]] = "none" /\ UNCHANGED <<chFile, apiSocket>>
    BY <1>2, <1>6 DEF SpawnVmm, ChildOf
  <2>2. RecordedVmmsRan'
    <3>1. \A n \in Managers : pc[n] = "running" => pid[n] \in Pids
      BY DEF OwnershipInv, PidAssigned
    <3>2. \A q \in Pids : vmm[q] # "none" => vmm'[q] # "none"
      BY <1>6 DEF SpawnVmm
    <3>3. stage'[m] \in {"launched", "record"} => vmm'[pid[m]] # "none"
      BY <1>2, <1>6 DEF SpawnVmm
    <3>4. \A n \in Managers \ {m} : stage'[n] = stage[n]
      BY <1>6 DEF SpawnVmm
    <3>5. ASSUME NEW n \in Managers, pc'[n] = "running", stage'[n] \in {"launched", "record"}
          PROVE  vmm'[pid'[n]] # "none"
      <4>1. CASE n = m
        BY <1>2, <3>3, <3>5, <4>1
      <4>2. CASE n # m
        BY <1>2, <3>1, <3>2, <3>4, <3>5, <4>2 DEF RecordedVmmsRan
      <4> QED
        BY <4>1, <4>2
    <3> QED
      BY <2>1, <3>2, <3>5 DEF RecordedVmmsRan
  <2>3. CheckHolds'
    BY <1>2, <1>6, <2>1 DEF SpawnVmm, RecordedVmmsRan, CheckHolds, Alive
  <2> QED
    BY <1>1, <1>3, <2>2, <2>3
<1>7. CASE LockRecord(m)
  BY <1>1, <1>2, <1>3, <1>7, DistinctAssumption
  DEF LockRecord, RecordedVmmsRan, CheckHolds, Alive
<1>8. CASE WriteRecord(m)
  <2>1. RecordedVmmsRan'
    BY <1>2, <1>8 DEF WriteRecord, RecordedVmmsRan
  <2>2. CheckHolds'
    BY <1>2, <1>8 DEF WriteRecord, CheckHolds, Acquainted, Alive
  <2> QED
    BY <1>1, <1>3, <2>1, <2>2
<1>9. CASE ReapVmm(m)
  BY <1>1, <1>2, <1>3, <1>9, DistinctAssumption
  DEF ReapVmm, RecordedVmmsRan, CheckHolds, Alive
<1>10. CASE StopVmm(m) \/ CreateVm(m)
  BY <1>1, <1>2, <1>3, <1>10 DEF StopVmm, CreateVm, RecordedVmmsRan, CheckHolds, Alive
<1> QED
  BY <1>4, <1>5, <1>6, <1>7, <1>8, <1>9, <1>10 DEF VmmStep

LEMMA VmmMeets ==
  ASSUME MeetInv, NEW p \in Pids, BindApi(p) \/ VmmEnds(p)
  PROVE  MeetInv'
<1> USE DEF MeetInv
<1>1. ManagedInv' /\ UNCHANGED <<pc, pid, met, stage, chFile>>
  BY VmmKeeps DEF BindApi, VmmEnds, vars, mgrVars
<1>2. Acquainted'
  BY <1>1 DEF Acquainted
<1>3. \A q \in Pids : (vmm'[q] = "none" <=> vmm[q] = "none") /\ (Alive(q)' => Alive(q))
  BY DEF BindApi, VmmEnds, Alive, ManagedInv, NodeTypeOK
<1>4. RecordedVmmsRan'
  BY <1>1, <1>3 DEF RecordedVmmsRan, ManagedInv, OwnershipInv, PidAssigned
<1>5. CheckHolds'
  BY <1>1, <1>3 DEF CheckHolds
<1> QED
  BY <1>1, <1>2, <1>4, <1>5

LEMMA MeetStep == MeetInv /\ [NodeNext]_allVars => MeetInv'
<1> SUFFICES ASSUME MeetInv, [NodeNext]_allVars PROVE MeetInv'
  OBVIOUS
<1>1. CASE \/ \E m \in Managers :
                PidFileStep(LaunchInTurn(m) \/ ManagerStep(m) \/ Finish(m) \/ Crash(m))
           \/ \E s \in Shutters : PidFileStep(ShutterStep(s))
  <2>1. PidFileStep(PidFileAction)
    BY <1>1 DEF PidFileStep, PidFileAction
  <2> QED
    BY <2>1, PidFileMeets
<1>2. CASE UNCHANGED allVars
  <2>1. UNCHANGED <<pc, pid, stage, vmm, chFile, apiSocket, met>>
    BY <1>2 DEF allVars, vars, mgrVars, nodeVars
  <2>2. ManagedInv'
    BY <1>2, ManagedStep DEF MeetInv
  <2> QED
    BY <2>1, <2>2 DEF MeetInv, Acquainted, RecordedVmmsRan, CheckHolds, Alive
<1> QED
  BY <1>1, <1>2, ManagerMeets, VmmMeets DEF NodeNext

LEMMA MeetInvariant == NodeSpec => []MeetInv
  BY InitMeet, MeetStep, PTL DEF NodeSpec

\* A start launches its VMM beside a live one only if that one has been told to end
\* and is not in the pid file, or if the two managers ran at the same time: the check of the
\* pid file is good enough although it is long over when cmd.Start forks.
THEOREM SpawnSeesEarlierVmms == NodeSpec => SpawnsAlone
<1> DEFINE A == \A p, q \in Pids :
                  p # q /\ vmm[p] = "none" /\ vmm'[p] # "none" /\ Alive(q) =>
                    (told[q] /\ chFile # q) \/ {p, q} \in met
<1>1. MeetInv /\ [NodeNext]_allVars => [A]_allVars
  <2> SUFFICES ASSUME MeetInv, NodeNext, NEW p \in Pids, NEW q \in Pids,
                      p # q, vmm[p] = "none", vmm'[p] # "none", Alive(q)
               PROVE  (told[q] /\ chFile # q) \/ {p, q} \in met
    OBVIOUS
  <2> USE DEF MeetInv, ManagedInv
  <2>1. PICK m \in Managers : SpawnVmm(m) /\ p = pid[m]
    BY
    DEF NodeNext, VmmStep, PidFileStep, CheckVmm, UnlinkSocket, SpawnVmm, LockRecord, WriteRecord,
           ReapVmm, CreateVm, StopVmm, BindApi, VmmEnds, Alive, NodeTypeOK
  <2>2. pc[m] = "running" /\ stage[m] = "spawn"
    BY <2>1 DEF SpawnVmm, At
  <2>3. CASE ~told[q]
    <3>1. PICK n \in Managers : pc[n] = "running" /\ pid[n] = q
      BY <2>3 DEF NoUnmanagedVmm, Runs
    <3> QED
      BY <2>1, <2>2, <3>1 DEF Acquainted
  <2>4. CASE chFile = q
    BY <2>1, <2>2, <2>4 DEF CheckHolds
  <2> QED
    BY <2>3, <2>4
<1> QED
  BY <1>1, MeetInvariant, PTL DEF NodeSpec, SpawnsAlone

----------------------------------------------------------------------------
(* The path of the API socket *)

\* A VMM that listened when a start removed the path has had its one bind: the path
\* does not lead to it again.
OldHidden ==
  \A p, q \in Pids : q \in old[p] => vmm[q] \in {"serving", "dead"} /\ apiSocket # q

PathInv == ManagedInv /\ OldHidden

LEMMA InitPath == NodeInit => PathInv
<1> SUFFICES ASSUME NodeInit PROVE PathInv
  OBVIOUS
<1>1. OldHidden
  BY DEF NodeInit, OldHidden
<1> QED
  BY <1>1, InitManaged DEF PathInv

LEMMA PathStep == PathInv /\ [NodeNext]_allVars => PathInv'
<1> SUFFICES ASSUME PathInv, [NodeNext]_allVars PROVE PathInv'
  OBVIOUS
<1>1. ManagedInv'
  BY ManagedStep DEF PathInv
<1> USE DEF PathInv, OldHidden
<1>2. CASE UNCHANGED <<vmm, apiSocket, old>>
  BY <1>1, <1>2
<1>3. ASSUME NEW m \in Managers, VmmStep(m) \/ CreateVm(m) \/ StopVmm(m) PROVE PathInv'
  <2>1. CASE UnlinkSocket(m)
    <3>1. /\ apiSocket' = NoPid /\ vmm' = vmm
          /\ old' = [old EXCEPT ![pid[m]] = {p \in Pids : vmm[p] = "serving"}]
      BY <2>1 DEF UnlinkSocket, NoteOld
    <3>2. \A p, q \in Pids : q \in old'[p] => q \in old[p] \/ vmm[q] = "serving"
      BY <3>1 DEF ManagedInv, NodeTypeOK
    <3> QED
      BY <1>1, <3>1, <3>2, DistinctAssumption
  <2>2. CASE SpawnVmm(m)
    <3>1. vmm[pid[m]] = "none" /\ UNCHANGED <<old, apiSocket>>
      BY <2>2 DEF SpawnVmm, At, ManagedInv, ChildInRun, ChildOf
    <3>2. \A q \in Pids : vmm'[q] = vmm[q] \/ vmm[q] = "none"
      BY <2>2, <3>1 DEF SpawnVmm, ManagedInv, NodeTypeOK
    <3> QED
      BY <1>1, <3>1, <3>2
  <2>3. CASE CheckVmm(m) \/ LockRecord(m) \/ WriteRecord(m) \/ ReapVmm(m) \/ CreateVm(m) \/ StopVmm(m)
    BY <1>2, <2>3 DEF CheckVmm, LockRecord, WriteRecord, ReapVmm, CreateVm, StopVmm
  <2> QED
    BY <1>3, <2>1, <2>2, <2>3 DEF VmmStep
<1>4. ASSUME NEW p \in Pids, BindApi(p) PROVE PathInv'
  <2>1. vmm[p] = "starting" /\ apiSocket' = p /\ old' = old /\ vmm' = [vmm EXCEPT ![p] = "serving"]
    BY <1>4 DEF BindApi
  <2> QED
    BY <1>1, <2>1 DEF ManagedInv, NodeTypeOK
<1>5. ASSUME NEW p \in Pids, VmmEnds(p) PROVE PathInv'
  <2>1. apiSocket' \in {apiSocket, NoPid} /\ old' = old /\ vmm' = [vmm EXCEPT ![p] = "dead"]
    BY <1>5 DEF VmmEnds
  <2> QED
    BY <1>1, <2>1, DistinctAssumption DEF ManagedInv, NodeTypeOK
<1>6. CASE UNCHANGED allVars
  BY <1>2, <1>6 DEF allVars, nodeVars
<1> QED
  BY <1>2, <1>3, <1>4, <1>5, <1>6 DEF NodeNext, PidFileStep

LEMMA PathInvariant == NodeSpec => []PathInv
  BY InitPath, PathStep, PTL DEF NodeSpec

\* No vm.create of a start reaches a VMM that listened when that start removed the
\* path, however many managers there are and whichever of them are killed when.
THEOREM OldSocketsStayUnused == NodeSpec => OldSocketUnused
<1> DEFINE A == \A p, q \in Pids : creator[q] = NoPid /\ creator'[q] = p => q \notin old[p]
<1>1. PathInv /\ [NodeNext]_allVars => [A]_allVars
  <2> SUFFICES ASSUME PathInv, NodeNext, NEW p \in Pids, NEW q \in Pids,
                      creator[q] = NoPid, creator'[q] = p
               PROVE  q \notin old[p]
    OBVIOUS
  <2> USE DEF PathInv, ManagedInv
  <2>0. p # NoPid
    BY DistinctAssumption
  <2>1. PICK m \in Managers : CreateVm(m) /\ apiSocket = q
    BY <2>0
    DEF NodeNext, VmmStep, PidFileStep, CheckVmm, UnlinkSocket, SpawnVmm, LockRecord, WriteRecord,
        ReapVmm, CreateVm, StopVmm, BindApi, VmmEnds, NodeTypeOK
  <2> QED
    BY <2>1 DEF OldHidden
<1> QED
  BY <1>1, PathInvariant, PTL DEF NodeSpec, OldSocketUnused
============================================================================
