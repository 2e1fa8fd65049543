-------------------------- MODULE NodeConfigProofs --------------------------
(***************************************************************************)
(* What NodeConfig promises, for every set of addresses, interface names   *)
(* and basenames and every number of shares.  TLC checks the same formulas *)
(* on a small instance.                                                    *)
(***************************************************************************)
EXTENDS NodeConfig, FiniteSetTheorems, SequenceTheorems, TLAPS

----------------------------------------------------------------------------
(* The inductive invariant *)

\* One configuration at a time, always with shared memory, with a runas user other
\* than root if any, and none of the child's credentials before the gates.
OneRuntime ==
  /\ \A r1, r2 \in runtime : r1 = r2
  /\ \A r \in runtime : /\ r.shared = TRUE /\ r.netBackend \in {"passt", "tap"}
                        /\ \A c \in r.runAs : c.uid # "root"
  /\ phase = "idle" => runtime = {}
  /\ phase \in {"idle", "loaded"} => vmm = {}

\* An error about THP is one of a request that asked for THP.  Nothing is asked before
\* the first request; the second follows one with THP and has none.
THPAskedOnce ==
  /\ phase = "failing" /\ err = "thp" => thp
  /\ phase \in {"idle", "loaded", "gated", "creating"} => requests = <<>>
  /\ phase = "failing" => requests = <<thp>>
  /\ phase = "retrying" => requests = <<TRUE>> /\ ~thp
  /\ thp \in BOOLEAN

ConfigInv ==
  /\ OneRuntime /\ THPAskedOnce
  /\ NetworkHonoured /\ SharesServed /\ VmmReachesNetwork /\ THPNeverFatal

----------------------------------------------------------------------------
(* Short sequences *)

LEMMA AppendToOne ==
  ASSUME NEW S, NEW q \in Seq(S), Len(q) = 1, NEW y \in S
  PROVE  Append(q, y) = <<q[1], y>>
<1> DEFINE t == Append(q, y)
<1>1. t \in Seq(S) /\ Len(t) = Len(q) + 1
  BY AppendProperties
<1>2. \A i \in 1..Len(q) : t[i] = q[i]
  BY AppendProperties
<1>3. t[Len(q) + 1] = y
  BY AppendProperties
<1> HIDE DEF t
<1>4. Len(t) = 2 /\ t[1] = q[1] /\ t[2] = y
  BY <1>1, <1>2, <1>3
<1>5. t = <<t[1], t[2]>>
  BY <1>1, <1>4
<1> QED BY <1>4, <1>5 DEF t

LEMMA ShortSequences ==
  ASSUME NEW S, NEW x \in S, NEW y \in S
  PROVE  Append(<<>>, x) = <<x>> /\ Append(<<x>>, y) = <<x, y>>
<1>1. Append(<<>>, x) = <<x>>
  OBVIOUS
<1>2. <<x>> \in Seq(S) /\ Len(<<x>>) = 1 /\ <<x>>[1] = x
  OBVIOUS
<1> QED BY <1>1, <1>2, AppendToOne

LEMMA SequencesOf ==
  ASSUME NEW S
  PROVE  /\ <<>> \in Seq(S)
         /\ \A q \in Seq(S), x \in S : Append(q, x) \in Seq(S)
  OBVIOUS

----------------------------------------------------------------------------
(* What Load makes of an accepted manifest *)

LEMMA NormalizeFields ==
  ASSUME NEW m \in Manifests
  PROVE  LET n == NormalizeNetwork(m)
         IN  /\ n.mac = Merged(m.mac, m.legacyMac)
             /\ n.ifName = Merged(m.ifName, m.legacyIfName)
             /\ n.backend = (IF m.backend = "" THEN "passt" ELSE m.backend)
             /\ n.directory = m.directory
  BY DEF NormalizeNetwork, Manifests

\* An accepted manifest is honoured by the network of its configuration.
LEMMA AcceptedNetwork ==
  ASSUME NEW m \in Manifests, NEW s \in Surroundings, NEW kvmMac \in KvmMacs,
         ~Refused(m, s)
  PROVE  LET r == Configured(m, s, kvmMac)
         IN  /\ r.netBackend \in {"passt", "tap"} /\ r.shared = TRUE
             /\ (r.net.tap # <<>>) = (r.netBackend = "tap")
             /\ (r.net.vhostSocket # <<>>) = (r.netBackend = "passt")
             /\ r.net.mac # <<>>
             /\ {m.mac, m.legacyMac} \ {<<>>} \subseteq {r.net.mac}
             /\ {m.ifName, m.legacyIfName} \ {<<>>} \subseteq {r.net.tap}
<1> DEFINE n == NormalizeNetwork(m)
           r == Configured(m, s, kvmMac)
<1>1. /\ n.mac = Merged(m.mac, m.legacyMac)
      /\ n.ifName = Merged(m.ifName, m.legacyIfName)
      /\ n.backend \in {"passt", "tap"}
      /\ n.ifName # <<>> => n.backend = "tap"
      /\ ~Conflict(m.mac, m.legacyMac) /\ ~Conflict(m.ifName, m.legacyIfName)
  BY NormalizeFields DEF Refused, NetworkRefused
<1>2. r.netBackend = n.backend /\ r.net = NetConfig(n, kvmMac) /\ r.shared = TRUE
  BY DEF Configured
<1>3. kvmMac # <<>>
  BY NodeConfigAssumption
<1> HIDE DEF n, r
<1>4. r.net.mac = Merged(n.mac, kvmMac)
  BY <1>2 DEF NetConfig
<1>5. r.net.mac # <<>> /\ {m.mac, m.legacyMac} \ {<<>>} \subseteq {r.net.mac}
  BY <1>1, <1>3, <1>4 DEF Merged, Conflict
<1>6. CASE n.backend = "tap"
  <2>1. /\ r.net.tap = Merged(n.ifName, GenerateIfName(r.net.mac))
        /\ r.net.vhostSocket = <<>>
    BY <1>2, <1>4, <1>6 DEF NetConfig
  <2>2. GenerateIfName(r.net.mac) # <<>>
    BY DEF GenerateIfName
  <2>3. r.net.tap # <<>> /\ {m.ifName, m.legacyIfName} \ {<<>>} \subseteq {r.net.tap}
    BY <1>1, <2>1, <2>2 DEF Merged, Conflict
  <2> QED BY <1>1, <1>2, <1>5, <1>6, <2>1, <2>3 DEF r
<1>7. CASE n.backend = "passt"
  <2>1. r.net.tap = <<>> /\ r.net.vhostSocket = <<"passt.sock">>
    BY <1>2, <1>7 DEF NetConfig
  <2>2. m.ifName = <<>> /\ m.legacyIfName = <<>>
    BY <1>1, <1>7 DEF Merged
  <2> QED BY <1>1, <1>2, <1>5, <1>7, <2>1, <2>2 DEF r
<1> QED BY <1>1, <1>6, <1>7

\* The runas user is not root.
LEMMA AcceptedRunAs ==
  ASSUME NEW m \in Manifests, NEW s \in Surroundings, NEW kvmMac \in KvmMacs,
         ~Refused(m, s)
  PROVE  \A c \in Configured(m, s, kvmMac).runAs : c.uid # "root"
<1>1. s.runAs \in {"", "svc", "kvm"}
  BY DEF Surroundings, Refused
<1>2. Configured(m, s, kvmMac).runAs = IF s.runAs = "" THEN {} ELSE {Credentials(s.runAs)}
  BY DEF Configured
<1>3. CASE s.runAs = ""
  BY <1>2, <1>3
<1>4. CASE s.runAs # ""
  <2>1. Configured(m, s, kvmMac).runAs = {Credentials(s.runAs)}
    BY <1>2, <1>4
  <2>2. Credentials(s.runAs).uid = s.runAs
    BY DEF Credentials
  <2>3. s.runAs # "root"
    BY <1>1
  <2> QED BY <2>1, <2>2, <2>3
<1> QED BY <1>3, <1>4

\* Shares with distinct basenames have distinct sockets, pid files and tags, and
\* each has its virtiofsd.
LEMMA AcceptedShares ==
  ASSUME NEW m \in Manifests, NEW s \in Surroundings, NEW kvmMac \in KvmMacs,
         ~Refused(m, s)
  PROVE  OneDaemonPerShare(Configured(m, s, kvmMac))
<1> DEFINE d == m.directory
           fs == Configured(m, s, kvmMac).fs
           vd == Configured(m, s, kvmMac).virtiofsd
<1>1. PICK k \in Nat : d \in [1..k -> Entries]
  <2>1. m.directory \in SeqOf(Entries, MaxShares)
    BY DEF Manifests
  <2>2. \E k \in 0..MaxShares : m.directory \in [1..k -> Entries]
    BY <2>1 DEF SeqOf
  <2> QED BY <2>2, NodeConfigAssumption
<1>2. DOMAIN d = 1..k /\ DOMAIN fs = 1..k /\ DOMAIN vd = 1..k
  BY <1>1, NormalizeFields DEF Configured, FsConfig, VirtiofsConfig
<1>3. \A i \in 1..k : /\ fs[i].tag = d[i].base
                      /\ fs[i].socket = <<"virtiofs.sock", d[i].base>>
                      /\ vd[i].socket = <<"virtiofs.sock", d[i].base>>
                      /\ vd[i].pid = <<"virtiofs.pid", d[i].base>>
  BY <1>1, <1>2, NormalizeFields DEF Configured, FsConfig, VirtiofsConfig, AppendFileSuffix
<1>4. \A i, j \in 1..k : i # j => d[i].base # d[j].base
  BY <1>1, <1>2 DEF Refused, DuplicateBasenames
<1> HIDE DEF d, fs, vd
<1>5. ASSUME NEW i \in 1..k
      PROVE  Cardinality({j \in 1..k : vd[j].socket = fs[i].socket}) = 1
  <2>1. {j \in 1..k : vd[j].socket = fs[i].socket} = {i}
    BY <1>3, <1>4
  <2> QED BY <2>1, FS_Singleton
<1>6. Len(fs) = Len(vd)
  BY <1>2 DEF fs, vd, Configured, FsConfig, VirtiofsConfig
<1>7. ASSUME NEW i \in 1..k, NEW j \in 1..k, i # j
      PROVE  vd[i].pid # vd[j].pid /\ fs[i].tag # fs[j].tag
  BY <1>3, <1>4, <1>7
<1> QED BY <1>2, <1>5, <1>6, <1>7 DEF OneDaemonPerShare, fs, vd

\* A host that is probed for shared memory, and agrees, allows it.
LEMMA ProbeIsSound ==
  ASSUME NEW h \in Hosts, ProbeHostTHP(TRUE, h)
  PROVE  THPAllowed(h)
<1>1. h.enabled \in GlobalFiles /\ h.shmem \in ShmemFiles
  BY DEF Hosts
<1>2. /\ h.prctl # "set"
      /\ Len(h.enabled) = 1 /\ h.enabled[1] \in {"always", "madvise"}
      /\ Len(h.shmem) = 1 /\ ShmemTHPEnabled(h.shmem[1], h.enabled[1])
  BY DEF ProbeHostTHP, Selected, GlobalTHPEnabled
<1>3. h.enabled = <<h.enabled[1]>>
  BY <1>1, <1>2 DEF GlobalFiles, Unreadable
<1>4. h.shmem = <<h.shmem[1]>> /\ h.shmem[1] \in {"always", "advise", "inherit"}
  BY <1>1, <1>2 DEF ShmemFiles, Unreadable, ShmemTHPEnabled
<1> QED BY <1>2, <1>3, <1>4 DEF THPAllowed

\* Of a VMM that passes the gates: with passt it is the manager's, without
\* capabilities; and it gets into a private run directory, and at its TAP device,
\* exactly when it runs as the manager's user.
LEMMA GatesAgree ==
  ASSUME NEW manager \in ManagerIds, NEW d \in RunDirs, NEW r,
         r.netBackend \in {"passt", "tap"}, (r.net.tap # <<>>) = (r.netBackend = "tap"),
         \A c \in r.runAs : c.uid # "root",
         ~GatesRefuse(manager, d, r),
         NEW v, v = [cred |-> VmmIdentity(manager, r), caps |-> AmbientCaps(r),
                     manager |-> manager, run |-> d]
  PROVE  /\ r.netBackend = "passt" => v.cred = v.manager /\ v.caps = {}
         /\ v.run.mode = 448 => (ReachesNetwork(r, v) <=> v.cred.uid = v.manager.uid)
<1>1. d.owner = manager.uid
  BY DEF GatesRefuse, RunDirRefused
<1>2. /\ v.cred = VmmIdentity(manager, r) /\ v.caps = AmbientCaps(r)
      /\ v.manager = manager /\ v.run = d
  OBVIOUS
<1>3. v.cred = manager \/ v.cred \in r.runAs
  BY <1>2 DEF VmmIdentity
<1>4. ASSUME r.netBackend = "passt" PROVE v.cred = v.manager /\ v.caps = {}
  <2>1. \A c \in r.runAs : c = manager
    BY <1>4 DEF GatesRefuse, PasstIdentityRefused
  <2> QED BY <1>2, <1>3, <1>4, <2>1 DEF AmbientCaps
<1>5. r.net.tap # <<>> => "net_admin" \in v.caps
  BY <1>2 DEF AmbientCaps
<1>6. v.cred.uid = "root" => v.cred.uid = v.manager.uid
  BY <1>2, <1>3
<1>7. ASSUME v.run.mode = 448
      PROVE  ReachesNetwork(r, v) <=> v.cred.uid = v.manager.uid
  <2>1. v.run.mode >= 448 /\ v.run.mode % 8 # 7
    BY <1>7
  <2> QED BY <1>1, <1>2, <1>5, <1>6, <2>1, Zenon DEF ReachesNetwork
<1> QED BY <1>4, <1>7

----------------------------------------------------------------------------
(* Every action keeps the invariant *)

LEMMA InitConfig == Init => ConfigInv
  BY DEF Init, ConfigInv, OneRuntime, THPAskedOnce, NetworkHonoured, SharesServed,
         VmmReachesNetwork, THPNeverFatal

LEMMA LoadNodeKeeps == ConfigInv /\ LoadNode => ConfigInv'
<1> SUFFICES ASSUME ConfigInv, LoadNode PROVE ConfigInv'
  OBVIOUS
<1>1. PICK m \in Manifests, s \in Surroundings, kvmMac \in KvmMacs :
        /\ manifest' = {m}
        /\ IF Refused(m, s)
           THEN phase' = "refused" /\ UNCHANGED runtime
           ELSE phase' = "loaded" /\ runtime' = {Configured(m, s, kvmMac)}
  BY DEF LoadNode
<1>2. phase = "idle" /\ runtime = {} /\ vmm = {} /\ UNCHANGED <<vmm, host, thp, requests, ctx, err>>
  BY DEF LoadNode, ConfigInv, OneRuntime
<1>3. THPAskedOnce' /\ THPNeverFatal' /\ VmmReachesNetwork'
  BY <1>1, <1>2 DEF ConfigInv, THPAskedOnce, THPNeverFatal, VmmReachesNetwork
<1>4. CASE Refused(m, s)
  BY <1>1, <1>2, <1>3, <1>4 DEF ConfigInv, OneRuntime, NetworkHonoured, SharesServed
<1>5. CASE ~Refused(m, s)
  <2> DEFINE c == Configured(m, s, kvmMac)
  <2>1. runtime' = {c} /\ manifest' = {m} /\ phase' = "loaded" /\ vmm' = {}
    BY <1>1, <1>2, <1>5
  <2>2. /\ c.netBackend \in {"passt", "tap"} /\ c.shared = TRUE
        /\ (c.net.tap # <<>>) = (c.netBackend = "tap")
        /\ (c.net.vhostSocket # <<>>) = (c.netBackend = "passt")
        /\ c.net.mac # <<>>
        /\ {m.mac, m.legacyMac} \ {<<>>} \subseteq {c.net.mac}
        /\ {m.ifName, m.legacyIfName} \ {<<>>} \subseteq {c.net.tap}
    BY <1>5, AcceptedNetwork
  <2>3. OneDaemonPerShare(c)
    BY <1>5, AcceptedShares
  <2> HIDE DEF c
  <2>4. OneRuntime'
    <3>1. \A x \in c.runAs : x.uid # "root"
      BY <1>5, AcceptedRunAs DEF c
    <3> QED BY <2>1, <2>2, <3>1 DEF OneRuntime
  <2>5. NetworkHonoured'
    BY <2>1, <2>2 DEF NetworkHonoured
  <2>6. SharesServed'
    BY <2>1, <2>3 DEF SharesServed
  <2> QED BY <1>3, <2>4, <2>5, <2>6 DEF ConfigInv
<1> QED BY <1>4, <1>5

LEMMA GateKeeps == ConfigInv /\ Gate => ConfigInv'
<1> SUFFICES ASSUME ConfigInv, Gate PROVE ConfigInv'
  OBVIOUS
<1>1. PICK r \in runtime, manager \in ManagerIds, d \in RunDirs :
        \/ GatesRefuse(manager, d, r) /\ phase' = "refused" /\ UNCHANGED vmm
        \/ /\ ~GatesRefuse(manager, d, r) /\ phase' = "gated"
           /\ vmm' = {[cred |-> VmmIdentity(manager, r), caps |-> AmbientCaps(r),
                       manager |-> manager, run |-> d]}
  BY DEF Gate
<1>2. /\ phase = "loaded" /\ vmm = {} /\ manifest' = {}
      /\ UNCHANGED <<runtime, host, thp, requests, ctx, err>>
  BY DEF Gate, ConfigInv, OneRuntime
<1>3. OneRuntime' /\ THPAskedOnce' /\ THPNeverFatal' /\ NetworkHonoured' /\ SharesServed'
  BY <1>1, <1>2 DEF ConfigInv, OneRuntime, THPAskedOnce, THPNeverFatal, NetworkHonoured,
                    SharesServed
<1>4. VmmReachesNetwork'
  <2>1. CASE vmm' = {}
    BY <2>1 DEF VmmReachesNetwork
  <2>2. CASE ~GatesRefuse(manager, d, r)
    <3>1. \A r2 \in runtime' : r2 = r
      BY <1>2 DEF ConfigInv, OneRuntime
    <3>2. /\ r.netBackend \in {"passt", "tap"}
          /\ (r.net.tap # <<>>) = (r.netBackend = "tap")
          /\ \A c \in r.runAs : c.uid # "root"
      BY DEF ConfigInv, OneRuntime, NetworkHonoured
    <3>3. \A v \in vmm' : v = [cred |-> VmmIdentity(manager, r), caps |-> AmbientCaps(r),
                               manager |-> manager, run |-> d]
      BY <1>1, <1>2, <2>2
    <3>4. \A v \in vmm' :
            /\ r.netBackend = "passt" => v.cred = v.manager /\ v.caps = {}
            /\ v.run.mode = 448 => (ReachesNetwork(r, v) <=> v.cred.uid = v.manager.uid)
      BY <2>2, <3>2, <3>3, GatesAgree
    <3> QED BY <3>1, <3>4 DEF VmmReachesNetwork
  <2> QED BY <1>1, <1>2, <2>1, <2>2
<1> QED BY <1>3, <1>4 DEF ConfigInv

LEMMA ProbeKeeps == ConfigInv /\ Probe => ConfigInv'
<1> SUFFICES ASSUME ConfigInv, Probe PROVE ConfigInv'
  OBVIOUS
<1>1. PICK h \in Hosts, r \in runtime : host' = {h} /\ thp' = ProbeHostTHP(r.shared, h)
  BY DEF Probe
<1>2. /\ phase = "gated" /\ phase' = "creating"
      /\ UNCHANGED <<manifest, runtime, vmm, requests, ctx, err>>
  BY DEF Probe
<1>3. thp' \in BOOLEAN
  BY <1>1 DEF ProbeHostTHP
<1>4. thp' => \A g \in host' : THPAllowed(g)
  BY <1>1, ProbeIsSound DEF ConfigInv, OneRuntime
<1>5. phase' # "failing" /\ phase' # "retrying" /\ phase' # "failed"
  BY <1>2
<1>6. THPAskedOnce' /\ THPNeverFatal'
  <2>1. THPAskedOnce'
    BY <1>2, <1>3, <1>5 DEF ConfigInv, THPAskedOnce
  <2>2. THPNeverFatal'
    BY <1>2, <1>4, <1>5 DEF ConfigInv, THPNeverFatal
  <2> QED BY <2>1, <2>2
<1>7. OneRuntime' /\ NetworkHonoured' /\ SharesServed' /\ VmmReachesNetwork'
  BY <1>2 DEF ConfigInv, OneRuntime, NetworkHonoured, SharesServed, VmmReachesNetwork
<1> QED BY <1>6, <1>7 DEF ConfigInv

\* The steps of vm.create change neither the configuration nor the host.
LEMMA CreateKeeps ==
  ConfigInv /\ (Cancel \/ VmCreate \/ OnCreateError \/ VmCreateRetry) => ConfigInv'
<1> SUFFICES ASSUME ConfigInv, Cancel \/ VmCreate \/ OnCreateError \/ VmCreateRetry
             PROVE  ConfigInv'
  OBVIOUS
<1>1. /\ UNCHANGED <<manifest, runtime, vmm, host>>
      /\ phase \notin {"idle", "loaded"} /\ phase' \notin {"idle", "loaded"}
  BY DEF Cancel, VmCreate, OnCreateError, VmCreateRetry, Request
<1>2. OneRuntime' /\ NetworkHonoured' /\ SharesServed' /\ VmmReachesNetwork'
  BY <1>1 DEF ConfigInv, OneRuntime, NetworkHonoured, SharesServed, VmmReachesNetwork
<1>3. THPAskedOnce' /\ THPNeverFatal'
  <2> USE DEF ConfigInv, THPAskedOnce, THPNeverFatal
  <2>1. CASE Cancel
    BY <2>1 DEF Cancel
  <2>2. CASE VmCreate
    <3>1. requests' = <<thp>> /\ thp \in BOOLEAN
      BY <2>2, ShortSequences DEF VmCreate, Request
    <3>2. /\ phase' \in {"created", "failing"} /\ UNCHANGED <<host, thp, ctx>>
          /\ phase' = "failing" /\ err' = "thp" => thp
      BY <2>2 DEF VmCreate, Request
    <3>3. requests' \in {<<TRUE>>, <<FALSE>>}
      BY <3>1
    <3>4. THPNeverFatal'
      BY <3>2, <3>3
    <3> QED BY <3>1, <3>2, <3>4
  <2>3. CASE OnCreateError
    <3>1. CASE ctx = "parent" /\ phase' = "stopped" /\ UNCHANGED thp
      BY <2>3, <3>1 DEF OnCreateError
    <3>2. CASE ctx = "live" /\ thp /\ err = "thp" /\ phase' = "retrying" /\ thp' = FALSE
      BY <2>3, <3>2 DEF OnCreateError
    <3>3. CASE /\ ctx # "parent" /\ ~(ctx = "live" /\ thp /\ err = "thp")
               /\ phase' = "failed" /\ UNCHANGED thp
      <4>1. UNCHANGED <<host, requests, ctx, err>> /\ (err = "thp" => thp)
        BY <2>3 DEF OnCreateError
      <4>2. err' = "thp" => ctx' # "live"
        BY <3>3, <4>1
      <4>3. THPAskedOnce'
        BY <3>3
      <4>4. THPNeverFatal'
        BY <3>3, <4>1, <4>2
      <4> QED BY <4>3, <4>4
    <3> QED BY <2>3, <3>1, <3>2, <3>3 DEF OnCreateError
  <2>4. CASE VmCreateRetry
    <3>1. requests' = Append(requests, thp) /\ requests = <<TRUE>> /\ thp = FALSE
      BY <2>4 DEF VmCreateRetry, Request
    <3>2. requests' = <<TRUE, FALSE>>
      BY <3>1, ShortSequences
    <3>3. thp' = FALSE /\ phase' \in {"created", "failed"} /\ err' # "thp"
      BY <2>4 DEF VmCreateRetry, Request
    <3>4. THPAskedOnce'
      BY <3>3, Zenon
    <3>5. THPNeverFatal'
      BY <3>2, <3>3
    <3> QED BY <3>4, <3>5
  <2> QED BY <2>1, <2>2, <2>3, <2>4
<1> QED BY <1>2, <1>3 DEF ConfigInv

LEMMA ConfigStep == ConfigInv /\ [Next]_vars => ConfigInv'
<1> SUFFICES ASSUME ConfigInv, [Next]_vars PROVE ConfigInv'
  OBVIOUS
<1>1. CASE Again
  BY <1>1 DEF Again, ConfigInv, OneRuntime, THPAskedOnce, NetworkHonoured, SharesServed,
              VmmReachesNetwork, THPNeverFatal
<1>2. CASE UNCHANGED vars
  BY <1>2 DEF vars, ConfigInv, OneRuntime, THPAskedOnce, NetworkHonoured, SharesServed,
              VmmReachesNetwork, THPNeverFatal
<1> QED BY <1>1, <1>2, LoadNodeKeeps, GateKeeps, ProbeKeeps, CreateKeeps DEF Next

LEMMA ConfigInvariant == Spec => []ConfigInv
  BY InitConfig, ConfigStep, PTL DEF Spec

----------------------------------------------------------------------------
(* Types *)

LEMMA AtMostOne ==
  ASSUME NEW x
  PROVE  Cardinality({x}) <= 1 /\ Cardinality({}) <= 1
<1>1. Cardinality({x}) = 1
  BY FS_Singleton
<1>2. Cardinality({}) = 0
  BY FS_EmptySet
<1> QED BY <1>1, <1>2

\* The configuration of an accepted manifest has the type it should.
LEMMA AcceptedTypes ==
  ASSUME NEW m \in Manifests, NEW s \in Surroundings, NEW kvmMac \in KvmMacs,
         ~Refused(m, s)
  PROVE  LET r == Configured(m, s, kvmMac)
         IN  /\ r.netBackend \in {"passt", "tap"}
             /\ r.net.mac \in Macs \cup KvmMacs
             /\ Len(r.fs) <= MaxShares /\ Len(r.virtiofsd) <= MaxShares
             /\ r.runAs \subseteq {Credentials(u) : u \in {"svc", "kvm"}}
<1> DEFINE r == Configured(m, s, kvmMac)
           n == NormalizeNetwork(m)
<1>1. r.netBackend \in {"passt", "tap"}
  BY AcceptedNetwork
<1>2. r.net.mac \in Macs \cup KvmMacs
  <2>1. m.mac \in Macs \cup {<<>>} /\ m.legacyMac \in Macs \cup {<<>>}
    BY DEF Manifests
  <2>2. n.mac \in Macs \cup {<<>>}
    BY <2>1, NormalizeFields DEF Merged
  <2>3. r.net.mac = Merged(n.mac, kvmMac)
    BY DEF Configured, NetConfig
  <2> QED BY <2>2, <2>3 DEF Merged
<1>3. Len(r.fs) <= MaxShares /\ Len(r.virtiofsd) <= MaxShares
  <2>1. m.directory \in SeqOf(Entries, MaxShares)
    BY DEF Manifests
  <2>2. PICK k \in 0..MaxShares : m.directory \in [1..k -> Entries]
    BY <2>1 DEF SeqOf
  <2>3. DOMAIN r.fs = 1..k /\ DOMAIN r.virtiofsd = 1..k
    BY <2>2, NormalizeFields DEF Configured, FsConfig, VirtiofsConfig
  <2>4. Len(r.fs) = k /\ Len(r.virtiofsd) = k
    BY <2>2, <2>3, NodeConfigAssumption DEF Configured, FsConfig, VirtiofsConfig
  <2> QED BY <2>4, NodeConfigAssumption
<1>4. r.runAs \subseteq {Credentials(u) : u \in {"svc", "kvm"}}
  <2>1. s.runAs \in {"", "svc", "kvm"}
    BY DEF Surroundings, Refused
  <2>2. r.runAs = IF s.runAs = "" THEN {} ELSE {Credentials(s.runAs)}
    BY DEF Configured
  <2> QED BY <2>1, <2>2
<1> QED BY <1>1, <1>2, <1>3, <1>4

LEMMA TypeStep == TypeOK /\ [Next]_vars => TypeOK'
<1> SUFFICES ASSUME TypeOK, [Next]_vars PROVE TypeOK'
  OBVIOUS
<1> DEFINE RuntimeOK(r) == /\ r.netBackend \in {"passt", "tap"}
                           /\ r.net.mac \in Macs \cup KvmMacs
                           /\ Len(r.fs) <= MaxShares /\ Len(r.virtiofsd) <= MaxShares
                           /\ r.runAs \subseteq {Credentials(u) : u \in {"svc", "kvm"}}
<1>1. CASE LoadNode
  <2>1. PICK m \in Manifests, s \in Surroundings, kvmMac \in KvmMacs :
          /\ manifest' = {m}
          /\ IF Refused(m, s)
             THEN phase' = "refused" /\ UNCHANGED runtime
             ELSE phase' = "loaded" /\ runtime' = {Configured(m, s, kvmMac)}
    BY <1>1 DEF LoadNode
  <2>2. manifest' \subseteq Manifests /\ Cardinality(manifest') <= 1
    BY <2>1, AtMostOne
  <2>3. phase' \in {"refused", "loaded"}
    BY <2>1
  <2>4. Cardinality(runtime') <= 1 /\ \A r \in runtime' : RuntimeOK(r)
    <3>1. CASE Refused(m, s)
      BY <2>1, <3>1 DEF TypeOK
    <3>2. CASE ~Refused(m, s)
      <4>1. runtime' = {Configured(m, s, kvmMac)}
        BY <2>1, <3>2
      <4>2. RuntimeOK(Configured(m, s, kvmMac))
        BY <3>2, AcceptedTypes
      <4> HIDE DEF RuntimeOK
      <4> QED BY <4>1, <4>2, AtMostOne
    <3> QED BY <3>1, <3>2
  <2> QED BY <1>1, <2>2, <2>3, <2>4 DEF LoadNode, TypeOK
<1>2. CASE Gate
  <2>1. /\ phase' \in {"refused", "gated"} /\ manifest' = {}
        /\ UNCHANGED <<runtime, host, thp, requests, ctx, err>>
        /\ vmm' = vmm \/ \E v : vmm' = {v}
    BY <1>2 DEF Gate
  <2>2. Cardinality(vmm') <= 1 /\ Cardinality(manifest') <= 1
    BY <2>1, AtMostOne DEF TypeOK
  <2> QED BY <2>1, <2>2 DEF TypeOK
<1>3. CASE Probe
  <2>1. /\ phase' = "creating" /\ UNCHANGED <<manifest, runtime, vmm, requests, ctx, err>>
        /\ thp' \in BOOLEAN /\ \E h \in Hosts : host' = {h}
    BY <1>3 DEF Probe, ProbeHostTHP
  <2>2. host' \subseteq Hosts /\ Cardinality(host') <= 1
    BY <2>1, AtMostOne
  <2> QED BY <2>1, <2>2 DEF TypeOK
<1>4. CASE Cancel
  BY <1>4 DEF TypeOK, Cancel
<1>5. CASE VmCreate
  BY <1>5 DEF TypeOK, VmCreate, Request
<1>6. CASE OnCreateError
  BY <1>6 DEF TypeOK, OnCreateError
<1>7. CASE VmCreateRetry
  BY <1>7 DEF TypeOK, VmCreateRetry, Request
<1>8. CASE Again
  BY <1>8, AtMostOne, SequencesOf DEF TypeOK, Again
<1>9. CASE UNCHANGED vars
  BY <1>9 DEF TypeOK, vars
<1> QED BY <1>1, <1>2, <1>3, <1>4, <1>5, <1>6, <1>7, <1>8, <1>9 DEF Next

----------------------------------------------------------------------------
(* Theorems *)

\* The variables keep their types; in particular a VM has a known address, one of
\* two backends, and no more shares than its manifest.
THEOREM TypeCorrect == Spec => []TypeOK
<1>1. Init => TypeOK
  BY AtMostOne, SequencesOf DEF Init, TypeOK
<1> QED BY <1>1, TypeStep, PTL DEF Spec

\* An accepted manifest gets the network it asks for (NormalizeNetwork, Load).
THEOREM NetworkAsAsked == Spec => []NetworkHonoured
<1>1. ConfigInv => NetworkHonoured
  BY DEF ConfigInv
<1> QED BY <1>1, ConfigInvariant, PTL

\* However many directories a manifest shares, each has its own virtiofsd, socket,
\* pid file and tag (ValidateDirectoryBasenames, FsConfig, VirtiofsConfig).
THEOREM EveryShareServed == Spec => []SharesServed
<1>1. ConfigInv => SharesServed
  BY DEF ConfigInv
<1> QED BY <1>1, ConfigInvariant, PTL

\* With passt the VMM that passes the gates of Start has the manager's uid and gid and
\* no capability.  In a run directory with mode 0700 it reaches its API socket and its
\* network exactly when it runs as the manager's user: not with TAP and a runas user
\* other than the manager, which the gates let pass.
THEOREM GatesServeTheVmm == Spec => []VmmReachesNetwork
<1>1. ConfigInv => VmmReachesNetwork
  BY DEF ConfigInv
<1> QED BY <1>1, ConfigInvariant, PTL

\* Transparent huge pages are asked for only where the host allows them, at most once
\* per start, and a second vm.create only does without them; a refusal that can be read
\* as being about them ends no start that nobody cancelled.
THEOREM THPIsOptional == Spec => []THPNeverFatal
<1>1. ConfigInv => THPNeverFatal
  BY DEF ConfigInv
<1> QED BY <1>1, ConfigInvariant, PTL
============================================================================
