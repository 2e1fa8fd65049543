----------------------------- MODULE NodeConfig -----------------------------
(***************************************************************************)
(* From a node's manifest to the vm.create request of a start.             *)
(* Load reads config.yaml, merges the legacy network fields, refuses what  *)
(* it must, fills the defaults and renders the VM's configuration and the  *)
(* one of each virtiofsd.  Start then checks the run directory and who is  *)
(* to run what, probes the host for transparent huge pages (THP), asks for *)
(* the VM and, once, asks again without THP.                               *)
(*                                                                         *)
(* A text value is the sequence of the parts the code joins it from, and   *)
(* <<>> is the empty text; a MAC address is <<vendor half, device half>>.  *)
(***************************************************************************)
EXTENDS Naturals, Sequences, FiniteSets, SequencesExt

CONSTANTS
  Macs,       \* MAC addresses a manifest can give
  KvmMacs,    \* those GenerateKvmMACAddress can make from the clock
  IfNames,    \* interface names a manifest can give
  Bases,      \* basenames of shared directories
  MaxShares   \* bound: directory entries of a manifest

ASSUME NodeConfigAssumption ==
  /\ <<>> \notin Macs \cup KvmMacs \cup IfNames
  /\ MaxShares \in Nat

\* A directory entry is an absolute path or one below the node's directory.
Entries == [abs : BOOLEAN, base : Bases]

Manifests ==
  [backend : {"", "passt", "tap", "bridge"},
   mac : Macs \cup {<<>>}, legacyMac : Macs \cup {<<>>},
   ifName : IfNames \cup {<<>>}, legacyIfName : IfNames \cup {<<>>},
   directory : SeqOf(Entries, MaxShares)]

\* The identities a manager can have: root, a service user, and that user with
\* another group than its own (Group= of the unit).
ManagerIds == {[uid |-> "root", gid |-> "root"], [uid |-> "svc", gid |-> "svc"],
               [uid |-> "svc", gid |-> "kvm"]}

\* What Load finds around the manifest: the node's name, the runas user, who may have
\* a group without a name, the state of the file and the initramfs of the image.
Surroundings ==
  [name : {"safe", "unsafe"}, runAs : {"", "svc", "kvm", "unknown", "groupless"},
   file : {"decoded", "unreadable"}, initramfs : {"file", "dir", "absent", "unreadable"}]

\* What Start finds at the path of the run directory; the modes are 0700, 0750
\* and 0077.
RunDirs == [kind : {"dir", "other", "absent"}, owner : {"root", "svc"}, mode : {448, 488, 63}]

\* A sysfs policy file is the sequence of its bracketed words, or unreadable.
Unreadable == <<"?", "?", "?">>
GlobalFiles == {<<"always">>, <<"madvise">>, <<"never">>, <<>>, Unreadable}
ShmemFiles == {<<"always">>, <<"advise">>, <<"inherit">>, <<"never">>, <<"deny">>,
               <<"always", "never">>, Unreadable}
Hosts == [prctl : {"unavailable", "clear", "set"}, enabled : GlobalFiles, shmem : ShmemFiles]

VARIABLES
  phase,     \* where the start of the node is
  manifest,  \* the manifest being loaded, as a singleton, or {}
  runtime,   \* i.vmcfg, i.virtiofsdcfg and i.netBackend, as a singleton, or {}
  vmm,       \* credentials and capabilities for cloud-hypervisor, the manager's ids, and
             \* the directory their sockets are in, as a singleton, or {}
  host,      \* the host when it was probed, as a singleton, or {}
  thp,       \* memory.thp of the vm.create request under way
  requests,  \* history: memory.thp of the vm.create requests of this start, in order
  ctx,       \* "live", "cancelled" or "parent": which context is done
  err        \* what the last vm.create failed with

vars == <<phase, manifest, runtime, vmm, host, thp, requests, ctx, err>>

----------------------------------------------------------------------------
(* The manifest *)

Merged(field, legacy) == IF field = <<>> THEN legacy ELSE field
Conflict(field, legacy) == field # <<>> /\ legacy # <<>> /\ field # legacy

\* Faulty variant: a legacy interface name is dropped.
NormalizeNetworkForgetful(m) ==
  [backend |-> IF m.backend = "" THEN "passt" ELSE m.backend,
   mac |-> Merged(m.mac, m.legacyMac), ifName |-> m.ifName,
   directory |-> m.directory]

NormalizeNetwork(m) ==
  [backend |-> IF m.backend = "" THEN "passt" ELSE m.backend,
   mac |-> Merged(m.mac, m.legacyMac), ifName |-> Merged(m.ifName, m.legacyIfName),
   directory |-> m.directory]

NetworkRefused(m) ==
  LET n == NormalizeNetwork(m)
  IN  \/ Conflict(m.mac, m.legacyMac)
      \/ Conflict(m.ifName, m.legacyIfName)
      \/ n.backend \notin {"passt", "tap"}
      \/ n.ifName # <<>> /\ n.backend # "tap"

\* Faulty variant: only the same path twice is refused.
DuplicateBasenamesSamePath(m) ==
  \E i, j \in DOMAIN m.directory : i < j /\ m.directory[i] = m.directory[j]

DuplicateBasenames(m) ==
  \E i, j \in DOMAIN m.directory : i < j /\ m.directory[i].base = m.directory[j].base

\* Load returns an error; it has changed nothing by then.
Refused(m, s) ==
  \/ s.name = "unsafe" \/ s.runAs \in {"unknown", "groupless"} \/ s.file = "unreadable"
  \/ NetworkRefused(m) \/ DuplicateBasenames(m)
  \/ s.initramfs = "unreadable"

----------------------------------------------------------------------------
(* The runtime configuration *)

\* The name is made of the device half of the address alone.
GenerateIfName(mac) == <<"vmtap-", mac[2]>>

AppendFileSuffix(template, base) == <<template, base>>

NetConfig(n, kvmMac) ==
  LET tap == n.backend = "tap"
      mac == Merged(n.mac, kvmMac)
  IN  [mac |-> mac,
       tap |-> IF tap THEN Merged(n.ifName, GenerateIfName(mac)) ELSE <<>>,
       vhostSocket |-> IF tap THEN <<>> ELSE <<"passt.sock">>]

FsConfig(n) ==
  [i \in DOMAIN n.directory |->
     [tag |-> n.directory[i].base,
      socket |-> AppendFileSuffix("virtiofs.sock", n.directory[i].base)]]

VirtiofsConfig(n, group) ==
  [i \in DOMAIN n.directory |->
     LET e == n.directory[i]
     IN  [directory |-> IF e.abs THEN <<e.base>> ELSE <<"node", e.base>>,
          socket |-> AppendFileSuffix("virtiofs.sock", e.base),
          pid |-> AppendFileSuffix("virtiofs.pid", e.base),
          group |-> group]]

\* LookupCredentials: the ids of a user, whose primary group has its name here.
Credentials(user) == [uid |-> user, gid |-> user]

Configured(m, s, kvmMac) ==
  LET n == NormalizeNetwork(m)
  IN  [netBackend |-> n.backend,
       net |-> NetConfig(n, kvmMac),
       fs |-> FsConfig(n),
       virtiofsd |-> VirtiofsConfig(n, s.runAs),
       initramfs |-> s.initramfs = "file",
       runAs |-> IF s.runAs = "" THEN {} ELSE {Credentials(s.runAs)},
       shared |-> TRUE]

----------------------------------------------------------------------------
(* The gates of Start *)

\* The mode is compared as a number, not bit by bit.  (The directory always has a
\* name, and a manager with uid 0 is compared with its effective uid, which is 0.)
RunDirRefused(manager, d) == d.kind # "dir" \/ d.owner # manager.uid \/ d.mode > 448

\* Faulty variant: only root is turned down.
PasstIdentityRefusedRootOnly(manager, r) == manager.uid = "root"

PasstIdentityRefused(manager, r) ==
  manager.uid = "root" \/ \E c \in r.runAs : c # manager

\* Who cloud-hypervisor runs as: the runas user, or whoever the manager is.
VmmIdentity(manager, r) == IF r.runAs = {} THEN manager ELSE CHOOSE c \in r.runAs : TRUE

AmbientCaps(r) == IF r.netBackend = "passt" THEN {} ELSE {"net_admin"}

----------------------------------------------------------------------------
(* Transparent huge pages *)

Selected(file) == Len(file) = 1

GlobalTHPEnabled(policy) == policy \in {"always", "madvise"}

ShmemTHPEnabled(policy, global) ==
  \/ policy \in {"always", "within_size", "advise", "force", "madvise"}
  \/ policy = "inherit" /\ GlobalTHPEnabled(global)

\* Faulty variant: the policy for shared memory is not read.
ProbeHostTHPPrivate(shared, h) ==
  h.prctl # "set" /\ Selected(h.enabled) /\ GlobalTHPEnabled(h.enabled[1])

ProbeHostTHP(shared, h) ==
  /\ h.prctl # "set"
  /\ Selected(h.enabled) /\ GlobalTHPEnabled(h.enabled[1])
  /\ shared => Selected(h.shmem) /\ ShmemTHPEnabled(h.shmem[1], h.enabled[1])

----------------------------------------------------------------------------
(* A start of the node *)

Init ==
  /\ phase = "idle" /\ manifest = {} /\ runtime = {} /\ vmm = {} /\ host = {}
  /\ thp = FALSE /\ requests = <<>> /\ ctx = "live" /\ err = "none"

LoadNode ==
  /\ phase = "idle"
  /\ \E m \in Manifests, s \in Surroundings, kvmMac \in KvmMacs :
       /\ manifest' = {m}
       /\ IF Refused(m, s)
          THEN phase' = "refused" /\ UNCHANGED runtime
          ELSE phase' = "loaded" /\ runtime' = {Configured(m, s, kvmMac)}
  /\ UNCHANGED <<vmm, host, thp, requests, ctx, err>>

GatesRefuse(manager, d, r) ==
  RunDirRefused(manager, d) \/ (r.netBackend = "passt" /\ PasstIdentityRefused(manager, r))

\* The manifest is not kept past Load.
Gate ==
  /\ phase = "loaded"
  /\ \E r \in runtime, manager \in ManagerIds, d \in RunDirs :
       \/ /\ GatesRefuse(manager, d, r)
          /\ phase' = "refused" /\ UNCHANGED vmm
       \/ /\ ~GatesRefuse(manager, d, r)
          /\ phase' = "gated"
          /\ vmm' = {[cred |-> VmmIdentity(manager, r), caps |-> AmbientCaps(r),
                       manager |-> manager, run |-> d]}
  /\ manifest' = {}
  /\ UNCHANGED <<runtime, host, thp, requests, ctx, err>>

Probe ==
  /\ phase = "gated"
  /\ \E h \in Hosts, r \in runtime :
       host' = {h} /\ thp' = ProbeHostTHP(r.shared, h)
  /\ phase' = "creating"
  /\ UNCHANGED <<manifest, runtime, vmm, requests, ctx, err>>

\* A signal ends the parent context, the loss of a process that of the start.
Cancel ==
  /\ phase \in {"creating", "failing", "retrying"} /\ ctx = "live"
  /\ ctx' \in {"cancelled", "parent"}
  /\ UNCHANGED <<phase, manifest, runtime, vmm, host, thp, requests, err>>

\* The VMM creates the VM, or refuses: because of THP with a text that is read
\* ("thp") or that readResponseMessage misses ("unread"), or for another reason.
\* A request whose context is done is not answered.
Request(refused) ==
  /\ requests' = Append(requests, thp)
  /\ \/ ctx = "live" /\ phase' = "created" /\ err' = "none"
     \/ ctx = "live" /\ thp /\ phase' = refused /\ err' \in {"thp", "unread"}
     \/ phase' = refused /\ err' = "other"
  /\ UNCHANGED <<manifest, runtime, vmm, host, thp, ctx>>

VmCreate == phase = "creating" /\ Request("failing")

\* Faulty variant: the second request asks for what the first one did.
OnCreateErrorSame ==
  /\ phase = "failing"
  /\ \/ ctx = "parent" /\ phase' = "stopped"
     \/ ctx = "live" /\ thp /\ err = "thp" /\ phase' = "retrying"
     \/ ctx # "parent" /\ ~(ctx = "live" /\ thp /\ err = "thp") /\ phase' = "failed"
  /\ UNCHANGED <<manifest, runtime, vmm, host, thp, requests, ctx, err>>

\* A signal leads to the graceful shutdown, an error about THP to one request
\* without it, any other error to the end of the start.
OnCreateError ==
  /\ phase = "failing"
  /\ \/ ctx = "parent" /\ phase' = "stopped" /\ UNCHANGED thp
     \/ ctx = "live" /\ thp /\ err = "thp" /\ phase' = "retrying" /\ thp' = FALSE
     \/ ctx # "parent" /\ ~(ctx = "live" /\ thp /\ err = "thp") /\ phase' = "failed" /\ UNCHANGED thp
  /\ UNCHANGED <<manifest, runtime, vmm, host, requests, ctx, err>>

\* The second request; its error ends the start, signal or not.
VmCreateRetry == phase = "retrying" /\ Request("failed")

\* The operator starts the node again, with the same or another manifest.
Again ==
  /\ phase \in {"refused", "created", "stopped", "failed"}
  /\ phase' = "idle" /\ manifest' = {} /\ runtime' = {} /\ vmm' = {} /\ host' = {}
  /\ thp' = FALSE /\ requests' = <<>> /\ ctx' = "live" /\ err' = "none"

Next ==
  \/ LoadNode \/ Gate \/ Probe \/ Cancel
  \/ VmCreate \/ OnCreateError \/ VmCreateRetry \/ Again

Spec == Init /\ [][Next]_vars

----------------------------------------------------------------------------
(* Properties *)

\* The variables hold what the program can hold; in particular the VM's network
\* card always has an address.
TypeOK ==
  /\ phase \in {"idle", "refused", "loaded", "gated", "creating", "failing",
                "retrying", "created", "stopped", "failed"}
  /\ manifest \subseteq Manifests /\ Cardinality(manifest) <= 1
  /\ Cardinality(runtime) <= 1
  /\ \A r \in runtime :
       /\ r.netBackend \in {"passt", "tap"}
       /\ r.net.mac \in Macs \cup KvmMacs
       /\ Len(r.fs) <= MaxShares /\ Len(r.virtiofsd) <= MaxShares
       /\ r.runAs \subseteq {Credentials(u) : u \in {"svc", "kvm"}}
  /\ Cardinality(vmm) <= 1
  /\ host \subseteq Hosts /\ Cardinality(host) <= 1
  /\ thp \in BOOLEAN /\ requests \in Seq(BOOLEAN)
  /\ ctx \in {"live", "cancelled", "parent"}
  /\ err \in {"none", "thp", "unread", "other"}

\* What a manifest says of the network is what the VM gets: an accepted manifest
\* has every address and interface name it gives, nested or legacy, in the request;
\* and the card has an address, and a named TAP device or the socket of passt,
\* never both or neither, in agreement with the backend Start goes by to run passt.
NetworkHonoured ==
  \A r \in runtime :
    /\ r.net.mac # <<>>
    /\ (r.net.tap # <<>>) = (r.netBackend = "tap")
    /\ (r.net.vhostSocket # <<>>) = (r.netBackend = "passt")
    /\ \A m \in manifest :
         /\ {m.mac, m.legacyMac} \ {<<>>} \subseteq {r.net.mac}
         /\ {m.ifName, m.legacyIfName} \ {<<>>} \subseteq {r.net.tap}

OneDaemonPerShare(r) ==
  /\ \A i \in DOMAIN r.fs :
       Cardinality({j \in DOMAIN r.virtiofsd : r.virtiofsd[j].socket = r.fs[i].socket}) = 1
  /\ Len(r.fs) = Len(r.virtiofsd)
  /\ \A i, j \in DOMAIN r.virtiofsd :
       i # j => /\ r.virtiofsd[i].pid # r.virtiofsd[j].pid
                /\ r.fs[i].tag # r.fs[j].tag

\* Each share of the VM is served by exactly one virtiofsd, on the socket the VM
\* connects to, and no two virtiofsd share a socket, a pid file or a guest tag,
\* whatever mix of absolute and relative directories the manifest lists.
SharesServed == \A r \in runtime : OneDaemonPerShare(r)

\* With the credentials it is given the VMM can create its API socket in the run
\* directory, in which those of the helpers are, and open a TAP device if it has one.
ReachesNetwork(r, v) ==
  /\ \/ v.cred.uid = "root"
     \/ v.cred.uid = v.run.owner /\ v.run.mode >= 448   \* rwx of the owner
     \/ v.cred.uid # v.run.owner /\ v.run.mode % 8 = 7  \* rwx of the others
  /\ r.net.tap # <<>> => "net_admin" \in v.caps

\* With passt, whose socket is the manager's, the VMM has the manager's uid and gid.
\* In a run directory with mode 0700 the VMM reaches its network exactly when it runs
\* as the manager's user: with TAP a runas user other than the manager passes the gates
\* (docs/operations.md:100-112) and has no access to the run directory.
VmmReachesNetwork ==
  \A r \in runtime, v \in vmm :
    /\ r.netBackend = "passt" => v.cred = v.manager /\ v.caps = {}
    /\ v.run.mode = 448 => (ReachesNetwork(r, v) <=> v.cred.uid = v.manager.uid)

\* What the kernel allows: one policy is in force, and neither file forbids.
THPAllowed(h) ==
  /\ h.prctl # "set"
  /\ \E g, s \in {"always", "madvise", "never", "advise", "inherit", "deny"} :
       /\ h.enabled = <<g>> /\ g # "never"
       /\ h.shmem = <<s>> /\ s \notin {"never", "deny"}

\* THP is asked for only where the host allows it for the shared memory of a VM.  A
\* start asks for it once at most, and asks a second time only to do without it; and
\* one that nobody cancelled does not fail with an error that can be read as being
\* about THP.  (It does fail with one that readResponseMessage misses.)
THPNeverFatal ==
  /\ thp => \A h \in host : THPAllowed(h)
  /\ requests \in {<<>>, <<TRUE>>, <<FALSE>>, <<TRUE, FALSE>>}
  /\ phase = "failed" /\ err = "thp" => ctx # "live"
============================================================================
