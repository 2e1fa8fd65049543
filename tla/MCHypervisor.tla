---------------------------- MODULE MCHypervisor ----------------------------
(* Instances of Hypervisor: the cfg files choose backend, bound and scheduling. *)
EXTENDS Hypervisor
============================================================================
