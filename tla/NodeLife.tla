------------------------------ MODULE NodeLife ------------------------------
(***************************************************************************)
(* The life of one started node as its operator sees it: parts (child      *)
(* processes and services of the manager) start at most once and may end   *)
(* at any time; the node serves once the manager has created the VM, is    *)
(* then or before being stopped, and is over when no part is left.         *)
(* Hypervisor implements it.                                               *)
(***************************************************************************)
CONSTANTS
  Parts,      \* what a node may consist of
  Services,   \* the parts that start when the node begins to serve
  Guest       \* the part without which it cannot serve

VARIABLES
  phase,      \* "starting", "serving", "stopping" or "ended"
  up,         \* the parts that run
  begun       \* the parts that have ever run

vars == <<phase, up, begun>>

Init == phase = "starting" /\ up = {} /\ begun = {}

Begin(ps) ==
  /\ ps \cap begun = {}
  /\ up' = up \cup ps
  /\ begun' = begun \cup ps

\* A child may come up until the node is over, also while it is being stopped.
Start(p) ==
  /\ phase # "ended"
  /\ Begin({p})
  /\ UNCHANGED phase

Ends(p) ==
  /\ phase # "ended" /\ p \in up
  /\ up' = up \ {p}
  /\ UNCHANGED <<phase, begun>>

Serve ==
  /\ phase = "starting" /\ Guest \in begun
  /\ phase' = "serving"
  /\ Begin(Services)

\* Asked to, after the loss of a part, or after a failure.
Stop ==
  /\ phase \in {"starting", "serving"}
  /\ phase' = "stopping"
  /\ UNCHANGED <<up, begun>>

Over ==
  /\ phase = "stopping" /\ up = {}
  /\ phase' = "ended"
  /\ UNCHANGED <<up, begun>>

Next ==
  \/ \E p \in Parts \ Services : Start(p)
  \/ \E p \in Parts : Ends(p)
  \/ Serve \/ Stop \/ Over

Spec == Init /\ [][Next]_vars
==============================================================================
