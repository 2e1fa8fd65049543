----------------------------- MODULE ShareKeeper -----------------------------
(***************************************************************************)
(* What the manager relies on from its virtiofsd recoiler: every share has *)
(* at most one helper, a helper that ends is cleaned up before the next    *)
(* one starts, a share is given up only after the cancellation, and the    *)
(* closer reports that nothing is left.  VirtiofsdRecoiler implements it.  *)
(***************************************************************************)
CONSTANT Shares

VARIABLES
  helper,      \* helper[s]: "none", "running", or "remains": ended, but process entry or pid file left
  kept,        \* the shares that are not given up
  cancelled,
  closed       \* what the manager waits for

vars == <<helper, kept, cancelled, closed>>

Init ==
  /\ helper = [s \in Shares |-> "none"]
  /\ kept = Shares
  /\ cancelled = FALSE
  /\ closed = FALSE

Becomes(s, next) == helper' = [helper EXCEPT ![s] = next]

Start(s) ==
  /\ s \in kept /\ helper[s] = "none"
  /\ Becomes(s, "running")
  /\ UNCHANGED <<kept, cancelled, closed>>

Ends(s) ==
  /\ helper[s] = "running"
  /\ Becomes(s, "remains")
  /\ UNCHANGED <<kept, cancelled, closed>>

Clean(s) ==
  /\ helper[s] = "remains"
  /\ Becomes(s, "none")
  /\ UNCHANGED <<kept, cancelled, closed>>

GiveUp(s) ==
  /\ cancelled /\ s \in kept /\ helper[s] = "none"
  /\ kept' = kept \ {s}
  /\ UNCHANGED <<helper, cancelled, closed>>

Cancel ==
  /\ cancelled' = TRUE
  /\ UNCHANGED <<helper, kept, closed>>

Close ==
  /\ kept = {}
  /\ closed' = TRUE
  /\ UNCHANGED <<helper, kept, cancelled>>

Next ==
  \/ \E s \in Shares : Start(s) \/ Ends(s) \/ Clean(s) \/ GiveUp(s)
  \/ Cancel \/ Close

Spec == Init /\ [][Next]_vars
==============================================================================
