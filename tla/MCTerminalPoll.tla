--------------------------- MODULE MCTerminalPoll ---------------------------
(* Instances of TerminalPoll. *)
EXTENDS TerminalPoll

Session(kind, rawMode, keys, prints, resizes, turns) ==
  [mode |-> kind, raw |-> rawMode, in |-> keys, out |-> prints, sizes |-> resizes,
   moods |-> turns]

\* Sessions with bytes in both directions and a guest that may hold the command, and
\* one with a window that changes.
MCSessions ==
  {Session("terminal", FALSE, 3, 1, 0, {"deaf"}), Session("terminal", FALSE, 1, 2, 0, {"deaf"}),
   Session("pipe", FALSE, 1, 2, 0, {"deaf", "talking"}),
   Session("terminal", TRUE, 0, 1, 2, {})}
MCPipeSessions == {Session("pipe", FALSE, 1, 1, 0, {})}

\* With a terminal, a hang-up of either side ends the command, unless the guest
\* holds it.
TerminalSideClosedEnds ==
  mode = "terminal" /\ (\E d \in Directions : hup[d]) ~> Ended \/ Held
============================================================================
