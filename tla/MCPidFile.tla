----------------------------- MODULE MCPidFile -----------------------------
(* Small instances of PidFile, for its configurations. *)
EXTENDS PidFile
============================================================================
