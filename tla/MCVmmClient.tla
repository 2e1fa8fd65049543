---------------------------- MODULE MCVmmClient ----------------------------
(* Small instances of VmmClient.  Callers are interchangeable. *)
EXTENDS VmmClient
============================================================================
