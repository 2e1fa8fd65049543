------------------------------ MODULE MCInvoke ------------------------------
(* A small instance of Invoke. *)
EXTENDS Invoke
============================================================================
