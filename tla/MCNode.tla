------------------------------- MODULE MCNode -------------------------------
(* A small instance of Node.  Managers and inodes are interchangeable. *)
EXTENDS Node, TLC

Symmetry == Permutations(Managers) \cup Permutations(Inodes)
============================================================================
