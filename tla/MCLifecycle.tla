------------------------------ MODULE MCLifecycle ------------------------------
(* A small instance: a few daemons, as many lock files as they can have open. *)
EXTENDS LifecycleProperties, TLC

MCSymmetry == Permutations(Pids) \cup Permutations(Inodes)
================================================================================
