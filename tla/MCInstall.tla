-------------------------------- MODULE MCInstall --------------------------------
(* A small instance: two processes, one line of the user's, two releases. *)
EXTENDS InstallProperties
CONSTANTS alias, p1, p2
MCSymmetry == Permutations({p1, p2})
================================================================================
