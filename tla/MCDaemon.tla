-------------------------------- MODULE MCDaemon --------------------------------
(* A small instance: one template, recorded under its exact context k1 and, when
   Keys has it, under the more general k2; and a seed that knows k1. *)
EXTENDS DaemonProperties, TLC

CONSTANTS k1, k2, build

MCTemplates  == {build}
MCTemplateOf == [k \in Keys |-> build]
MCRequests   == IF k2 \in Keys THEN {<<k1, k2>>} ELSE {<<k1>>}
MCSeeds      == {[count |-> [k \in Keys |-> IF k = k1 THEN 2 ELSE 0], fresh |-> {}]}
MCSymmetry   == Permutations(Graphs) \cup Permutations(Conns)
================================================================================
