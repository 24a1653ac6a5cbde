-------------------------------- MODULE MCReplay --------------------------------
(* A small instance: two commands, a directory in a project, hits at depth 1 and 2. *)
EXTENDS ReplayProperties

CONSTANTS proj, sub

MCAbove == [d \in {proj, sub} |-> IF d = sub THEN <<proj>> ELSE <<>>]
MCTops  == <<1, 2>>
================================================================================
