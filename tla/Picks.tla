---------------------------------- MODULE Picks ----------------------------------
(***************************************************************************)
(* The elements of a sequence that a loop keeps, in their order, by their    *)
(* places.  SelectSeq says the same of a test on the element; this one says  *)
(* it by recursion, which can be reasoned about (module PicksFacts).         *)
(***************************************************************************)
EXTENDS Naturals, Sequences

Picked(s, I) ==
  LET upto[n \in 0..Len(s)] ==
        IF n = 0 THEN <<>> ELSE IF n \in I THEN Append(upto[n - 1], s[n]) ELSE upto[n - 1]
  IN  upto[Len(s)]

Only(s, S) == Picked(s, {i \in DOMAIN s : s[i] \in S})
================================================================================
