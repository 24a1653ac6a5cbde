-------------------------------- MODULE MCRecall --------------------------------
(* A small instance: a project directory and one below it; "ls", which is its own
   template; "cd sub"; and "make a,b", of which a record sees "make a" and "b". *)
EXTENDS RecallProperties

CONSTANTS ls, cdSub, makeAB, makeA, tailPiece, cdPATH, makeSTR, proj, sub

MCRaws == {ls, cdSub, makeAB, makeA, tailPiece}
MCTemplateOf ==
  [r \in MCRaws |-> CASE r \in {makeAB, makeA} -> makeSTR [] r = cdSub -> cdPATH [] OTHER -> r]
MCPieces == [r \in MCRaws |-> IF r = makeAB THEN <<makeA, tailPiece>> ELSE <<r>>]
MCAbove  == [d \in {proj, sub} |-> IF d = sub THEN <<proj>> ELSE <<>>]
MCGoes   == [r \in MCRaws |-> [d \in {proj, sub} |-> IF r = cdSub THEN sub ELSE d]]
MCNames  == [r \in MCRaws |-> IF r = cdSub THEN {sub} ELSE {}]
MCOldHistories == {<<ls, cdSub, ls, cdSub>>}
================================================================================
