-------------------------------- MODULE MCShell --------------------------------
(* A small instance: two characters, and answers with one, two or no command,
   some of which do not extend what was typed. *)
EXTENDS ShellProperties

CONSTANTS chA, chB
MCAnswers == {<<>>, <<<<chA, chB>>>>, <<<<chA, chA>>, <<chB>>>>}
================================================================================
