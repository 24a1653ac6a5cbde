------------------------------- MODULE MCNormalize -------------------------------
(* A small instance: five wrappers that parse their arguments in different ways, one
   command with subcommands, words of two shapes. *)
EXTENDS NormalizeProperties

CONSTANTS sudo, chroot, nice, env, user, git, src, lib, path, setting, andThen

MCWords == {sudo, chroot, nice, env, Flock, user, DoubleDash, git, src, lib, path, setting, andThen}
           \cup CommandFlags
MCShape == [w \in MCWords |-> IF w = path THEN "PATH" ELSE "STR"]
MCWrappers ==
  LET plain == [flags |-> TRUE, valued |-> {}, short |-> FALSE, env |-> FALSE, dashes |-> TRUE,
                positional |-> 0]
  IN  [w \in {sudo, chroot, nice, env} |->
         IF w = sudo THEN [plain EXCEPT !.valued = {user}, !.env = TRUE]
         ELSE IF w = chroot THEN [plain EXCEPT !.valued = {user}, !.positional = 1]
         ELSE IF w = nice THEN [plain EXCEPT !.short = TRUE]
         ELSE [plain EXCEPT !.flags = FALSE, !.env = TRUE]]
MCFlags == {user, DoubleDash} \cup CommandFlags
MCBeginnings == {<<src, path>>}
================================================================================
