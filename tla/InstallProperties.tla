--------------------------- MODULE InstallProperties ---------------------------
(***************************************************************************)
(* What init, uninstall and update may never leave behind.                   *)
(***************************************************************************)
EXTENDS Install

(* A file has lines or is missing; scripts and executables are a release's, broken or
   missing; a process is at a place of the command it runs. *)
TypeOK ==
  /\ rc \in Seq(Lines) /\ (tmp = None \/ tmp \in Seq(Lines)) /\ mine \in Seq(Own)
  /\ script \in Releases \cup {None, Broken} /\ config \in BOOLEAN
  /\ data \subseteq {"db", "lock", "log"}
  /\ {exe, old} \subseteq Releases \cup {None, Broken} /\ release \in Releases
  /\ daemon \in Releases \cup {None} /\ downloads \subseteq Procs /\ windows \in BOOLEAN
  /\ job \in [Procs -> DOMAIN First] /\ ver \in [Procs -> Releases]
  /\ text \in [Procs -> Seq(Lines)] /\ at \in [Procs -> {"tmp", "rc", "gone"}]
  /\ told \in [Procs -> Releases \cup {None}] /\ want \in [Procs -> Releases \cup {None}]
  /\ got \in [Procs -> Releases \cup {None, Broken}]
  /\ \A p \in Procs :
       \/ Idle(p)
       \/ pc[p] \in {"read", "open", "write"} /\ job[p] \in {"init", "uninstall"}
       \/ pc[p] \in {"ensure", "script", "config", "daemon", "rename"} /\ job[p] = "init"
       \/ pc[p] \in {"ensure_again", "script_again", "spawn"} /\ job[p] # "uninstall"
       \/ pc[p] \in {"stop", "remove_data", "remove_script", "remove_config"} /\ job[p] = "uninstall"
       \/ pc[p] \in {"latest", "sum", "download", "verify", "replace", "swap", "restart"} /\ job[p] = "update"
  /\ excuses \subseteq {"together", "crowd", "stub", "removing", "edited", "unclosed", "half", "torn"}

(* The user's own lines of .zshrc are there at every moment and after every crash of
   init, in their order.  The code does not promise it when two commands run at
   once, when the user edits between a command's read and its write, when a block
   has lost its end, and while, or if it dies while, uninstall writes. *)
UserLinesSurvive ==
  /\ excuses \cap {"together", "edited", "unclosed", "torn"} = {}
  /\ \A p \in Procs : pc[p] = "write" => job[p] # "uninstall"
  => Only(rc, Own) = mine

(* .zshrc sources the script at most once, even with two inits at once, unless a third
   joins them (or takes the place of one that died while it wrote), or the user edits
   it, or an uninstall rewrites it, meanwhile; and when commands run one at a time it
   never sources a script that is missing, except on the way of an uninstall, which
   may have died on it. *)
SourcesScriptOnce ==
  /\ excuses \cap {"crowd", "stub", "edited", "removing"} = {} =>
       \A i, j \in DOMAIN rc : rc[i] = "source" /\ rc[j] = "source" => i = j
  /\ /\ excuses \cap {"together", "half"} = {}
     /\ \A p \in Procs : job[p] = "uninstall" => Idle(p)
     => (Sourced(rc) => script # None)

(* The executable is at every moment a whole release: on Windows the one that was
   moved aside is, while there is none. *)
ExecutableIsRelease ==
  \/ exe \in Releases
  \/ windows /\ exe = None /\ (old \in Releases \/ "together" \in excuses)

(* A command that ends, after whatever crashed before it, has done what it is for.
   After init there is this release's script and doctor is content, unless the line is
   there but commented out; after uninstall neither the line, script, configuration nor
   database are left; after an update the executable is at least the release that
   was announced, and unless there was nothing to update no daemon runs another
   release.  No download stays. *)
CommandsDeliver ==
  [][\A p \in Procs : ~Idle(p) /\ pc'[p] \in {"done", "failed"} =>
       /\ p \notin downloads'
       /\ "together" \notin excuses /\ pc'[p] = "done" =>
            CASE job[p] = "init" -> script' = ver[p] /\ config' /\ (DoctorContent' \/ "off" \in ToSet(rc'))
              [] job[p] = "uninstall" -> ~Sourced(rc') /\ script' = None /\ ~config' /\ "db" \notin data'
              [] job[p] = "update" -> /\ exe' \in Releases /\ exe' >= told[p]'
                                      /\ pc[p] # "latest" => daemon' \in {None, exe'}
              [] OTHER -> script' = ver[p]]_vars
================================================================================
