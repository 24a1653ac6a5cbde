--------------------------------- MODULE Install ---------------------------------
(***************************************************************************)
(* The commands that put hunch on a system and take it off again:            *)
(* `hunch init --auto`, `hunch daemon start`, `hunch uninstall` and          *)
(* `hunch update`, run by several processes between and beside which the     *)
(* user edits .zshrc and releases are published.  One action is one access   *)
(* to a file or to the network; a process may die between any two.           *)
(*                                                                          *)
(* A file that is written in place is first truncated.  A .zshrc that does   *)
(* not exist is an empty one.  Starting and stopping the daemon are one step *)
(* each here (module Lifecycle has theirs).                                  *)
(***************************************************************************)
EXTENDS Naturals, Sequences, SequencesExt, Picks

CONSTANTS
  Procs,
  Own,         \* lines of .zshrc that have nothing to do with hunch
  None,        \* no such file, no daemon
  Broken,      \* a script or an executable that is not a whole release's
  MaxRelease, MaxJobs, MaxEdits, MaxCrashes  \* bounds

Releases == 1..MaxRelease
Block == <<"begin", "path", "source", "end">>
Lines == Own \cup {"begin", "path", "source", "end",
                   "off"}   \* a source line that is commented out

ASSUME InstallAssumption ==
  /\ MaxRelease \in Nat \ {0} /\ MaxJobs \in Nat /\ MaxEdits \in Nat /\ MaxCrashes \in Nat
  /\ None # Broken /\ {None, Broken} \cap Releases = {} /\ None \notin Seq(Lines)
  /\ Own \cap {"begin", "path", "source", "end", "off"} = {}

VARIABLES
  rc, tmp,    \* the lines of .zshrc and of .zshrc.tmp
  mine,       \* history: the user's own lines, as the user left them
  script,     \* the release that hunch.zsh in the data directory is from
  config,     \* config.toml exists
  data,       \* files beside the database
  exe, old,   \* the release the executable is, and the one moved aside
  downloads,  \* the running processes that have a download next to the executable
  release,    \* the latest release
  daemon,     \* the release the running daemon is
  job, pc,
  ver,        \* the release each process is
  text,       \* what it will write to .zshrc
  at,         \* the name that the file it has open has now
  told, want, got,  \* the releases it has announced, has the digest of, has downloaded
  windows,    \* the operating system
  excuses,    \* history: what has happened that may cost the user lines
  jobs, edits, crashes

rcs   == <<rc, tmp, mine>>
files == <<script, config, data>>
exes  == <<exe, old, downloads>>
own   == <<text, at>>
fetch == <<told, want, got>>
world == <<release, windows, jobs, edits, crashes>>
vars  == <<rcs, files, exes, daemon, job, pc, ver, own, fetch, excuses, world>>

Idle(p) == pc[p] \in {"off", "done", "failed", "dead"}
Step(p, from, to) == pc[p] = from /\ pc' = [pc EXCEPT ![p] = to]
(* Between reading .zshrc and the last access to it. *)
Editing(p) == pc[p] \in {"open", "write", "rename"}

Init ==
  /\ rc \in {<<u>> : u \in Own} /\ tmp = None /\ mine = rc
  /\ script = None /\ config = FALSE /\ data = {}
  /\ exe = 1 /\ old = None /\ downloads = {} /\ release = 1 /\ daemon = None
  /\ pc = [p \in Procs |-> "off"] /\ job = [p \in Procs |-> "init"] /\ ver = [p \in Procs |-> 1]
  /\ text = [p \in Procs |-> <<>>] /\ at = [p \in Procs |-> "gone"]
  /\ told = [p \in Procs |-> None] /\ want = [p \in Procs |-> None] /\ got = [p \in Procs |-> None]
  /\ windows \in BOOLEAN /\ excuses = {}
  /\ jobs = 0 /\ edits = 0 /\ crashes = 0

First == [init |-> "ensure", start |-> "ensure_again", uninstall |-> "stop", update |-> "latest"]

Start(p, j) ==
  /\ Idle(p) /\ exe \in Releases /\ jobs < MaxJobs /\ jobs' = jobs + 1
  /\ pc' = [pc EXCEPT ![p] = First[j]] /\ job' = [job EXCEPT ![p] = j] /\ ver' = [ver EXCEPT ![p] = exe]
  /\ told' = [told EXCEPT ![p] = None] /\ want' = [want EXCEPT ![p] = None] /\ got' = [got EXCEPT ![p] = None]
  /\ LET others == {q \in Procs : ~Idle(q)} IN
     excuses' = excuses \cup (IF others = {} THEN {} ELSE {"together"})
                        \cup (IF \E q, r \in others : q # r THEN {"crowd"} ELSE {})
                        \cup (IF others # {} /\ (j = "uninstall" \/ \E q \in others : job[q] = "uninstall")
                              THEN {"removing"} ELSE {})
  /\ UNCHANGED <<rcs, files, exes, daemon, own, release, windows, edits, crashes>>

-----------------------------------------------------------------------------
(* EnsureIntegrations, called by init itself and by cmdDaemonStart: the script is
   written, in place, unless it is the one this executable contains.  Plausible bug:
   that is all cmdDaemonStart does. *)
BadAfterEnsure == [ensure |-> "config", ensure_again |-> "read"]
AfterEnsure == [ensure |-> "config", ensure_again |-> "spawn"]

(* Where it is empty. *)
Torn == [ensure |-> "script", ensure_again |-> "script_again"]

ScriptCurrent(p, phase) ==
  /\ Step(p, phase, AfterEnsure[phase]) /\ script = ver[p]
  /\ UNCHANGED <<rcs, files, exes, daemon, job, ver, own, fetch, excuses, world>>

TruncateScript(p, phase) ==
  /\ Step(p, phase, Torn[phase]) /\ script # ver[p]
  /\ script' = Broken
  /\ UNCHANGED <<rcs, config, data, exes, daemon, job, ver, own, fetch, excuses, world>>

(* Lost if the script has been removed since. *)
WriteScript(p, phase) ==
  /\ Step(p, Torn[phase], AfterEnsure[phase])
  /\ script' = IF script = None THEN None ELSE ver[p]
  /\ UNCHANGED <<rcs, config, data, exes, daemon, job, ver, own, fetch, excuses, world>>

(* ensureConfig. *)
EnsureConfig(p) ==
  /\ Step(p, "config", "daemon") /\ config' = TRUE
  /\ UNCHANGED <<rcs, script, data, exes, daemon, job, ver, own, fetch, excuses, world>>

(* ensureDaemonRunning. *)
EnsureDaemon(p) ==
  /\ Step(p, "daemon", IF daemon = None THEN "ensure_again" ELSE "read")
  /\ UNCHANGED <<rcs, files, exes, daemon, job, ver, own, fetch, excuses, world>>

(* cmdDaemonStart runs what the executable now is; a daemon that is there keeps
   its place.  A start that fails is a warning to init and update. *)
Spawn(p) ==
  /\ IF daemon = None /\ exe \in Releases THEN daemon' \in {None, exe} ELSE daemon' = daemon
  /\ Step(p, "spawn", CASE job[p] = "init" -> "read"
                        [] job[p] = "start" /\ daemon' = None -> "failed"
                        [] OTHER -> "done")
  /\ data' = data \cup {"log"} \cup (IF exe \in Releases THEN {"db", "lock"} ELSE {})
  /\ UNCHANGED <<rcs, script, config, exes, job, ver, own, fetch, excuses, world>>

-----------------------------------------------------------------------------
(* .zshrc.  appendToRc looks for the path of the script wherever it is.  Plausible bug:
   for its own block. *)
Sourced(s) == "source" \in ToSet(s)
BadMentions(s) == "begin" \in ToSet(s)
Mentions(s) == ToSet(s) \cap {"source", "off"} # {}

(* hunch doctor is content: the script is there and .zshrc sources it. *)
DoctorContent == script # None /\ Sourced(rc)

(* removeRcLine: blocks and source lines go; without an end a block goes on to the
   end of the file. *)
InBlock(s, i) == \E b \in 1..(i - 1) : s[b] = "begin" /\ \A k \in (b + 1)..(i - 1) : s[k] # "end"
Removed == {"begin", "end", "source"}
Kept(s) == {i \in DOMAIN s : s[i] \notin Removed /\ ~InBlock(s, i)}
Strip(s) == Picked(s, Kept(s))
Unclosed(s) ==
  \E b \in DOMAIN s : s[b] = "begin" /\ \A e \in (b + 1)..Len(s) :
    s[e] = "end" => \E k \in (b + 1)..(e - 1) : s[k] = "begin"
HasHunch(s) == {"begin", "source"} \cap ToSet(s) # {}

(* appendToRc: nothing to do. *)
AlreadySourced(p) ==
  /\ Step(p, "read", "done") /\ job[p] = "init" /\ Mentions(rc)
  /\ UNCHANGED <<rcs, files, exes, daemon, job, ver, own, fetch, excuses, world>>

(* appendToRc: the new content is made from what has been read. *)
AppendBlock(s) == s \o Block

ReadToAppend(p) ==
  /\ Step(p, "read", "open") /\ job[p] = "init" /\ ~Mentions(rc)
  /\ text' = [text EXCEPT ![p] = AppendBlock(rc)]
  /\ UNCHANGED <<rcs, files, exes, daemon, job, ver, at, fetch, excuses, world>>

(* removeRcLine. *)
NothingToRemove(p) ==
  /\ Step(p, "read", "done") /\ job[p] = "uninstall" /\ ~HasHunch(rc)
  /\ UNCHANGED <<rcs, files, exes, daemon, job, ver, own, fetch, excuses, world>>

ReadToStrip(p) ==
  /\ Step(p, "read", "open") /\ job[p] = "uninstall" /\ HasHunch(rc)
  /\ text' = [text EXCEPT ![p] = Strip(rc)]
  /\ excuses' = excuses \cup (IF Unclosed(rc) THEN {"unclosed"} ELSE {})
  /\ UNCHANGED <<rcs, files, exes, daemon, job, ver, at, fetch, world>>

(* os.WriteFile: open and truncate, then write.  init writes to .zshrc.tmp,
   uninstall to .zshrc.  Plausible bug: init writes to .zshrc, too. *)
BadTarget(p) == "rc"
Target(p) == IF job[p] = "init" THEN "tmp" ELSE "rc"

Truncate(p) ==
  /\ Step(p, "open", "write")
  /\ at' = [at EXCEPT ![p] = Target(p)]
  /\ IF Target(p) = "tmp" THEN tmp' = <<>> /\ rc' = rc ELSE rc' = <<>> /\ tmp' = tmp
  /\ UNCHANGED <<mine, files, exes, daemon, job, ver, text, fetch, excuses, world>>

(* Over what another process has written to the same file meanwhile. *)
Over(new, before) == new \o SubSeq(before, Len(new) + 1, Len(before))

Write(p) ==
  /\ Step(p, "write", IF job[p] = "init" THEN "rename" ELSE "done")
  /\ tmp' = IF at[p] = "tmp" THEN Over(text[p], tmp) ELSE tmp
  /\ rc' = IF at[p] = "rc" THEN Over(text[p], rc) ELSE rc
  /\ text' = [text EXCEPT ![p] = <<>>] /\ at' = [at EXCEPT ![p] = "gone"]
  /\ UNCHANGED <<mine, files, exes, daemon, job, ver, fetch, excuses, world>>

(* os.Rename(.zshrc.tmp, .zshrc): who has either open has it open still. *)
Rename(p) ==
  /\ Step(p, "rename", IF tmp = None THEN "failed" ELSE "done")
  /\ IF tmp = None THEN UNCHANGED <<rc, at>>
     ELSE /\ rc' = tmp
          /\ at' = [q \in Procs |-> IF at[q] = "tmp" THEN "rc" ELSE "gone"]
  /\ tmp' = None
  /\ UNCHANGED <<mine, files, exes, daemon, job, ver, text, fetch, excuses, world>>

-----------------------------------------------------------------------------
(* cmdUninstall, up to the removal of the lines. *)
Stop(p) ==
  /\ Step(p, "stop", "remove_data") /\ job[p] = "uninstall" /\ daemon' = None
  /\ UNCHANGED <<rcs, files, exes, job, ver, own, fetch, excuses, world>>

(* The database; the log, like the lock file, is looked for elsewhere. *)
RemoveData(p) ==
  /\ Step(p, "remove_data", "remove_script") /\ data' = data \ {"db"}
  /\ UNCHANGED <<rcs, script, config, exes, daemon, job, ver, own, fetch, excuses, world>>

RemoveScript(p) ==
  /\ Step(p, "remove_script", "remove_config") /\ script' = None
  /\ UNCHANGED <<rcs, config, data, exes, daemon, job, ver, own, fetch, excuses, world>>

RemoveConfig(p) ==
  /\ Step(p, "remove_config", "read") /\ config' = FALSE
  /\ UNCHANGED <<rcs, script, data, exes, daemon, job, ver, own, fetch, excuses, world>>

-----------------------------------------------------------------------------
(* cmdUpdate: three requests, each answered by what is the latest release then. *)
FetchLatestVersion(p) ==
  /\ Step(p, "latest", IF release = ver[p] THEN "done" ELSE "sum")
  /\ told' = [told EXCEPT ![p] = release]
  /\ UNCHANGED <<rcs, files, exes, daemon, job, ver, own, want, got, excuses, world>>

FetchChecksum(p) ==
  /\ Step(p, "sum", "download") /\ want' = [want EXCEPT ![p] = release]
  /\ UNCHANGED <<rcs, files, exes, daemon, job, ver, own, told, got, excuses, world>>

DownloadAsset(p) ==
  /\ Step(p, "download", "verify")
  /\ \E file \in {release, Broken} : got' = [got EXCEPT ![p] = file]
  /\ downloads' = downloads \cup {p}
  /\ UNCHANGED <<rcs, files, exe, old, daemon, job, ver, own, told, want, excuses, world>>

(* verifyChecksum; the download is removed in any case.  Plausible bug: the digest is
   not compared. *)
BadVerified(p) == TRUE
Verified(p) == got[p] = want[p]

Cleaned(p) == downloads \ {p}

VerifyChecksum(p) ==
  /\ Step(p, "verify", IF Verified(p) THEN "replace" ELSE "failed")
  /\ downloads' = IF Verified(p) THEN downloads ELSE Cleaned(p)
  /\ UNCHANGED <<rcs, files, exe, old, daemon, job, ver, own, fetch, excuses, world>>

(* replaceExecutable: a rename, or on Windows two, the first of which moves a
   running executable aside. *)
Replace(p) ==
  /\ Step(p, "replace", "restart") /\ ~windows
  /\ exe' = got[p] /\ downloads' = Cleaned(p)
  /\ UNCHANGED <<rcs, files, old, daemon, job, ver, own, fetch, excuses, world>>

MoveAside(p) ==
  /\ Step(p, "replace", "swap") /\ windows /\ exe # None
  /\ old' = exe /\ exe' = None
  /\ UNCHANGED <<rcs, files, downloads, daemon, job, ver, own, fetch, excuses, world>>

(* An executable moved aside before has been removed, if it is not running. *)
MoveAsideFails(p) ==
  /\ Step(p, "replace", "failed") /\ windows
  /\ old' \in {None, old} /\ downloads' = Cleaned(p)
  /\ UNCHANGED <<rcs, files, exe, daemon, job, ver, own, fetch, excuses, world>>

Swap(p) ==
  /\ Step(p, "swap", "restart")
  /\ exe' = got[p] /\ downloads' = Cleaned(p)
  /\ UNCHANGED <<rcs, files, old, daemon, job, ver, own, fetch, excuses, world>>

(* The second rename fails: the old executable is moved back. *)
Restored == IF old = None THEN exe ELSE old

SwapFails(p) ==
  /\ Step(p, "swap", "failed")
  /\ exe' = Restored /\ old' = None /\ downloads' = Cleaned(p)
  /\ UNCHANGED <<rcs, files, daemon, job, ver, own, fetch, excuses, world>>

(* A request fails, or a file cannot be created or renamed. *)
UpdateFails(p) ==
  /\ \E phase \in {"latest", "sum", "download"} \cup (IF windows THEN {} ELSE {"replace"}) :
       Step(p, phase, "failed")
  /\ downloads' = Cleaned(p)
  /\ UNCHANGED <<rcs, files, exe, old, daemon, job, ver, own, fetch, excuses, world>>

(* restartDaemon: there is no start without a stop.  Plausible bug: there is no
   stop, so the start meets the old daemon. *)
BadStopped == daemon
Stopped == None

Restart(p) ==
  /\ Step(p, "restart", IF daemon = None THEN "done" ELSE "ensure_again")
  /\ daemon' = Stopped
  /\ UNCHANGED <<rcs, files, exes, job, ver, own, fetch, excuses, world>>

-----------------------------------------------------------------------------
(* The surroundings: a release is published; the user adds a line, which init without
   --auto asks for, or changes what hunch has written. *)
Publish ==
  /\ release < MaxRelease /\ release' = release + 1
  /\ UNCHANGED <<rcs, files, exes, daemon, job, pc, ver, own, fetch, excuses, windows, jobs, edits, crashes>>

Edited(s) ==
  /\ rc' = s /\ mine' = Only(s, Own)
  /\ edits < MaxEdits /\ edits' = edits + 1
  /\ excuses' = excuses \cup (IF \E p \in Procs : Editing(p) THEN {"edited"} ELSE {})
  /\ UNCHANGED <<tmp, files, exes, daemon, job, pc, ver, own, fetch, release, windows, jobs, crashes>>

UserAppends == \E u \in Own \cup (IF ToSet(rc) \cap {"source", "off"} # {} \/ script = None THEN {} ELSE {"source"}) :
  Edited(Append(rc, u))
UserComments == \E i \in DOMAIN rc : rc[i] = "source" /\ Edited([rc EXCEPT ![i] = "off"])
UserUncomments == script # None /\ \E i \in DOMAIN rc : rc[i] = "off" /\ Edited([rc EXCEPT ![i] = "source"])
UserDeletes == \E i \in DOMAIN rc : rc[i] \in {"end", "source"} /\ Edited(RemoveAt(rc, i))

(* What a process that died had downloaded stays where it is; it is no longer
   followed. *)
Crash(p) ==
  /\ ~Idle(p) /\ pc' = [pc EXCEPT ![p] = "dead"]
  /\ crashes < MaxCrashes /\ crashes' = crashes + 1
  /\ text' = [text EXCEPT ![p] = <<>>] /\ at' = [at EXCEPT ![p] = "gone"]
  /\ excuses' = excuses \cup (IF job[p] # "uninstall" THEN {} ELSE
                              {"half"} \cup (IF pc[p] = "write" THEN {"torn"} ELSE {}))
                        \cup (IF pc[p] = "write" /\ \E q \in Procs \ {p} : Editing(q) THEN {"stub"} ELSE {})
  /\ downloads' = downloads \ {p}
  /\ UNCHANGED <<rcs, files, exe, old, daemon, job, ver, fetch, release, windows, jobs, edits>>

Next ==
  \/ \E p \in Procs :
       \/ \E j \in DOMAIN First : Start(p, j)
       \/ \E phase \in DOMAIN Torn :
            ScriptCurrent(p, phase) \/ TruncateScript(p, phase) \/ WriteScript(p, phase)
       \/ EnsureConfig(p) \/ EnsureDaemon(p) \/ Spawn(p)
       \/ AlreadySourced(p) \/ ReadToAppend(p) \/ NothingToRemove(p) \/ ReadToStrip(p)
       \/ Truncate(p) \/ Write(p) \/ Rename(p)
       \/ Stop(p) \/ RemoveData(p) \/ RemoveScript(p) \/ RemoveConfig(p)
       \/ FetchLatestVersion(p) \/ FetchChecksum(p) \/ DownloadAsset(p) \/ VerifyChecksum(p)
       \/ Replace(p) \/ MoveAside(p) \/ MoveAsideFails(p) \/ Swap(p) \/ SwapFails(p) \/ UpdateFails(p)
       \/ Restart(p) \/ Crash(p)
  \/ Publish \/ UserAppends \/ UserComments \/ UserUncomments \/ UserDeletes

Spec == Init /\ [][Next]_vars
================================================================================
