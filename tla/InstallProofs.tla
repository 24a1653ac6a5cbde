------------------------------ MODULE InstallProofs ------------------------------
(***************************************************************************)
(* An update, whatever runs beside it, never leaves an executable that is    *)
(* not a whole release; and every process is at a place of the command it    *)
(* runs.  Then what init, uninstall, update and the user make of .zshrc; and *)
(* that a command that ends has done what it is for.                         *)
(*                                                                          *)
(* In parts: the executable; the lines, as appendToRc, removeRcLine, a write *)
(* over another's and the user make them; types; the user's lines; one       *)
(* source line, with two inits at once; downloads and commands that do not   *)
(* overlap; no source line without a script.  Each part has its inductive    *)
(* invariant.                                                                *)
(***************************************************************************)
EXTENDS InstallProperties, PicksFacts

(* The part of the types that executables depend on. *)
ExeTypes ==
  /\ exe \in Releases \cup {None} /\ old \in Releases \cup {None}
  /\ release \in Releases /\ windows \in BOOLEAN
  /\ DOMAIN pc = Procs
  /\ want \in [Procs -> Releases \cup {None}]
  /\ got \in [Procs -> Releases \cup {None, Broken}]

(* Who has passed a request has its answer; who has verified has a release. *)
FetchedOK ==
  \A p \in Procs : /\ pc[p] \in {"download", "verify"} => want[p] \in Releases
                   /\ pc[p] \in {"replace", "swap"} => got[p] \in Releases

(* Until two commands overlap there is one, and the executable is missing only while
   it swaps, or because it has died there; the one moved aside is then a release. *)
Alone == "together" \notin excuses
AloneOK ==
  /\ \A p, q \in Procs : Alone /\ ~Idle(p) /\ ~Idle(q) => p = q
  /\ \A p \in Procs : Alone /\ ~Idle(p) /\ pc[p] # "swap" => exe \in Releases
  /\ \A p \in Procs : Alone /\ pc[p] = "swap" => old \in Releases

(* A missing executable: on Windows, and unless two commands overlap there is the old
   one.  Only Windows swaps. *)
MissingOK ==
  /\ exe = None => windows /\ (Alone => old \in Releases)
  /\ \A p \in Procs : pc[p] = "swap" => windows

IInv == ExeTypes /\ FetchedOK /\ AloneOK /\ MissingOK
-----------------------------------------------------------------------------
LEMMA InitInv == Init => IInv
  <1>. SUFFICES ASSUME Init PROVE IInv
    OBVIOUS
  <1>1. 1 \in Releases
    BY InstallAssumption DEF Releases
  <1>2. ExeTypes
    BY <1>1 DEF Init, ExeTypes
  <1>3. FetchedOK /\ AloneOK
    BY <1>1 DEF Init, FetchedOK, AloneOK, Alone, Idle
  <1>4. MissingOK
    BY <1>1, InstallAssumption DEF Init, MissingOK, Alone
  <1>. QED
    BY <1>2, <1>3, <1>4 DEF IInv

(* A process that goes on, and neither arrives at a place where something is known of
   what it has fetched nor touches an executable. *)
LEMMA Quiet ==
  ASSUME IInv, NEW p \in Procs, NEW to,
         pc' = [pc EXCEPT ![p] = to], ~Idle(p), pc[p] # "swap",
         to \notin {"download", "verify", "replace", "swap"},
         UNCHANGED <<exe, old, windows, want, got>>,
         release' \in Releases, excuses \subseteq excuses'
  PROVE  IInv'
  <1>1. \A q \in Procs : q # p => pc'[q] = pc[q]
    BY DEF IInv, ExeTypes
  <1>2. pc'[p] = to
    BY DEF IInv, ExeTypes
  <1>3. ExeTypes'
    BY DEF IInv, ExeTypes
  <1>4. FetchedOK'
    BY <1>1, <1>2 DEF IInv, FetchedOK
  <1>5. Alone' => Alone
    BY DEF Alone
  <1>6. \A q \in Procs : ~Idle(q)' => ~Idle(q)
    BY <1>1 DEF Idle
  <1>7. AloneOK'
    BY <1>1, <1>2, <1>5, <1>6 DEF IInv, AloneOK
  <1>8. MissingOK'
    BY <1>1, <1>2, <1>5 DEF IInv, MissingOK
  <1>. QED
    BY <1>3, <1>4, <1>7, <1>8 DEF IInv

(* Nothing that the invariant speaks of changes. *)
LEMMA Elsewhere ==
  ASSUME IInv, UNCHANGED <<exe, old, windows, want, got, pc>>,
         release' \in Releases, excuses \subseteq excuses'
  PROVE  IInv'
  <1>1. Alone' => Alone
    BY DEF Alone
  <1>. QED
    BY <1>1 DEF IInv, ExeTypes, FetchedOK, AloneOK, MissingOK, Idle

LEMMA StartKeeps ==
  ASSUME IInv, NEW p \in Procs, NEW j \in DOMAIN First, Start(p, j)
  PROVE  IInv'
  <1>1. First[j] \notin {"download", "verify", "replace", "swap", "off", "done", "failed", "dead"}
    BY DEF First
  <1>2. /\ Idle(p) /\ exe \in Releases /\ pc' = [pc EXCEPT ![p] = First[j]]
        /\ want' = [want EXCEPT ![p] = None] /\ got' = [got EXCEPT ![p] = None]
        /\ UNCHANGED <<exe, old, windows, release>>
        /\ excuses \subseteq excuses'
        /\ Alone' => Alone /\ \A q \in Procs : Idle(q)
    BY DEF Start, exes, Alone
  <1>3. \A q \in Procs : q # p => pc'[q] = pc[q] /\ want'[q] = want[q] /\ got'[q] = got[q]
    BY <1>2 DEF IInv, ExeTypes
  <1>4. pc'[p] = First[j]
    BY <1>2 DEF IInv, ExeTypes
  <1>5. ExeTypes'
    BY <1>1, <1>2 DEF IInv, ExeTypes
  <1>6. FetchedOK'
    BY <1>1, <1>3, <1>4 DEF IInv, FetchedOK
  <1>7. AloneOK'
    <2>1. \A q \in Procs : Alone' /\ q # p => Idle(q)'
      BY <1>2, <1>3 DEF Idle
    <2>. QED
      BY <1>1, <1>2, <1>4, <2>1 DEF AloneOK, Idle
  <1>8. MissingOK'
    BY <1>1, <1>2, <1>3, <1>4, InstallAssumption DEF IInv, MissingOK
  <1>. QED
    BY <1>5, <1>6, <1>7, <1>8 DEF IInv

-----------------------------------------------------------------------------
(* The steps of an update that fetch. *)
LEMMA FetchesKeep ==
  ASSUME IInv, NEW p \in Procs, FetchChecksum(p) \/ DownloadAsset(p) \/ VerifyChecksum(p)
  PROVE  IInv'
  <1>1. /\ UNCHANGED <<exe, old, windows, release, excuses>>
        /\ pc[p] \in {"sum", "download", "verify"}
        /\ pc' = [pc EXCEPT ![p] = pc'[p]] /\ pc'[p] \in {"download", "verify", "replace", "failed"}
        /\ \A q \in Procs : q # p => want'[q] = want[q] /\ got'[q] = got[q]
    BY DEF FetchChecksum, DownloadAsset, VerifyChecksum, Step, IInv, ExeTypes, exes, fetch, world
  <1>2. /\ want' \in [Procs -> Releases \cup {None}]
        /\ got' \in [Procs -> Releases \cup {None, Broken}]
    BY DEF FetchChecksum, DownloadAsset, VerifyChecksum, IInv, ExeTypes, fetch
  <1>3. /\ pc'[p] \in {"download", "verify"} => want'[p] \in Releases
        /\ pc'[p] = "replace" => got'[p] \in Releases
    <2>1. CASE FetchChecksum(p)
      BY <2>1 DEF FetchChecksum, Step, IInv, ExeTypes
    <2>2. CASE DownloadAsset(p)
      BY <2>2 DEF DownloadAsset, Step, IInv, ExeTypes, FetchedOK
    <2>3. CASE VerifyChecksum(p)
      BY <2>3 DEF VerifyChecksum, Verified, Step, IInv, ExeTypes, FetchedOK, fetch
    <2>. QED
      BY <2>1, <2>2, <2>3
  <1>4. \A q \in Procs : q # p => pc'[q] = pc[q]
    BY <1>1 DEF IInv, ExeTypes
  <1>5. ExeTypes'
    BY <1>1, <1>2 DEF IInv, ExeTypes
  <1>6. FetchedOK'
    BY <1>1, <1>3, <1>4 DEF IInv, FetchedOK
  <1>7. AloneOK'
    <2>1. \A q \in Procs : ~Idle(q)' => ~Idle(q)
      BY <1>1, <1>4 DEF Idle
    <2>. QED
      BY <1>1, <1>4, <2>1 DEF IInv, AloneOK, Alone
  <1>8. MissingOK'
    BY <1>1, <1>4 DEF IInv, MissingOK, Alone
  <1>. QED
    BY <1>5, <1>6, <1>7, <1>8 DEF IInv

(* The steps of an update that touch an executable: they end with one, or at "swap". *)
LEMMA ReplacesKeep ==
  ASSUME IInv, NEW p \in Procs,
         Replace(p) \/ MoveAside(p) \/ MoveAsideFails(p) \/ Swap(p) \/ SwapFails(p)
  PROVE  IInv'
  <1>1. /\ pc[p] \in {"replace", "swap"} /\ got[p] \in Releases
        /\ UNCHANGED <<windows, release, excuses, want, got>>
        /\ pc' = [pc EXCEPT ![p] = pc'[p]] /\ pc'[p] \in {"restart", "swap", "failed"}
    BY DEF Replace, MoveAside, MoveAsideFails, Swap, SwapFails, Step, IInv, ExeTypes, FetchedOK, fetch, world
  <1>2. \A q \in Procs : q # p => pc'[q] = pc[q]
    BY <1>1 DEF IInv, ExeTypes
  <1>3. exe' \in Releases \cup {None} /\ old' \in Releases \cup {None}
    <2>1. CASE Replace(p)
      BY <1>1, <2>1 DEF Replace, IInv, ExeTypes
    <2>2. CASE MoveAside(p)
      BY <1>1, <2>2 DEF MoveAside, IInv, ExeTypes
    <2>3. CASE MoveAsideFails(p)
      BY <1>1, <2>3 DEF MoveAsideFails, IInv, ExeTypes
    <2>4. CASE Swap(p)
      BY <1>1, <2>4 DEF Swap, IInv, ExeTypes
    <2>5. CASE SwapFails(p)
      BY <1>1, <2>5 DEF SwapFails, Restored, IInv, ExeTypes
    <2>. QED
      BY <2>1, <2>2, <2>3, <2>4, <2>5
  <1>4. ExeTypes'
    BY <1>1, <1>3 DEF IInv, ExeTypes
  <1>5. FetchedOK'
    BY <1>1, <1>2 DEF IInv, FetchedOK
  <1>6. /\ pc'[p] # "swap" /\ Alone => exe' \in Releases
        /\ pc'[p] = "swap" => windows /\ old' \in Releases
        /\ exe' = None => windows /\ (pc'[p] # "swap" => ~Alone)
    <2>1. CASE Replace(p)
      BY <1>1, <2>1, InstallAssumption DEF Replace, Step, IInv, ExeTypes
    <2>2. CASE MoveAside(p)
      BY <1>1, <2>2 DEF MoveAside, Step, IInv, ExeTypes
    <2>3. CASE MoveAsideFails(p)
      BY <1>1, <2>3, InstallAssumption DEF MoveAsideFails, Step, IInv, ExeTypes, AloneOK, Idle
    <2>4. CASE Swap(p)
      BY <1>1, <2>4, InstallAssumption DEF Swap, Step, IInv, ExeTypes
    <2>5. CASE SwapFails(p)
      BY <1>1, <2>5, InstallAssumption
      DEF SwapFails, Restored, Step, IInv, ExeTypes, AloneOK, MissingOK
    <2>. QED
      BY <2>1, <2>2, <2>3, <2>4, <2>5
  <1>7. \A q \in Procs : Alone /\ ~Idle(q) => q = p
    BY <1>1 DEF IInv, AloneOK, Idle
  <1>8. AloneOK'
    <2>1. \A q \in Procs : q # p => (Idle(q)' <=> Idle(q))
      BY <1>2 DEF Idle
    <2>2. Alone' <=> Alone
      BY <1>1 DEF Alone
    <2>3. \A q \in Procs : Alone /\ q # p => Idle(q)'
      BY <1>7, <2>1
    <2>. QED
      BY <1>6, <2>2, <2>3 DEF AloneOK, Idle
  <1>9. MissingOK'
    BY <1>1, <1>2, <1>6 DEF IInv, MissingOK, Alone
  <1>. QED
    BY <1>4, <1>5, <1>8, <1>9 DEF IInv

LEMMA CrashKeeps ==
  ASSUME IInv, NEW p \in Procs, Crash(p)
  PROVE  IInv'
  <1>1. /\ pc' = [pc EXCEPT ![p] = "dead"] /\ excuses \subseteq excuses'
        /\ UNCHANGED <<exe, old, windows, release, want, got>>
    BY DEF Crash, fetch
  <1>2. \A q \in Procs : q # p => pc'[q] = pc[q]
    BY <1>1 DEF IInv, ExeTypes
  <1>3. pc'[p] = "dead"
    BY <1>1 DEF IInv, ExeTypes
  <1>4. ExeTypes' /\ FetchedOK'
    BY <1>1, <1>2, <1>3 DEF IInv, ExeTypes, FetchedOK
  <1>5. \A q \in Procs : ~Idle(q)' => q # p /\ ~Idle(q)
    BY <1>2, <1>3 DEF Idle
  <1>6. Alone' => Alone
    BY <1>1 DEF Alone
  <1>7. AloneOK'
    BY <1>1, <1>2, <1>3, <1>5, <1>6 DEF IInv, AloneOK
  <1>8. MissingOK'
    BY <1>1, <1>2, <1>3, <1>6 DEF IInv, MissingOK
  <1>. QED
    BY <1>4, <1>7, <1>8 DEF IInv

-----------------------------------------------------------------------------
(* Everything else a command does is quiet. *)
LEMMA ScriptKeeps ==
  ASSUME IInv, NEW p \in Procs, NEW phase \in DOMAIN Torn,
         ScriptCurrent(p, phase) \/ TruncateScript(p, phase) \/ WriteScript(p, phase)
  PROVE  IInv'
  <1>1. phase \in {"ensure", "ensure_again"}
    BY DEF Torn
  <1>2. PICK from, to \in {"ensure", "ensure_again", "script", "script_again", "config", "spawn"} :
          Step(p, from, to)
    BY <1>1 DEF ScriptCurrent, TruncateScript, WriteScript, AfterEnsure, Torn
  <1>3. UNCHANGED <<exe, old, windows, release, want, got, excuses>>
    BY DEF ScriptCurrent, TruncateScript, WriteScript, exes, fetch, world
  <1>. QED
    BY <1>2, <1>3, Quiet DEF Step, Idle, IInv, ExeTypes

LEMMA SpawnKeeps ==
  ASSUME IInv, NEW p \in Procs, EnsureConfig(p) \/ EnsureDaemon(p) \/ Spawn(p) \/ Restart(p)
  PROVE  IInv'
  <1>1. PICK from \in {"config", "daemon", "spawn", "restart"},
             to \in {"daemon", "ensure_again", "read", "failed", "done"} : Step(p, from, to)
    BY DEF EnsureConfig, EnsureDaemon, Spawn, Restart
  <1>2. UNCHANGED <<exe, old, windows, release, want, got, excuses>>
    BY DEF EnsureConfig, EnsureDaemon, Spawn, Restart, exes, fetch, world
  <1>. QED
    BY <1>1, <1>2, Quiet DEF Step, Idle, IInv, ExeTypes

LEMMA RcKeeps ==
  ASSUME IInv, NEW p \in Procs,
         \/ AlreadySourced(p) \/ ReadToAppend(p) \/ NothingToRemove(p) \/ ReadToStrip(p)
         \/ Truncate(p) \/ Write(p) \/ Rename(p)
  PROVE  IInv'
  <1>1. PICK from \in {"read", "open", "write", "rename"},
             to \in {"open", "write", "rename", "failed", "done"} : Step(p, from, to)
    BY DEF AlreadySourced, ReadToAppend, NothingToRemove, ReadToStrip, Truncate, Write, Rename
  <1>2. UNCHANGED <<exe, old, windows, release, want, got>> /\ excuses \subseteq excuses'
    BY DEF AlreadySourced, ReadToAppend, NothingToRemove, ReadToStrip, Truncate, Write, Rename,
           exes, fetch, world
  <1>. QED
    BY <1>1, <1>2, Quiet DEF Step, Idle, IInv, ExeTypes

LEMMA UninstallKeeps ==
  ASSUME IInv, NEW p \in Procs,
         \/ Stop(p) \/ RemoveData(p) \/ RemoveScript(p) \/ RemoveConfig(p)
         \/ FetchLatestVersion(p) \/ UpdateFails(p)
  PROVE  IInv'
  <1>1. PICK from \in {"stop", "remove_data", "remove_script", "remove_config",
                       "latest", "sum", "download", "replace"},
             to \in {"remove_data", "remove_script", "remove_config", "read", "done", "sum", "failed"} :
          Step(p, from, to)
    BY DEF Stop, RemoveData, RemoveScript, RemoveConfig, FetchLatestVersion, UpdateFails
  <1>2. UNCHANGED <<exe, old, windows, release, want, got, excuses>>
    BY DEF Stop, RemoveData, RemoveScript, RemoveConfig, FetchLatestVersion, UpdateFails, exes, fetch, world
  <1>. QED
    BY <1>1, <1>2, Quiet DEF Step, Idle, IInv, ExeTypes

LEMMA WorldKeeps ==
  ASSUME IInv, Publish \/ UserAppends \/ UserComments \/ UserUncomments \/ UserDeletes
  PROVE  IInv'
  <1>1. CASE Publish
    <2>1. release' \in Releases
      BY <1>1, InstallAssumption DEF Publish, IInv, ExeTypes, Releases
    <2>. QED
      BY <1>1, <2>1, Elsewhere DEF Publish, exes, fetch
  <1>2. CASE \E s : Edited(s)
    BY <1>2, Elsewhere DEF Edited, exes, fetch, IInv, ExeTypes
  <1>. QED
    BY <1>1, <1>2 DEF UserAppends, UserComments, UserUncomments, UserDeletes

LEMMA NextKeeps == IInv /\ [Next]_vars => IInv'
  <1>. SUFFICES ASSUME IInv, [Next]_vars PROVE IInv'
    OBVIOUS
  <1>1. CASE UNCHANGED vars
    BY <1>1, Elsewhere DEF vars, exes, fetch, world, IInv, ExeTypes
  <1>2. ASSUME NEW p \in Procs, NEW j \in DOMAIN First, Start(p, j) PROVE IInv'
    BY <1>2, StartKeeps
  <1>3. ASSUME NEW p \in Procs, NEW phase \in DOMAIN Torn,
               ScriptCurrent(p, phase) \/ TruncateScript(p, phase) \/ WriteScript(p, phase)
        PROVE  IInv'
    BY <1>3, ScriptKeeps
  <1>4. ASSUME NEW p \in Procs,
               \/ EnsureConfig(p) \/ EnsureDaemon(p) \/ Spawn(p)
               \/ AlreadySourced(p) \/ ReadToAppend(p) \/ NothingToRemove(p) \/ ReadToStrip(p)
               \/ Truncate(p) \/ Write(p) \/ Rename(p)
               \/ Stop(p) \/ RemoveData(p) \/ RemoveScript(p) \/ RemoveConfig(p)
               \/ FetchLatestVersion(p) \/ UpdateFails(p) \/ Restart(p)
        PROVE  IInv'
    BY <1>4, SpawnKeeps, RcKeeps, UninstallKeeps
  <1>5. ASSUME NEW p \in Procs,
               \/ FetchChecksum(p) \/ DownloadAsset(p) \/ VerifyChecksum(p)
               \/ Replace(p) \/ MoveAside(p) \/ MoveAsideFails(p) \/ Swap(p) \/ SwapFails(p)
               \/ Crash(p)
        PROVE  IInv'
    BY <1>5, FetchesKeep, ReplacesKeep, CrashKeeps
  <1>6. CASE Publish \/ UserAppends \/ UserComments \/ UserUncomments \/ UserDeletes
    BY <1>6, WorldKeeps
  <1>. QED
    BY <1>1, <1>2, <1>3, <1>4, <1>5, <1>6 DEF Next

(* The inductive invariant holds throughout. *)
THEOREM ExecutableInvariant == Spec => []IInv
  BY InitInv, NextKeeps, PTL DEF Spec

(* However many inits, uninstalls and updates run at once, die or fail, and whenever
   releases appear, the executable is a whole release; on Windows, where it is
   missing between two renames, the old one is beside it unless commands overlap. *)
THEOREM ExecutableTheorem == Spec => []ExecutableIsRelease
  <1>1. IInv => ExecutableIsRelease
    BY DEF IInv, ExeTypes, MissingOK, ExecutableIsRelease, Alone
  <1>. QED
    BY <1>1, ExecutableInvariant, PTL
-----------------------------------------------------------------------------
(* The rest of the types, but for the lines of .zshrc; and a process is at a place of the
   command it runs. *)
FileTypes ==
  /\ script \in Releases \cup {None, Broken} /\ config \in BOOLEAN
  /\ data \subseteq {"db", "lock", "log"}
  /\ daemon \in Releases \cup {None} /\ downloads \subseteq Procs
  /\ job \in [Procs -> DOMAIN First] /\ ver \in [Procs -> Releases]
  /\ told \in [Procs -> Releases \cup {None}]
  /\ excuses \subseteq {"together", "crowd", "stub", "removing", "edited", "unclosed", "half", "torn"}

AtPlace(p) ==
  \/ Idle(p)
  \/ pc[p] \in {"read", "open", "write"} /\ job[p] \in {"init", "uninstall"}
  \/ pc[p] \in {"ensure", "script", "config", "daemon", "rename"} /\ job[p] = "init"
  \/ pc[p] \in {"ensure_again", "script_again", "spawn"} /\ job[p] # "uninstall"
  \/ pc[p] \in {"stop", "remove_data", "remove_script", "remove_config"} /\ job[p] = "uninstall"
  \/ pc[p] \in {"latest", "sum", "download", "verify", "replace", "swap", "restart"} /\ job[p] = "update"

Placed == FileTypes /\ \A p \in Procs : AtPlace(p)

LEMMA InitPlaced == Init => Placed
<1> SUFFICES ASSUME Init PROVE Placed
  OBVIOUS
<1>1. 1 \in Releases
  BY InstallAssumption DEF Releases
<1>2. job \in [Procs -> DOMAIN First]
  BY DEF Init, First
<1>3. ver \in [Procs -> Releases] /\ told \in [Procs -> Releases \cup {None}]
  BY <1>1 DEF Init
<1>4. FileTypes
  BY <1>1, <1>2, <1>3 DEF Init, FileTypes
<1>5. \A p \in Procs : AtPlace(p)
  BY DEF Init, AtPlace, Idle
<1> QED
  BY <1>4, <1>5 DEF Placed

LEMMA StartPlaced ==
  ASSUME IInv, Placed, NEW p \in Procs, NEW j \in DOMAIN First, Start(p, j) PROVE Placed'
<1>1. j \in {"init", "start", "uninstall", "update"}
  BY DEF First
<1>2. excuses' \subseteq excuses \cup {"together", "crowd", "removing"}
  BY DEF Start
<1>3. /\ pc' = [pc EXCEPT ![p] = First[j]] /\ job' = [job EXCEPT ![p] = j]
      /\ ver' = [ver EXCEPT ![p] = exe] /\ exe \in Releases /\ told' = [told EXCEPT ![p] = None]
      /\ UNCHANGED <<script, config, data, daemon, downloads>>
  BY DEF Start, files, exes
<1>4. FileTypes'
  BY <1>1, <1>2, <1>3 DEF Placed, FileTypes
<1>5. \A q \in Procs : AtPlace(q)'
  BY <1>1, <1>3 DEF Placed, FileTypes, AtPlace, Idle, First, IInv, ExeTypes
<1> QED
  BY <1>4, <1>5 DEF Placed

LEMMA ScriptPlaced ==
  ASSUME IInv, Placed, NEW p \in Procs, NEW phase \in DOMAIN Torn,
         ScriptCurrent(p, phase) \/ TruncateScript(p, phase) \/ WriteScript(p, phase)
  PROVE  Placed'
<1>1. phase \in {"ensure", "ensure_again"}
  BY DEF Torn
<1>2. CASE ScriptCurrent(p, phase)
  BY <1>1, <1>2 DEF ScriptCurrent, AfterEnsure, Step, Placed, FileTypes, AtPlace, Idle, IInv, ExeTypes, files, exes, fetch
<1>3. CASE TruncateScript(p, phase)
  BY <1>1, <1>3 DEF TruncateScript, Torn, Step, Placed, FileTypes, AtPlace, Idle, IInv, ExeTypes, exes, fetch
<1>4. CASE WriteScript(p, phase)
  BY <1>1, <1>4 DEF WriteScript, AfterEnsure, Torn, Step, Placed, FileTypes, AtPlace, Idle, IInv, ExeTypes, exes, fetch
<1> QED
  BY <1>2, <1>3, <1>4

LEMMA CommandsPlaced ==
  ASSUME IInv, Placed, NEW p \in Procs,
         \/ EnsureConfig(p) \/ EnsureDaemon(p) \/ Spawn(p) \/ AlreadySourced(p) \/ ReadToAppend(p)
         \/ NothingToRemove(p) \/ ReadToStrip(p) \/ Truncate(p) \/ Write(p) \/ Rename(p)
         \/ Stop(p) \/ RemoveData(p) \/ RemoveScript(p) \/ RemoveConfig(p)
  PROVE  Placed'
<1> USE DEF Placed, FileTypes, AtPlace, Step, Idle, IInv, ExeTypes, files, exes, fetch
<1>1. CASE EnsureConfig(p)
  BY <1>1 DEF EnsureConfig
<1>2. CASE EnsureDaemon(p)
  BY <1>2 DEF EnsureDaemon
<1>3. CASE Spawn(p)
  BY <1>3 DEF Spawn
<1>4. CASE AlreadySourced(p)
  BY <1>4 DEF AlreadySourced
<1>5. CASE ReadToAppend(p)
  BY <1>5 DEF ReadToAppend
<1>6. CASE NothingToRemove(p)
  BY <1>6 DEF NothingToRemove
<1>7. CASE ReadToStrip(p)
  BY <1>7 DEF ReadToStrip
<1>8. CASE Truncate(p)
  BY <1>8 DEF Truncate
<1>9. CASE Write(p)
  BY <1>9 DEF Write
<1>10. CASE Rename(p)
  BY <1>10 DEF Rename
<1>11. CASE Stop(p)
  BY <1>11 DEF Stop
<1>12. CASE RemoveData(p)
  BY <1>12 DEF RemoveData
<1>13. CASE RemoveScript(p)
  BY <1>13 DEF RemoveScript
<1>14. CASE RemoveConfig(p)
  BY <1>14 DEF RemoveConfig
<1> HIDE DEF Placed
<1> QED
  BY <1>1, <1>2, <1>3, <1>4, <1>5, <1>6, <1>7, <1>8, <1>9, <1>10, <1>11, <1>12, <1>13, <1>14

LEMMA UpdatesPlaced ==
  ASSUME IInv, Placed, NEW p \in Procs,
         \/ FetchLatestVersion(p) \/ FetchChecksum(p) \/ DownloadAsset(p) \/ VerifyChecksum(p) \/ Replace(p)
         \/ MoveAside(p) \/ MoveAsideFails(p) \/ Swap(p) \/ SwapFails(p) \/ UpdateFails(p)
         \/ Restart(p) \/ Crash(p)
  PROVE  Placed'
<1> USE DEF Placed, FileTypes, AtPlace, Step, Idle, IInv, ExeTypes, files, exes, fetch, Cleaned
<1>1. CASE FetchLatestVersion(p)
  BY <1>1 DEF FetchLatestVersion
<1>2. CASE FetchChecksum(p)
  BY <1>2 DEF FetchChecksum
<1>3. CASE DownloadAsset(p)
  BY <1>3 DEF DownloadAsset
<1>4. CASE VerifyChecksum(p)
  BY <1>4 DEF VerifyChecksum, Verified
<1>5. CASE Replace(p)
  BY <1>5 DEF Replace
<1>6. CASE MoveAside(p)
  BY <1>6 DEF MoveAside
<1>7. CASE MoveAsideFails(p)
  BY <1>7 DEF MoveAsideFails
<1>8. CASE Swap(p)
  BY <1>8 DEF Swap
<1>9. CASE SwapFails(p)
  BY <1>9 DEF SwapFails
<1>10. CASE UpdateFails(p)
  BY <1>10 DEF UpdateFails
<1>11. CASE Restart(p)
  BY <1>11 DEF Restart, Stopped
<1>12. CASE Crash(p)
  BY <1>12 DEF Crash
<1> HIDE DEF Placed
<1> QED
  BY <1>1, <1>2, <1>3, <1>4, <1>5, <1>6, <1>7, <1>8, <1>9, <1>10, <1>11, <1>12

LEMMA WorldPlaced ==
  ASSUME IInv, Placed, Publish \/ UserAppends \/ UserComments \/ UserUncomments \/ UserDeletes
  PROVE  Placed'
<1>1. /\ UNCHANGED <<files, downloads, daemon, job, pc, ver, told>>
      /\ excuses' \subseteq excuses \cup {"edited"}
  BY DEF Publish, UserAppends, UserComments, UserUncomments, UserDeletes, Edited, exes, fetch
<1> QED
  BY <1>1 DEF Placed, FileTypes, AtPlace, Idle, files

LEMMA NextPlaced == IInv /\ Placed /\ [Next]_vars => Placed'
<1> SUFFICES ASSUME IInv, Placed, [Next]_vars PROVE Placed'
  OBVIOUS
<1>1. CASE UNCHANGED vars
  BY <1>1 DEF vars, files, exes, fetch, Placed, FileTypes, AtPlace, Idle
<1>2. CASE Next
  BY <1>2, StartPlaced, ScriptPlaced, CommandsPlaced, UpdatesPlaced, WorldPlaced DEF Next
<1> QED
  BY <1>1, <1>2

(* Scripts, configuration, data and processes are of their types throughout. *)
THEOREM PlacedInvariant == Spec => []Placed
  BY InitPlaced, NextPlaced, ExecutableInvariant, PTL DEF Spec

-----------------------------------------------------------------------------

(* A line that sources the script, or did. *)
Marks == {"source", "off"}

(* No line of the user's stands in a block. *)
Outside(s) ==
  \A i, e \in 1..Len(s) : i < e /\ s[i] \in Own /\ s[e] = "end" => \E b \in i..e : s[b] = "begin"

LEMMA ToSetIs ==
  ASSUME NEW S, NEW s \in Seq(S), NEW x PROVE x \in ToSet(s) <=> \E i \in 1..Len(s) : s[i] = x
  BY DEF ToSet

(* What is written over a file: all of it, and then what the file has beyond it. *)
LEMMA OverIs ==
  ASSUME NEW S, NEW n \in Seq(S), NEW b \in Seq(S)
  PROVE  /\ Over(n, b) \in Seq(S)
         /\ \A x : x \in ToSet(n) => x \in ToSet(Over(n, b))
         /\ \A x : x \in ToSet(Over(n, b)) => x \in ToSet(n) \/ x \in ToSet(b)
<1> DEFINE r == SubSeq(b, Len(n) + 1, Len(b))
<1>1. Len(n) \in Nat /\ Len(b) \in Nat OBVIOUS
<1>2. /\ r \in Seq(S) /\ Len(r) \in Nat
      /\ \A j \in 1..Len(r) : Len(n) + j \in 1..Len(b) /\ r[j] = b[Len(n) + j]
  <2>1. \A i \in (Len(n) + 1)..Len(b) : b[i] \in S BY <1>1
  <2>2. /\ r \in Seq(S) /\ Len(r) = IF Len(n) + 1 <= Len(b) THEN Len(b) - (Len(n) + 1) + 1 ELSE 0
        /\ \A i \in 1..(Len(b) - (Len(n) + 1) + 1) : r[i] = b[(Len(n) + 1) + i - 1]
    BY <1>1, <2>1, SubSeqProperties
  <2> HIDE DEF r
  <2>3. ASSUME NEW j \in 1..Len(r) PROVE Len(n) + j \in 1..Len(b) /\ r[j] = b[Len(n) + j]
    <3>1. j \in 1..(Len(b) - (Len(n) + 1) + 1) BY <1>1, <2>2
    <3>2. (Len(n) + 1) + j - 1 = Len(n) + j BY <1>1
    <3>3. Len(n) + j \in 1..Len(b) BY <1>1, <3>1
    <3> QED BY <2>2, <3>1, <3>2, <3>3
  <2> QED BY <2>2, <2>3
<1>3. Over(n, b) = n \o r BY DEF Over
<1> HIDE DEF r
<1> DEFINE o == n \o r
<1>4. /\ o \in Seq(S) /\ Len(o) = Len(n) + Len(r)
      /\ \A i \in 1..(Len(n) + Len(r)) : o[i] = IF i <= Len(n) THEN n[i] ELSE r[i - Len(n)]
  BY <1>2, ConcatProperties
<1> HIDE DEF o
<1>5. \A x : x \in ToSet(n) => x \in ToSet(o)
  <2>0. \A x : (x \in ToSet(n) <=> \E i \in 1..Len(n) : n[i] = x) /\ (x \in ToSet(o) <=> \E j \in 1..Len(o) : o[j] = x)
    BY <1>4, ToSetIs, Zenon
  <2> SUFFICES ASSUME NEW i \in 1..Len(n) PROVE \E j \in 1..Len(o) : o[j] = n[i]
    BY <2>0, Zenon
  <2>1. i \in 1..(Len(n) + Len(r)) /\ i <= Len(n) BY <1>1, <1>2
  <2> QED BY <1>4, <2>1
<1>6. \A x : x \in ToSet(o) => x \in ToSet(n) \/ x \in ToSet(b)
  <2> SUFFICES ASSUME NEW x, x \in ToSet(o)
               PROVE  (\E j \in 1..Len(n) : n[j] = x) \/ (\E j \in 1..Len(b) : b[j] = x)
    BY ToSetIs
  <2>0. PICK i \in 1..Len(o) : o[i] = x BY <1>4, ToSetIs
  <2>1. CASE i <= Len(n)
    <3>1. i \in 1..Len(n) /\ i \in 1..(Len(n) + Len(r)) BY <1>1, <1>2, <2>1
    <3>2. n[i] = x BY <1>4, <2>0, <2>1, <3>1
    <3> QED BY <3>1, <3>2
  <2>2. CASE i > Len(n)
    <3>1. i - Len(n) \in 1..Len(r) /\ i \in 1..(Len(n) + Len(r)) BY <1>1, <1>2, <1>4, <2>2
    <3>2. o[i] = r[i - Len(n)] BY <1>1, <1>4, <2>2, <3>1
    <3>3. Len(n) + (i - Len(n)) = i BY <1>1
    <3>4. Len(n) + (i - Len(n)) \in 1..Len(b) /\ b[i] = x BY <1>2, <2>0, <3>1, <3>2, <3>3
    <3> QED BY <3>3, <3>4
  <2>3. i <= Len(n) \/ i > Len(n) BY <1>1, <1>4
  <2> QED BY <2>0, <2>1, <2>2, <2>3
<1> QED BY <1>3, <1>4, <1>5, <1>6 DEF o

LEMMA OverAlone ==
  ASSUME NEW S, NEW n \in Seq(S), NEW b \in {<<>>, n} PROVE Over(n, b) = n
<1>1. Len(n) \in Nat /\ Len(b) \in Nat /\ Len(b) < Len(n) + 1
  <2>1. Len(<<>>) = 0 /\ Len(n) \in Nat BY EmptySeq
  <2> QED BY <2>1
<1>2. SubSeq(b, Len(n) + 1, Len(b)) = <<>> BY <1>1, SubSeqEmpty
<1> QED BY <1>2, ConcatEmptySeq DEF Over

(* The block sources the script, once, and stands behind the user's lines. *)
LEMMA BlockIs ==
  /\ Block \in Seq(Lines) /\ Len(Block) = 4
  /\ Block[1] = "begin" /\ Block[2] = "path" /\ Block[3] = "source" /\ Block[4] = "end"
  BY DEF Block, Lines

LEMMA AppendedIs ==
  ASSUME NEW s \in Seq(Lines)
  PROVE  /\ AppendBlock(s) \in Seq(Lines) /\ Sourced(AppendBlock(s)) /\ Mentions(AppendBlock(s))
         /\ ~Mentions(s) => Once(AppendBlock(s), Marks)
         /\ Outside(s) => Outside(AppendBlock(s))
         /\ Only(AppendBlock(s), Own) = Only(s, Own)
<1> DEFINE a == AppendBlock(s)  n == Len(s)
<1>1. n \in Nat /\ a = s \o Block BY DEF AppendBlock
<1>2. /\ a \in Seq(Lines) /\ Len(a) = n + 4
      /\ \A i \in 1..n : a[i] = s[i]
      /\ a[n + 1] = "begin" /\ a[n + 2] = "path" /\ a[n + 3] = "source" /\ a[n + 4] = "end"
  <2>1. /\ s \o Block \in Seq(Lines) /\ Len(s \o Block) = Len(s) + Len(Block)
        /\ \A i \in 1..(Len(s) + Len(Block)) :
             (s \o Block)[i] = IF i <= Len(s) THEN s[i] ELSE Block[i - Len(s)]
    BY BlockIs, ConcatProperties
  <2> HIDE DEF a
  <2>2. \A k \in 1..4 : n + k \in 1..(n + 4) /\ ~(n + k <= n) /\ (n + k) - n = k BY <1>1
  <2>3. \A k \in 1..4 : a[n + k] = Block[k]
    <3> HIDE DEF n
    <3> QED BY <1>1, <2>1, <2>2, BlockIs DEF n
  <2> QED BY <1>1, <2>1, <2>3, BlockIs
<1> HIDE DEF a, n
<1>0. \A i \in 1..Len(a) : i \in 1..n \/ i = n + 1 \/ i = n + 2 \/ i = n + 3 \/ i = n + 4
  <2>1. \A i \in 1..(n + 4) : i \in 1..n \/ i = n + 1 \/ i = n + 2 \/ i = n + 3 \/ i = n + 4 BY <1>1
  <2> QED BY <1>2, <2>1
<1>3. Sourced(a) /\ Mentions(a)
  <2>1. n + 3 \in 1..Len(a) BY <1>1, <1>2
  <2>2. "source" \in ToSet(a) BY <1>2, <2>1, ToSetIs
  <2> QED BY <2>2 DEF Sourced, Mentions
<1>4. ASSUME ~Mentions(s) PROVE Once(a, Marks)
  <2>1. \A i \in 1..n : s[i] \notin Marks BY <1>4, ToSetIs DEF Mentions, Marks, n
  <2>2. \A i \in 1..Len(a) : a[i] \in Marks => i = n + 3
    <3> SUFFICES ASSUME NEW i \in 1..Len(a), a[i] \in Marks PROVE i = n + 3
      OBVIOUS
    <3>1. i \in 1..n \/ i = n + 1 \/ i = n + 2 \/ i = n + 3 \/ i = n + 4 BY <1>0
    <3> QED BY <1>2, <2>1, <3>1 DEF Marks
  <2> QED BY <2>2 DEF Once
<1>5. ASSUME Outside(s) PROVE Outside(a)
  <2> SUFFICES ASSUME NEW i \in 1..Len(a), NEW e \in 1..Len(a), i < e, a[i] \in Own, a[e] = "end"
               PROVE  \E b \in i..e : a[b] = "begin"
    BY DEF Outside
  <2>1. e \in 1..n \/ e = n + 1 \/ e = n + 2 \/ e = n + 3 \/ e = n + 4 BY <1>0
  <2>2. e \in 1..n \/ e = n + 4 BY <1>2, <2>1
  <2>3. CASE e \in 1..n
    <3>0. i \in 1..n BY <1>0, <1>1, <2>3
    <3>1. i \in 1..n /\ s[i] \in Own /\ s[e] = "end" BY <1>2, <2>3, <3>0
    <3>2. PICK b \in i..e : s[b] = "begin" BY <1>5, <2>3, <3>1 DEF Outside, n
    <3>3. b \in 1..n BY <1>1, <2>3, <3>1
    <3> QED BY <1>2, <3>2, <3>3
  <2>4. CASE e = n + 4
    <3>1. i \in 1..n \/ i = n + 1 \/ i = n + 2 \/ i = n + 3 BY <1>1, <1>2, <2>4
    <3>2. i \in 1..n BY <1>2, <3>1, InstallAssumption
    <3>3. n + 1 \in i..e BY <1>1, <2>4, <3>2
    <3> QED BY <1>2, <3>3
  <2> QED BY <2>2, <2>3, <2>4
<1>6. Only(a, Own) = Only(s, Own)
  <2>1. Only(a, Own) = Only(s, Own) \o Only(Block, Own) BY <1>1, BlockIs, OnlyConcat
  <2>2. Block \in Seq(Lines \ Own) BY InstallAssumption DEF Block, Lines
  <2>3. Only(Block, Own) = <<>> BY <2>2, OnlyNone
  <2>4. Only(s, Own) \in Seq(Lines \cap Own) BY OnlyRange
  <2> QED BY <2>1, <2>3, <2>4, ConcatEmptySeq
<1> QED BY <1>2, <1>3, <1>4, <1>5, <1>6 DEF a

(* Nothing of hunch's is left but what is commented out; the user's lines are, when every
   block that begins ends. *)
LEMMA StrippedIs ==
  ASSUME NEW s \in Seq(Lines)
  PROVE  /\ Strip(s) \in Seq(Lines) /\ ~Sourced(Strip(s)) /\ Outside(Strip(s))
         /\ Once(s, Marks) => Once(Strip(s), Marks)
         /\ Outside(s) /\ ~Unclosed(s) => Only(Strip(s), Own) = Only(s, Own)
<1> DEFINE t == Strip(s)
<1>1. t \in Seq(Lines) BY PickedSeq DEF Strip
<1>2. \A j \in 1..Len(t) : t[j] \notin Removed
  <2>1. \A j \in 1..Len(t) : \E i \in 1..Len(s) : i \in Kept(s) /\ t[j] = s[i]
    BY PickedFrom DEF Strip
  <2> QED BY <2>1 DEF Kept
<1>3. Once(s, Marks) => Once(t, Marks) BY PickedOnce DEF Strip
<1> HIDE DEF t
<1>4. ~Sourced(t) /\ Outside(t)
  <2>1. "source" \notin ToSet(t) BY <1>1, <1>2, ToSetIs DEF Removed
  <2>2. Outside(t) BY <1>2 DEF Outside, Removed
  <2> QED BY <2>1, <2>2 DEF Sourced
<1>5. ASSUME Outside(s), ~Unclosed(s) PROVE Only(t, Own) = Only(s, Own)
  <2>1. Len(s) \in Nat /\ DOMAIN s = 1..Len(s) OBVIOUS
  <2>2. ASSUME NEW i \in 1..Len(s), s[i] \in Own PROVE i \in Kept(s)
    <3>1. s[i] \notin Removed /\ s[i] # "begin" /\ s[i] # "end" BY <2>2, InstallAssumption DEF Removed
    <3> SUFFICES ASSUME InBlock(s, i) PROVE FALSE
      BY <2>1, <3>1 DEF Kept
    <3>2. PICK b \in 1..(i - 1) : s[b] = "begin" /\ \A k \in (b + 1)..(i - 1) : s[k] # "end"
      BY DEF InBlock
    <3>3. b \in 1..Len(s) BY <2>1, <3>2
    <3>4. PICK e \in (b + 1)..Len(s) : s[e] = "end" /\ \A k \in (b + 1)..(e - 1) : s[k] # "begin"
      BY <1>5, <2>1, <3>2, <3>3 DEF Unclosed
    <3>5. i < e
      <4>1. e \notin (b + 1)..(i - 1) BY <3>2, <3>4
      <4>2. e # i BY <3>1, <3>4
      <4> QED BY <2>1, <3>2, <3>4, <4>1, <4>2
    <3>6. e \in 1..Len(s) BY <2>1, <3>3, <3>4
    <3>7. PICK k \in i..e : s[k] = "begin" BY <1>5, <2>2, <3>4, <3>5, <3>6 DEF Outside
    <3>8. k # e BY <3>4, <3>7
    <3>9. k \in (b + 1)..(e - 1) BY <2>1, <3>2, <3>5, <3>6, <3>7, <3>8
    <3> QED BY <3>4, <3>7, <3>9
  <2> QED BY <2>2, OnlyPicked DEF t, Strip
<1> QED BY <1>1, <1>3, <1>4, <1>5 DEF t

(* The user's edits: a line more, another line, or a line less. *)
LEMMA LineAdded ==
  ASSUME NEW s \in Seq(Lines), NEW u \in Own \cup {"source"}
  PROVE  /\ Append(s, u) \in Seq(Lines)
         /\ Outside(s) => Outside(Append(s, u))
         /\ Once(s, Marks) /\ (u = "source" => ~Mentions(s)) => Once(Append(s, u), Marks)
         /\ Sourced(Append(s, u)) => Sourced(s) \/ u = "source"
<1> DEFINE t == Append(s, u)  n == Len(s)
<1>1. /\ n \in Nat /\ u \in Lines /\ t \in Seq(Lines) /\ Len(t) = n + 1 /\ t[n + 1] = u
      /\ \A i \in 1..n : t[i] = s[i]
  BY DEF Lines
<1>2. u # "end" /\ u # "off" BY InstallAssumption
<1>3. u \in Marks => u = "source" BY InstallAssumption DEF Marks
<1> HIDE DEF t
<1>4. ASSUME Outside(s) PROVE Outside(t)
  <2> SUFFICES ASSUME NEW i \in 1..Len(t), NEW e \in 1..Len(t), i < e, t[i] \in Own, t[e] = "end"
               PROVE  \E b \in i..e : t[b] = "begin"
    BY DEF Outside
  <2>1. e \in 1..n /\ i \in 1..n
    <3>1. e # n + 1 BY <1>1, <1>2
    <3> QED BY <1>1, <3>1
  <2>2. PICK b \in i..e : s[b] = "begin" BY <1>1, <1>4, <2>1 DEF Outside
  <2>3. b \in 1..n BY <1>1, <2>1
  <2> QED BY <1>1, <2>2, <2>3
<1>5. ASSUME Once(s, Marks), u = "source" => ~Mentions(s) PROVE Once(t, Marks)
  <2>1. u \in Marks => \A i \in 1..n : s[i] \notin Marks
    BY <1>3, <1>5, ToSetIs DEF Mentions, Marks
  <2> SUFFICES ASSUME NEW i \in 1..(n + 1), NEW j \in 1..(n + 1), t[i] \in Marks, t[j] \in Marks
               PROVE  i = j
    BY <1>1 DEF Once
  <2>2. (i \in 1..n \/ i = n + 1) /\ (j \in 1..n \/ j = n + 1) BY <1>1
  <2> QED BY <1>1, <1>5, <2>1, <2>2 DEF Once
<1>6. Sourced(t) => Sourced(s) \/ u = "source"
  <2> SUFFICES ASSUME Sourced(t) PROVE Sourced(s) \/ u = "source"
    OBVIOUS
  <2>1. PICK i \in 1..(n + 1) : t[i] = "source" BY <1>1, ToSetIs DEF Sourced
  <2>2. i \in 1..n \/ i = n + 1 BY <1>1
  <2>3. CASE i \in 1..n
    <3>1. s[i] = "source" BY <1>1, <2>1, <2>3
    <3> QED BY <2>3, <3>1, ToSetIs DEF Sourced
  <2> QED BY <1>1, <2>1, <2>2, <2>3
<1> QED BY <1>1, <1>4, <1>5, <1>6 DEF t

LEMMA LineChanged ==
  ASSUME NEW s \in Seq(Lines), NEW i \in 1..Len(s), s[i] \in Marks, NEW u \in Marks
  PROVE  /\ [s EXCEPT ![i] = u] \in Seq(Lines)
         /\ Outside(s) => Outside([s EXCEPT ![i] = u])
         /\ Once(s, Marks) => Once([s EXCEPT ![i] = u], Marks)
         /\ Sourced([s EXCEPT ![i] = u]) => Sourced(s) \/ u = "source"
<1> DEFINE t == [s EXCEPT ![i] = u]
<1>1. /\ u \in Lines /\ t \in Seq(Lines) /\ Len(t) = Len(s) /\ t[i] = u
      /\ \A j \in 1..Len(s) : j # i => t[j] = s[j]
  <2>1. u \in Lines BY DEF Marks, Lines
  <2> QED BY <2>1, ExceptSeq
<1> HIDE DEF t
<1>2. u # "end" /\ s[i] # "begin" /\ u \notin Own BY InstallAssumption DEF Marks
<1>3. ASSUME Outside(s) PROVE Outside(t)
  <2> SUFFICES ASSUME NEW j \in 1..Len(s), NEW e \in 1..Len(s), j < e, t[j] \in Own, t[e] = "end"
               PROVE  \E b \in j..e : t[b] = "begin"
    BY <1>1 DEF Outside
  <2>1. j # i /\ e # i BY <1>1, <1>2
  <2>2. PICK b \in j..e : s[b] = "begin" BY <1>1, <1>3, <2>1 DEF Outside
  <2>3. b \in 1..Len(s) /\ b # i BY <1>2, <2>2
  <2> QED BY <1>1, <2>2, <2>3
<1>4. ASSUME Once(s, Marks) PROVE Once(t, Marks)
  <2> SUFFICES ASSUME NEW j \in 1..Len(s), NEW k \in 1..Len(s), t[j] \in Marks, t[k] \in Marks
               PROVE  j = k
    BY <1>1 DEF Once
  <2>1. s[j] \in Marks /\ s[k] \in Marks BY <1>1
  <2> QED BY <1>4, <2>1 DEF Once
<1>5. Sourced(t) => Sourced(s) \/ u = "source"
  <2> SUFFICES ASSUME Sourced(t) PROVE Sourced(s) \/ u = "source"
    OBVIOUS
  <2>1. PICK j \in 1..Len(s) : t[j] = "source" BY <1>1, ToSetIs DEF Sourced
  <2>2. j # i => s[j] = "source" BY <1>1, <2>1
  <2>3. s[j] = "source" => Sourced(s) BY ToSetIs DEF Sourced
  <2> QED BY <1>1, <2>1, <2>2, <2>3
<1> QED BY <1>1, <1>3, <1>4, <1>5 DEF t

LEMMA LineRemoved ==
  ASSUME NEW s \in Seq(Lines), NEW k \in 1..Len(s), s[k] # "begin"
  PROVE  /\ RemoveAt(s, k) \in Seq(Lines)
         /\ Outside(s) => Outside(RemoveAt(s, k))
         /\ Once(s, Marks) => Once(RemoveAt(s, k), Marks)
         /\ Sourced(RemoveAt(s, k)) => Sourced(s)
<1> DEFINE f == SubSeq(s, 1, k - 1)  g == SubSeq(s, k + 1, Len(s))  t == f \o g
           at0(j) == IF j < k THEN j ELSE j + 1
<1>1. Len(s) \in Nat /\ k \in Nat /\ k >= 1 /\ k <= Len(s) OBVIOUS
<1>2. /\ f \in Seq(Lines) /\ Len(f) = k - 1 /\ \A i \in 1..(k - 1) : f[i] = s[i]
  <2>1. \A i \in 1..(k - 1) : s[i] \in Lines BY <1>1
  <2>2. /\ f \in Seq(Lines) /\ Len(f) = IF 1 <= k - 1 THEN (k - 1) - 1 + 1 ELSE 0
        /\ \A i \in 1..((k - 1) - 1 + 1) : f[i] = s[1 + i - 1]
    BY <1>1, <2>1, SubSeqProperties
  <2> HIDE DEF f
  <2> QED BY <1>1, <2>2
<1>3. /\ g \in Seq(Lines) /\ Len(g) = Len(s) - k /\ \A i \in 1..(Len(s) - k) : g[i] = s[k + i]
  <2>1. \A i \in (k + 1)..Len(s) : s[i] \in Lines BY <1>1
  <2>2. /\ g \in Seq(Lines) /\ Len(g) = IF k + 1 <= Len(s) THEN Len(s) - (k + 1) + 1 ELSE 0
        /\ \A i \in 1..(Len(s) - (k + 1) + 1) : g[i] = s[(k + 1) + i - 1]
    BY <1>1, <2>1, SubSeqProperties
  <2> HIDE DEF g
  <2>3. ASSUME NEW i \in 1..(Len(s) - k) PROVE g[i] = s[k + i]
    <3>1. i \in 1..(Len(s) - (k + 1) + 1) /\ (k + 1) + i - 1 = k + i BY <1>1
    <3> QED BY <2>2, <3>1
  <2> QED BY <1>1, <2>2, <2>3
<1>4. RemoveAt(s, k) = t BY DEF RemoveAt
<1> HIDE DEF f, g
<1>5. /\ t \in Seq(Lines) /\ Len(t) = Len(s) - 1
      /\ \A j \in 1..(Len(s) - 1) : at0(j) \in 1..Len(s) /\ t[j] = s[at0(j)]
  <2>1. /\ t \in Seq(Lines) /\ Len(t) = Len(f) + Len(g)
        /\ \A i \in 1..(Len(f) + Len(g)) : t[i] = IF i <= Len(f) THEN f[i] ELSE g[i - Len(f)]
    BY <1>2, <1>3, ConcatProperties
  <2> HIDE DEF t
  <2>2. ASSUME NEW j \in 1..(Len(s) - 1) PROVE at0(j) \in 1..Len(s) /\ t[j] = s[at0(j)]
    <3>1. j \in 1..(Len(f) + Len(g)) BY <1>1, <1>2, <1>3
    <3>2. CASE j < k
      <4>1. j <= Len(f) /\ j \in 1..(k - 1) BY <1>1, <1>2, <3>2
      <4>2. t[j] = f[j] BY <2>1, <3>1, <4>1
      <4> QED BY <1>1, <1>2, <3>2, <4>1, <4>2
    <3>3. CASE j >= k
      <4>1. ~(j <= Len(f)) /\ j - Len(f) \in 1..(Len(s) - k) /\ k + (j - Len(f)) = j + 1 /\ ~(j < k)
        BY <1>1, <1>2, <3>3
      <4>2. t[j] = g[j - Len(f)] BY <2>1, <3>1, <4>1
      <4>3. g[j - Len(f)] = s[j + 1] BY <1>3, <4>1
      <4>4. j + 1 \in 1..Len(s) BY <1>1
      <4> QED BY <4>1, <4>2, <4>3, <4>4
    <3> QED BY <1>1, <3>2, <3>3
  <2>3. Len(t) = Len(s) - 1 BY <1>1, <1>2, <1>3, <2>1
  <2> QED BY <2>1, <2>2, <2>3
<1> HIDE DEF t
<1>6. ASSUME Outside(s) PROVE Outside(t)
  <2> SUFFICES ASSUME NEW i \in 1..(Len(s) - 1), NEW e \in 1..(Len(s) - 1), i < e, t[i] \in Own, t[e] = "end"
               PROVE  \E b \in i..e : t[b] = "begin"
    BY <1>5 DEF Outside
  <2>1. at0(i) \in 1..Len(s) /\ at0(e) \in 1..Len(s) /\ at0(i) < at0(e) BY <1>1, <1>5
  <2>2. s[at0(i)] \in Own /\ s[at0(e)] = "end" BY <1>5
  <2>3. PICK b \in at0(i)..at0(e) : s[b] = "begin" BY <1>6, <2>1, <2>2 DEF Outside
  <2>4. b # k /\ b \in 1..Len(s) BY <2>1, <2>3
  <2> DEFINE c == IF b < k THEN b ELSE b - 1
  <2>5. c \in i..e /\ c \in 1..(Len(s) - 1) /\ at0(c) = b BY <1>1, <2>1, <2>4
  <2>6. t[c] = "begin" BY <1>5, <2>3, <2>5
  <2> QED BY <2>5, <2>6
<1>7. ASSUME Once(s, Marks) PROVE Once(t, Marks)
  <2> SUFFICES ASSUME NEW i \in 1..(Len(s) - 1), NEW j \in 1..(Len(s) - 1), t[i] \in Marks, t[j] \in Marks
               PROVE  i = j
    BY <1>5 DEF Once
  <2>1. at0(i) = at0(j) BY <1>5, <1>7 DEF Once
  <2> QED BY <1>1, <2>1
<1>8. Sourced(t) => Sourced(s)
  <2> SUFFICES ASSUME Sourced(t) PROVE Sourced(s)
    OBVIOUS
  <2>1. PICK i \in 1..(Len(s) - 1) : t[i] = "source" BY <1>5, ToSetIs DEF Sourced
  <2>2. at0(i) \in 1..Len(s) /\ s[at0(i)] = "source" BY <1>5, <2>1
  <2> QED BY <2>2, ToSetIs DEF Sourced
<1> QED BY <1>4, <1>5, <1>6, <1>7, <1>8
-----------------------------------------------------------------------------
(* The types that are left.  Who has .zshrc.tmp open under its name finds it there. *)
LineTypes ==
  /\ rc \in Seq(Lines) /\ (tmp = None \/ tmp \in Seq(Lines)) /\ mine \in Seq(Own)
  /\ text \in [Procs -> Seq(Lines)] /\ at \in [Procs -> {"tmp", "rc", "gone"}]
  /\ \A p \in Procs : at[p] = "tmp" => tmp \in Seq(Lines)

Typed == IInv /\ Placed /\ LineTypes

LEMMA NoLines == <<>> \in Seq(Lines) /\ <<>> # None /\ None \notin Seq(Lines)
<1>1. <<>> \in Seq(Lines)
  BY EmptySeq
<1> QED
  BY <1>1, InstallAssumption

LEMMA InitLines == Init => LineTypes
<1> SUFFICES ASSUME Init PROVE LineTypes
  OBVIOUS
<1>1. PICK u \in Own : rc = <<u>> /\ mine = <<u>>
  BY DEF Init
<1>2. u \in Lines
  BY DEF Lines
<1> QED
  BY <1>1, <1>2, NoLines DEF Init, LineTypes

(* What happens beside .zshrc: everything a process does that neither starts it, nor
   brings it into an edit of .zshrc, nor is a step of one. *)
LEMMA BesideIs ==
  ASSUME Typed, NEW p \in Procs,
         \/ \E phase \in DOMAIN Torn :
              ScriptCurrent(p, phase) \/ TruncateScript(p, phase) \/ WriteScript(p, phase)
         \/ EnsureConfig(p) \/ EnsureDaemon(p) \/ Spawn(p) \/ AlreadySourced(p) \/ NothingToRemove(p)
         \/ Stop(p) \/ RemoveData(p) \/ RemoveScript(p) \/ RemoveConfig(p)
         \/ FetchLatestVersion(p) \/ FetchChecksum(p) \/ DownloadAsset(p) \/ VerifyChecksum(p)
         \/ Replace(p) \/ MoveAside(p) \/ MoveAsideFails(p) \/ Swap(p) \/ SwapFails(p) \/ UpdateFails(p)
         \/ Restart(p)
  PROVE  /\ UNCHANGED <<rcs, own, job, excuses>> /\ ~Idle(p) /\ ~Editing(p)
         /\ pc'[p] \notin {"open", "write", "rename"}
         /\ \A q \in Procs : q # p => pc'[q] = pc[q]
<1>1. PICK from \in {"ensure", "script", "config", "daemon", "ensure_again", "script_again", "spawn", "read",
                     "stop", "remove_data", "remove_script", "remove_config",
                     "latest", "sum", "download", "verify", "replace", "swap", "restart"},
           to \in {"script", "config", "daemon", "ensure_again", "script_again", "spawn", "read",
                   "remove_data", "remove_script", "remove_config",
                   "sum", "download", "verify", "replace", "swap", "restart", "done", "failed"} :
        Step(p, from, to)
  BY DEF ScriptCurrent, TruncateScript, WriteScript, AfterEnsure, Torn, EnsureConfig, EnsureDaemon, Spawn,
         AlreadySourced, NothingToRemove, Stop, RemoveData, RemoveScript, RemoveConfig, FetchLatestVersion,
         FetchChecksum, DownloadAsset, VerifyChecksum, Replace, MoveAside, MoveAsideFails, Swap, SwapFails,
         UpdateFails, Restart
<1>2. UNCHANGED <<rcs, own, job, excuses>>
  BY DEF ScriptCurrent, TruncateScript, WriteScript, EnsureConfig, EnsureDaemon, Spawn,
         AlreadySourced, NothingToRemove, Stop, RemoveData, RemoveScript, RemoveConfig, FetchLatestVersion,
         FetchChecksum, DownloadAsset, VerifyChecksum, Replace, MoveAside, MoveAsideFails, Swap, SwapFails,
         UpdateFails, Restart
<1> QED
  BY <1>1, <1>2 DEF Typed, IInv, ExeTypes, Step, Idle, Editing

(* What the user's edits make of .zshrc.  A source line is only put there when there is
   none, not even a comment, and there is a script. *)
LEMMA EditsAre ==
  ASSUME LineTypes, UserAppends \/ UserComments \/ UserUncomments \/ UserDeletes
  PROVE  /\ rc' \in Seq(Lines) /\ mine' = Only(rc', Own)
         /\ Outside(rc) => Outside(rc')
         /\ Once(rc, Marks) => Once(rc', Marks)
         /\ Sourced(rc') => Sourced(rc) \/ script # None
         /\ excuses' = excuses \cup (IF \E p \in Procs : Editing(p) THEN {"edited"} ELSE {})
         /\ UNCHANGED <<tmp, own, files, exes, daemon, job, pc, ver, fetch, release, windows>>
<1>1. /\ mine' = Only(rc', Own)
      /\ excuses' = excuses \cup (IF \E p \in Procs : Editing(p) THEN {"edited"} ELSE {})
      /\ UNCHANGED <<tmp, own, files, exes, daemon, job, pc, ver, fetch, release, windows>>
  BY DEF UserAppends, UserComments, UserUncomments, UserDeletes, Edited
<1>2. rc \in Seq(Lines) /\ DOMAIN rc = 1..Len(rc)
  BY DEF LineTypes
<1>3. CASE UserAppends
  <2>1. PICK u \in Own \cup (IF ToSet(rc) \cap {"source", "off"} # {} \/ script = None THEN {} ELSE {"source"}) :
          rc' = Append(rc, u)
    BY <1>3 DEF UserAppends, Edited
  <2>2. u \in Own \cup {"source"} /\ (u = "source" => ~Mentions(rc) /\ script # None)
    BY <2>1, InstallAssumption DEF Mentions
  <2> QED
    BY <1>1, <1>2, <2>1, <2>2, LineAdded
<1>4. CASE UserComments
  <2>1. PICK i \in 1..Len(rc) : rc[i] = "source" /\ rc' = [rc EXCEPT ![i] = "off"]
    BY <1>2, <1>4 DEF UserComments, Edited
  <2>2. rc[i] \in Marks /\ "off" \in Marks
    BY <2>1 DEF Marks
  <2> QED
    BY <1>1, <1>2, <2>1, <2>2, LineChanged
<1>5. CASE UserUncomments
  <2>1. PICK i \in 1..Len(rc) : rc[i] = "off" /\ rc' = [rc EXCEPT ![i] = "source"]
    BY <1>2, <1>5 DEF UserUncomments, Edited
  <2>2. rc[i] \in Marks /\ "source" \in Marks /\ script # None
    BY <1>5, <2>1 DEF Marks, UserUncomments
  <2> QED
    BY <1>1, <1>2, <2>1, <2>2, LineChanged
<1>6. CASE UserDeletes
  <2>1. PICK i \in 1..Len(rc) : rc[i] \in {"end", "source"} /\ rc' = RemoveAt(rc, i)
    BY <1>2, <1>6 DEF UserDeletes, Edited
  <2>2. rc[i] # "begin"
    BY <2>1
  <2> QED
    BY <1>1, <1>2, <2>1, <2>2, LineRemoved
<1> QED
  BY <1>3, <1>4, <1>5, <1>6

-----------------------------------------------------------------------------
LEMMA EditingTyped ==
  ASSUME Typed, NEW p \in Procs,
         ReadToAppend(p) \/ ReadToStrip(p) \/ Truncate(p) \/ Write(p) \/ Rename(p) \/ Crash(p)
  PROVE  LineTypes'
<1>1. CASE ReadToAppend(p)
  <2>1. AppendBlock(rc) \in Seq(Lines)
    BY AppendedIs DEF Typed, LineTypes
  <2> QED
    BY <1>1, <2>1 DEF ReadToAppend, Typed, LineTypes, rcs
<1>2. CASE ReadToStrip(p)
  <2>1. Strip(rc) \in Seq(Lines)
    BY StrippedIs DEF Typed, LineTypes
  <2> QED
    BY <1>2, <2>1 DEF ReadToStrip, Typed, LineTypes, rcs
<1>3. CASE Truncate(p)
  BY <1>3, NoLines DEF Truncate, Target, Typed, LineTypes
<1>4. CASE Write(p)
  <2>1. /\ Over(text[p], rc) \in Seq(Lines)
        /\ at[p] = "tmp" => Over(text[p], tmp) \in Seq(Lines)
    BY OverIs DEF Typed, LineTypes
  <2> QED
    BY <1>4, <2>1, NoLines DEF Write, Typed, LineTypes
<1>5. CASE Rename(p)
  BY <1>5 DEF Rename, Typed, LineTypes
<1>6. CASE Crash(p)
  BY <1>6, NoLines DEF Crash, Typed, LineTypes, rcs
<1> QED
  BY <1>1, <1>2, <1>3, <1>4, <1>5, <1>6

LEMMA NextTyped == Typed /\ [Next]_vars => LineTypes'
<1> SUFFICES ASSUME Typed, [Next]_vars PROVE LineTypes'
  OBVIOUS
<1>1. ASSUME UNCHANGED <<rcs, own>> PROVE LineTypes'
  BY <1>1 DEF Typed, LineTypes, rcs, own
<1>2. CASE UNCHANGED vars
  BY <1>1, <1>2 DEF vars
<1>3. ASSUME NEW p \in Procs, NEW j \in DOMAIN First, Start(p, j) PROVE LineTypes'
  BY <1>1, <1>3 DEF Start
<1>4. CASE UserAppends \/ UserComments \/ UserUncomments \/ UserDeletes
  <2>1. /\ rc' \in Seq(Lines) /\ mine' = Only(rc', Own) /\ UNCHANGED <<tmp, own>>
    BY <1>4, EditsAre DEF Typed
  <2>2. Only(rc', Own) \in Seq(Lines \cap Own) /\ Lines \cap Own = Own
    BY <2>1, OnlyRange DEF Lines
  <2> QED
    BY <2>1, <2>2 DEF Typed, LineTypes, own
<1>5. CASE Publish
  BY <1>1, <1>5 DEF Publish
<1>6. CASE Next
  BY <1>1, <1>3, <1>4, <1>5, <1>6, BesideIs, EditingTyped DEF Next
<1> QED
  BY <1>2, <1>6

(* The types that the other parts rest on. *)
THEOREM TypedInvariant == Spec => []Typed
<1>1. Init => LineTypes
  BY InitLines
<1>2. IInv /\ Placed /\ LineTypes /\ [Next]_vars => LineTypes'
  BY NextTyped DEF Typed
<1>3. IInv /\ Placed /\ LineTypes <=> Typed
  BY DEF Typed
<1> QED
  BY <1>1, <1>2, <1>3, ExecutableInvariant, PlacedInvariant, PTL DEF Spec

(* Files have lines or are missing, scripts and executables are a release's, broken or
   missing, and every process is at a place of the command it runs. *)
THEOREM TypeTheorem == Spec => []TypeOK
<1>1. Typed => TypeOK
  BY DEF Typed, IInv, ExeTypes, Placed, FileTypes, AtPlace, LineTypes, TypeOK
<1> QED
  BY <1>1, TypedInvariant, PTL
-----------------------------------------------------------------------------
(* The user's lines.  Where nothing excuses their loss, they are what the command that
   runs will write, and then what .zshrc.tmp holds; and none of them stands in a block,
   so that stripping those loses none. *)
LinesCalm == excuses \cap {"together", "edited", "unclosed", "torn"} = {}
Holds(s) == Only(s, Own) = mine /\ Outside(s)
Carries(p) ==
  /\ pc[p] \in {"open", "write"} => Holds(text[p])
  /\ pc[p] = "write" => at[p] = Target(p) /\ (IF at[p] = "tmp" THEN tmp = <<>> ELSE rc = <<>>)
  /\ pc[p] = "rename" => tmp # None /\ Holds(tmp)

LinesInv ==
  LinesCalm =>
    /\ Outside(rc)
    /\ (\A p \in Procs : pc[p] = "write" => job[p] # "uninstall") => Only(rc, Own) = mine
    /\ \A p \in Procs : Carries(p)

LEMMA InitCarries == Init => LinesInv
<1> SUFFICES ASSUME Init PROVE LinesInv
  OBVIOUS
<1>1. PICK u \in Own : rc = <<u>> /\ mine = <<u>>
  BY DEF Init
<1>2. Outside(rc)
  BY <1>1 DEF Outside
<1>3. Only(rc, Own) = mine
  <2>1. <<u>> = Append(<<>>, u) /\ <<>> \in Seq(Own)
    BY EmptySeq
  <2>2. Only(Append(<<>>, u), Own) = Append(Only(<<>>, Own), u)
    BY <2>1, OnlyAppend
  <2> QED
    BY <1>1, <2>1, <2>2, OnlyEmpty
<1> QED
  BY <1>2, <1>3 DEF Init, LinesInv, Carries

(* Until two commands overlap, the others are idle. *)
LEMMA OthersIdle ==
  ASSUME Typed, Alone, NEW p \in Procs, ~Idle(p) PROVE \A q \in Procs : q # p => Idle(q)
  BY DEF Typed, IInv, AloneOK

(* Nothing of what matters changes. *)
LEMMA NothingCarried ==
  ASSUME LinesInv, LinesCalm' => LinesCalm, UNCHANGED <<rcs, own>>,
         \A q \in Procs : \/ pc'[q] = pc[q] /\ job'[q] = job[q]
                          \/ pc[q] # "write" /\ pc'[q] \notin {"open", "write", "rename"}
  PROVE  LinesInv'
<1>1. \A q \in Procs : Carries(q) => Carries(q)'
  BY DEF Carries, Holds, Target, Outside, rcs, own
<1> QED
  BY <1>1 DEF LinesInv, Outside, rcs

LEMMA ReadsCarry ==
  ASSUME Typed, LinesInv, NEW p \in Procs, ReadToAppend(p) \/ ReadToStrip(p) PROVE LinesInv'
<1> SUFFICES ASSUME LinesCalm' PROVE LinesInv'
  BY DEF LinesInv
<1>1. /\ pc[p] = "read" /\ pc'[p] = "open" /\ \A q \in Procs : q # p => pc'[q] = pc[q] /\ text'[q] = text[q]
      /\ UNCHANGED <<rc, tmp, mine, at, job>> /\ excuses \subseteq excuses'
  BY DEF ReadToAppend, ReadToStrip, Step, Typed, IInv, ExeTypes, LineTypes, rcs
<1>2. LinesCalm /\ Alone /\ ~Idle(p)
  BY <1>1 DEF LinesCalm, Alone, Idle
<1>3. \A q \in Procs : q # p => Idle(q)
  BY <1>2, OthersIdle
<1>4. \A q \in Procs : pc[q] # "write"
  BY <1>1, <1>3 DEF Idle
<1>5. Outside(rc) /\ Only(rc, Own) = mine /\ rc \in Seq(Lines)
  BY <1>2, <1>4 DEF LinesInv, Typed, LineTypes
<1>6. Outside(text'[p]) /\ Only(text'[p], Own) = mine
  <2>1. CASE ReadToAppend(p)
    <3>1. text'[p] = AppendBlock(rc)
      BY <2>1 DEF ReadToAppend, Typed, LineTypes
    <3> QED
      BY <1>5, <3>1, AppendedIs
  <2>2. CASE ReadToStrip(p)
    <3>1. text'[p] = Strip(rc) /\ ~Unclosed(rc)
      BY <2>2 DEF ReadToStrip, LinesCalm, Typed, LineTypes
    <3> QED
      BY <1>5, <3>1, StrippedIs
  <2> QED
    BY <2>1, <2>2
<1>7. \A q \in Procs : Carries(q)'
  BY <1>1, <1>3, <1>6 DEF Carries, Holds, Idle, Outside
<1> QED
  BY <1>1, <1>5, <1>7 DEF LinesInv, Outside

LEMMA WritesCarry ==
  ASSUME Typed, LinesInv, NEW p \in Procs, Truncate(p) \/ Write(p) \/ Rename(p) \/ Crash(p)
  PROVE  LinesInv'
<1> SUFFICES ASSUME LinesCalm' PROVE LinesInv'
  BY DEF LinesInv
<1>1. /\ ~Idle(p) /\ \A q \in Procs : q # p => pc'[q] = pc[q]
      /\ UNCHANGED <<mine, job>> /\ excuses \subseteq excuses'
  BY DEF Truncate, Write, Rename, Crash, Step, Idle, Typed, IInv, ExeTypes, rcs
<1>2. LinesCalm /\ Alone
  BY <1>1 DEF LinesCalm, Alone
<1>3. \A q \in Procs : q # p => Idle(q)
  BY <1>1, <1>2, OthersIdle
<1>4. \A q \in Procs : q # p => Carries(q)'
  BY <1>1, <1>3 DEF Carries, Idle
<1>5. Carries(p) /\ rc \in Seq(Lines) /\ text[p] \in Seq(Lines) /\ Outside(<<>>)
  BY <1>2 DEF LinesInv, Typed, LineTypes, Outside
<1>6. job[p] \in {"init", "uninstall"} \/ ~Editing(p)
  BY DEF Typed, Placed, AtPlace, Idle, Editing
<1>7. CASE Truncate(p)
  <2>1. /\ pc[p] = "open" /\ pc'[p] = "write" /\ at'[p] = Target(p) /\ text' = text
        /\ IF Target(p) = "tmp" THEN tmp' = <<>> /\ rc' = rc ELSE rc' = <<>> /\ tmp' = tmp
    BY <1>7 DEF Truncate, Step, Typed, IInv, ExeTypes, LineTypes
  <2>2. Carries(p)'
    BY <1>1, <1>5, <2>1 DEF Carries, Holds, Target, Outside
  <2>3. CASE job[p] = "init"
    <3>1. \A q \in Procs : pc[q] # "write"
      BY <1>3, <2>1 DEF Idle
    <3> QED
      BY <1>1, <1>2, <1>4, <2>1, <2>2, <2>3, <3>1 DEF LinesInv, Target, Outside
  <2>4. CASE job[p] # "init"
    BY <1>1, <1>4, <1>5, <1>6, <2>1, <2>2, <2>4 DEF LinesInv, Target, Outside, Editing
  <2> QED
    BY <2>3, <2>4
<1>8. CASE Write(p)
  <2>1. /\ pc[p] = "write" /\ pc'[p] = (IF job[p] = "init" THEN "rename" ELSE "done")
        /\ at[p] = Target(p) /\ Holds(text[p]) /\ (IF at[p] = "tmp" THEN tmp = <<>> ELSE rc = <<>>)
    BY <1>5, <1>8 DEF Carries, Write, Step, Typed, IInv, ExeTypes
  <2>2. Over(text[p], <<>>) = text[p]
    BY <1>5, OverAlone
  <2>3. CASE job[p] = "init"
    <3>1. tmp' = text[p] /\ rc' = rc /\ tmp' # None
      BY <1>5, <1>8, <2>1, <2>2, <2>3, NoLines DEF Write, Target
    <3>2. Carries(p)'
      BY <1>1, <2>1, <2>3, <3>1 DEF Carries, Holds, Outside
    <3>3. \A q \in Procs : pc[q] = "write" => job[q] # "uninstall"
      BY <1>3, <2>3 DEF Idle
    <3> QED
      BY <1>1, <1>2, <1>4, <3>1, <3>2, <3>3 DEF LinesInv, Outside
  <2>4. CASE job[p] # "init"
    <3>1. rc' = text[p]
      BY <1>8, <2>1, <2>2, <2>4 DEF Write, Target
    <3>2. Carries(p)'
      BY <2>1, <2>4 DEF Carries
    <3> QED
      BY <1>1, <1>4, <2>1, <3>1, <3>2 DEF LinesInv, Holds, Outside
  <2> QED
    BY <2>3, <2>4
<1>9. CASE Rename(p)
  <2>1. rc' = tmp /\ Holds(tmp) /\ pc'[p] \notin {"open", "write", "rename"}
    BY <1>5, <1>9 DEF Rename, Carries, Step, Typed, IInv, ExeTypes
  <2>2. Carries(p)'
    BY <2>1 DEF Carries
  <2> QED
    BY <1>1, <1>4, <2>1, <2>2 DEF LinesInv, Holds, Outside
<1>10. CASE Crash(p)
  <2>1. pc'[p] = "dead" /\ rc' = rc /\ ~(pc[p] = "write" /\ job[p] = "uninstall")
    BY <1>10 DEF Crash, LinesCalm, Typed, IInv, ExeTypes, rcs
  <2>2. Carries(p)'
    BY <2>1 DEF Carries
  <2>3. \A q \in Procs : pc[q] = "write" => job[q] # "uninstall"
    BY <1>3, <2>1 DEF Idle
  <2> QED
    BY <1>1, <1>2, <1>4, <2>1, <2>2, <2>3 DEF LinesInv, Outside
<1> QED
  BY <1>7, <1>8, <1>9, <1>10

LEMMA NextCarries == Typed /\ LinesInv /\ [Next]_vars => LinesInv'
<1> SUFFICES ASSUME Typed, LinesInv, [Next]_vars PROVE LinesInv'
  OBVIOUS
<1>1. CASE UNCHANGED vars
  BY <1>1, NothingCarried DEF vars, LinesCalm
<1>2. ASSUME NEW p \in Procs, NEW j \in DOMAIN First, Start(p, j) PROVE LinesInv'
  <2>1. /\ UNCHANGED <<rcs, own>> /\ pc[p] # "write" /\ pc'[p] \notin {"open", "write", "rename"}
        /\ excuses \subseteq excuses' /\ \A q \in Procs : q # p => pc'[q] = pc[q] /\ job'[q] = job[q]
    BY <1>2 DEF Start, Idle, First, Typed, IInv, ExeTypes, Placed, FileTypes
  <2>2. LinesCalm' => LinesCalm
    BY <2>1 DEF LinesCalm
  <2> QED
    BY <2>1, <2>2, NothingCarried
<1>3. ASSUME NEW p \in Procs,
             /\ UNCHANGED <<rcs, own, job, excuses>> /\ ~Editing(p)
             /\ pc'[p] \notin {"open", "write", "rename"} /\ \A q \in Procs : q # p => pc'[q] = pc[q]
      PROVE  LinesInv'
  BY <1>3, NothingCarried DEF LinesCalm, Editing
<1>4. CASE UserAppends \/ UserComments \/ UserUncomments \/ UserDeletes
  <2> SUFFICES ASSUME LinesCalm' PROVE LinesInv'
    BY DEF LinesInv
  <2>1. /\ mine' = Only(rc', Own) /\ (Outside(rc) => Outside(rc')) /\ UNCHANGED <<pc, job>>
        /\ LinesCalm /\ \A p \in Procs : ~Editing(p)
    BY <1>4, EditsAre DEF LinesCalm, Typed
  <2> QED
    BY <2>1 DEF LinesInv, Carries, Editing, Outside
<1>5. CASE Publish
  BY <1>5, NothingCarried DEF Publish, LinesCalm
<1>6. CASE Next
  BY <1>2, <1>3, <1>4, <1>5, <1>6, BesideIs, ReadsCarry, WritesCarry DEF Next
<1> QED
  BY <1>1, <1>6

(* The user's lines are in .zshrc at every moment and after every crash of init, in their
   order, however many jobs follow each other; what excuses their loss is in the
   property. *)
THEOREM LinesTheorem == Spec => []UserLinesSurvive
<1>1. LinesInv => UserLinesSurvive
  BY DEF LinesInv, LinesCalm, UserLinesSurvive
<1>2. Init => LinesInv
  BY InitCarries
<1> QED
  BY <1>1, <1>2, NextCarries, TypedInvariant, PTL DEF Spec
-----------------------------------------------------------------------------
(* One line that sources the script.  At most two commands run at once, and an uninstall
   alone.  Two inits may then have read the same .zshrc: they write the same text to the
   same .zshrc.tmp, or one of them writes to what the other has made .zshrc, over the
   same text.  Whoever is to rename .zshrc.tmp finds a source line in it, or no file, or
   another who is going to write one. *)
Calm == excuses \cap {"crowd", "stub", "edited", "removing"} = {}
Pairs == \A p, q, r \in Procs : ~Idle(p) /\ ~Idle(q) /\ ~Idle(r) => p = q \/ q = r \/ p = r
AloneRemoving == \A p, q \in Procs : ~Idle(p) /\ job[p] = "uninstall" /\ ~Idle(q) => p = q

(* It has .zshrc.tmp open, or will open it. *)
ToTmp(p) == job[p] = "init" /\ (pc[p] = "open" \/ (pc[p] = "write" /\ at[p] = "tmp"))
ToRc(p) == pc[p] = "write" /\ at[p] = "rc"
(* Its next access to .zshrc.tmp, if any, is the renaming. *)
ToRename(p) == job[p] = "init" /\ (pc[p] = "rename" \/ (pc[p] = "write" /\ at[p] # "tmp"))
TmpPromising == tmp = None \/ Mentions(tmp) \/ \E q \in Procs : pc[q] = "write" /\ at[q] = "tmp"

Marked(p) ==
  /\ pc[p] \in {"open", "write"} => Once(text[p], Marks) /\ (job[p] = "init" => Mentions(text[p]))
  /\ ToTmp(p) => text[p] = AppendBlock(rc) \/ Mentions(rc)
  /\ pc[p] = "write" /\ at[p] = "tmp" => tmp \in {<<>>, text[p]} /\ job[p] = "init"
  /\ ToRc(p) => rc \in {<<>>, text[p]}
  /\ pc[p] = "write" /\ job[p] = "uninstall" => at[p] = "rc"
  /\ ToRename(p) => TmpPromising
Agreeing(p, q) == /\ ToTmp(p) /\ ToTmp(q) => text[p] = text[q]
                  /\ ~(ToRc(p) /\ ToRc(q))

MarksInv ==
  Calm => /\ Pairs /\ AloneRemoving
          /\ Once(rc, Marks) /\ (tmp # None => Once(tmp, Marks))
          /\ \A p \in Procs : Marked(p) /\ \A q \in Procs : p # q => Agreeing(p, q)

LEMMA InitMarks == Init => MarksInv
<1> SUFFICES ASSUME Init PROVE MarksInv
  OBVIOUS
<1>1. PICK u \in Own : rc = <<u>>
  BY DEF Init
<1>2. Once(rc, Marks)
  BY <1>1 DEF Once
<1> QED
  BY <1>2 DEF Init, MarksInv, Pairs, AloneRemoving, Idle, Marked, Agreeing, ToTmp, ToRc, ToRename

(* A step of one process that starts it, or takes place beside .zshrc. *)
LEMMA NothingMarked ==
  ASSUME MarksInv, Calm' => Calm, UNCHANGED <<rcs, own>>,
         \/ UNCHANGED <<pc, job>>
         \/ \E p \in Procs : /\ ~Editing(p) /\ pc'[p] \notin {"open", "write", "rename"}
                             /\ \A q \in Procs : q # p => pc'[q] = pc[q] /\ job'[q] = job[q],
         Calm' => Pairs' /\ AloneRemoving'
  PROVE  MarksInv'
<1> SUFFICES ASSUME Calm' PROVE MarksInv'
  BY DEF MarksInv
<1>1. TmpPromising => TmpPromising'
  BY DEF TmpPromising, Editing, rcs, own, Mentions
<1>2. \A q \in Procs : Marked(q)'
  BY <1>1 DEF MarksInv, Marked, ToTmp, ToRc, ToRename, rcs, own, Editing, Mentions, Once, AppendBlock
<1>3. \A q, r \in Procs : q # r => Agreeing(q, r)'
  BY DEF MarksInv, Agreeing, ToTmp, ToRc, rcs, own, Editing
<1> QED
  BY <1>2, <1>3 DEF MarksInv, rcs, Once

LEMMA StartMarks ==
  ASSUME Typed, MarksInv, NEW p \in Procs, NEW j \in DOMAIN First, Start(p, j) PROVE MarksInv'
<1>1. /\ UNCHANGED <<rcs, own>> /\ Idle(p) /\ excuses \subseteq excuses'
      /\ pc'[p] \notin {"open", "write", "rename"} /\ job'[p] = j
      /\ \A q \in Procs : q # p => pc'[q] = pc[q] /\ job'[q] = job[q]
  BY DEF Start, First, Typed, IInv, ExeTypes, Placed, FileTypes
<1>2. Calm' => Calm
  BY <1>1 DEF Calm
<1>3. ASSUME Calm' PROVE Pairs' /\ AloneRemoving'
  <2> DEFINE others == {q \in Procs : ~Idle(q)}
  <2>1. /\ ~ \E q, r \in others : q # r
        /\ ~ (others # {} /\ (j = "uninstall" \/ \E q \in others : job[q] = "uninstall"))
    BY <1>3 DEF Start, Calm
  <2>2. \A q \in Procs : q # p => (Idle(q)' <=> Idle(q))
    BY <1>1 DEF Idle
  <2>3. \A q \in Procs : ~Idle(q)' => q = p \/ q \in others
    BY <2>2
  <2>4. Pairs'
    BY <2>1, <2>3 DEF Pairs
  <2>5. AloneRemoving'
    BY <1>1, <2>1, <2>3 DEF AloneRemoving
  <2> QED
    BY <2>4, <2>5
<1>4. ~Editing(p)
  BY <1>1 DEF Idle, Editing
<1> QED
  BY <1>1, <1>2, <1>3, <1>4, NothingMarked

(* Who goes on, or ends, brings nobody into another's way. *)
LEMMA GoesOn ==
  ASSUME MarksInv, Calm, NEW p \in Procs, ~Idle(p), UNCHANGED job,
         \A q \in Procs : q # p => pc'[q] = pc[q]
  PROVE  Pairs' /\ AloneRemoving'
<1>1. \A q \in Procs : ~Idle(q)' => ~Idle(q)
  BY DEF Idle
<1> QED
  BY <1>1 DEF MarksInv, Pairs, AloneRemoving

LEMMA ReadsMark ==
  ASSUME Typed, MarksInv, NEW p \in Procs, ReadToAppend(p) \/ ReadToStrip(p) PROVE MarksInv'
<1> SUFFICES ASSUME Calm' PROVE MarksInv'
  BY DEF MarksInv
<1>1. /\ pc[p] = "read" /\ pc'[p] = "open"
      /\ \A q \in Procs : q # p => pc'[q] = pc[q] /\ text'[q] = text[q]
      /\ UNCHANGED <<rc, tmp, at, job>> /\ excuses \subseteq excuses'
  BY DEF ReadToAppend, ReadToStrip, Step, Typed, IInv, ExeTypes, LineTypes, rcs
<1>2. Calm /\ ~Idle(p)
  BY <1>1 DEF Calm, Idle
<1>3. Pairs' /\ AloneRemoving'
  BY <1>1, <1>2, GoesOn
<1>4. Once(rc, Marks) /\ (tmp # None => Once(tmp, Marks)) /\ rc \in Seq(Lines)
  BY <1>2 DEF MarksInv, Typed, LineTypes
<1>5. TmpPromising => TmpPromising'
  BY <1>1 DEF TmpPromising, Mentions
<1>6. \A q \in Procs : q # p => Marked(q)'
  BY <1>1, <1>2, <1>5 DEF MarksInv, Marked, ToTmp, ToRc, ToRename, Mentions, Once, AppendBlock
<1>7. CASE ReadToAppend(p)
  <2>1. job[p] = "init" /\ ~Mentions(rc) /\ text'[p] = AppendBlock(rc)
    BY <1>7 DEF ReadToAppend, Typed, LineTypes
  <2>2. Once(text'[p], Marks) /\ Mentions(text'[p])
    BY <1>4, <2>1, AppendedIs
  <2>3. Marked(p)'
    BY <1>1, <2>1, <2>2 DEF Marked, ToTmp, ToRc, ToRename, Once, Mentions, AppendBlock
  <2>4. \A q \in Procs : q # p /\ ToTmp(q) => text[q] = AppendBlock(rc)
    BY <1>2, <2>1 DEF MarksInv, Marked
  <2>5. \A q, r \in Procs : q # r => Agreeing(q, r)'
    BY <1>1, <1>2, <2>1, <2>4 DEF MarksInv, Agreeing, ToTmp, ToRc
  <2> QED
    BY <1>1, <1>3, <1>4, <1>6, <2>3, <2>5 DEF MarksInv, Once
<1>8. CASE ReadToStrip(p)
  <2>1. job[p] = "uninstall" /\ text'[p] = Strip(rc)
    BY <1>8 DEF ReadToStrip, Typed, LineTypes
  <2>2. Once(text'[p], Marks)
    BY <1>4, <2>1, StrippedIs
  <2>3. Marked(p)'
    BY <1>1, <2>1, <2>2 DEF Marked, ToTmp, ToRc, ToRename, Once
  <2>4. \A q, r \in Procs : q # r => Agreeing(q, r)'
    BY <1>1, <1>2, <2>1 DEF MarksInv, Agreeing, ToTmp, ToRc
  <2> QED
    BY <1>1, <1>3, <1>4, <1>6, <2>3, <2>4 DEF MarksInv, Once
<1> QED
  BY <1>7, <1>8

LEMMA TruncateMarks ==
  ASSUME Typed, MarksInv, NEW p \in Procs, Truncate(p) PROVE MarksInv'
<1> SUFFICES ASSUME Calm' PROVE MarksInv'
  BY DEF MarksInv
<1>1. /\ pc[p] = "open" /\ pc'[p] = "write" /\ at'[p] = Target(p)
      /\ \A q \in Procs : q # p => pc'[q] = pc[q] /\ at'[q] = at[q]
      /\ UNCHANGED <<text, job, excuses>>
      /\ IF Target(p) = "tmp" THEN tmp' = <<>> /\ rc' = rc ELSE rc' = <<>> /\ tmp' = tmp
  BY DEF Truncate, Step, Typed, IInv, ExeTypes, LineTypes
<1>2. Calm /\ ~Idle(p)
  BY <1>1 DEF Calm, Idle
<1>3. Pairs' /\ AloneRemoving'
  BY <1>1, <1>2, GoesOn
<1>4. /\ Marked(p) /\ \A q \in Procs : q # p => Marked(q) /\ Agreeing(p, q)
      /\ Once(rc, Marks) /\ (tmp # None => Once(tmp, Marks)) /\ Once(<<>>, Marks)
  BY <1>2 DEF MarksInv, Once
<1>5. CASE job[p] = "init"
  <2>1. Target(p) = "tmp" /\ tmp' = <<>> /\ rc' = rc /\ at'[p] = "tmp"
    BY <1>1, <1>5 DEF Target
  <2>2. TmpPromising'
    BY <1>1, <2>1 DEF TmpPromising
  <2>3. \A q \in Procs : Marked(q)'
    BY <1>1, <1>4, <1>5, <2>1, <2>2 DEF Marked, ToTmp, ToRc, ToRename, Once, Mentions, AppendBlock
  <2>4. \A q, r \in Procs : q # r => Agreeing(q, r)'
    BY <1>1, <1>2, <1>5, <2>1 DEF MarksInv, Agreeing, ToTmp, ToRc
  <2> QED
    BY <1>3, <1>4, <2>1, <2>3, <2>4 DEF MarksInv, Once
<1>6. CASE job[p] # "init"
  <2>1. job[p] = "uninstall" /\ Target(p) = "rc" /\ tmp' = tmp /\ rc' = <<>> /\ at'[p] = "rc"
    BY <1>1, <1>6 DEF Target, Typed, Placed, AtPlace, Idle
  <2>2. \A q \in Procs : q # p => pc'[q] \notin {"open", "write", "rename"}
    BY <1>1, <1>2, <2>1 DEF MarksInv, AloneRemoving, Idle
  <2>3. \A q \in Procs : Marked(q)'
    BY <1>1, <1>4, <2>1, <2>2 DEF Marked, ToTmp, ToRc, ToRename, Once
  <2>4. \A q, r \in Procs : q # r => Agreeing(q, r)'
    BY <1>1, <2>2 DEF Agreeing, ToTmp, ToRc
  <2> QED
    BY <1>3, <1>4, <2>1, <2>3, <2>4 DEF MarksInv, Once
<1> QED
  BY <1>5, <1>6

LEMMA WriteMarks ==
  ASSUME Typed, MarksInv, NEW p \in Procs, Write(p) PROVE MarksInv'
<1> SUFFICES ASSUME Calm' PROVE MarksInv'
  BY DEF MarksInv
<1>1. /\ pc[p] = "write" /\ pc'[p] = (IF job[p] = "init" THEN "rename" ELSE "done")
      /\ at'[p] = "gone" /\ text'[p] = <<>>
      /\ \A q \in Procs : q # p => pc'[q] = pc[q] /\ at'[q] = at[q] /\ text'[q] = text[q]
      /\ UNCHANGED <<job, excuses>>
      /\ tmp' = (IF at[p] = "tmp" THEN Over(text[p], tmp) ELSE tmp)
      /\ rc' = (IF at[p] = "rc" THEN Over(text[p], rc) ELSE rc)
  BY DEF Write, Step, Typed, IInv, ExeTypes, LineTypes
<1>2. Calm /\ ~Idle(p)
  BY <1>1 DEF Calm, Idle
<1>3. Pairs' /\ AloneRemoving'
  BY <1>1, <1>2, GoesOn
<1>4. /\ Marked(p) /\ \A q \in Procs : q # p => Marked(q) /\ Agreeing(p, q)
      /\ \A q, r \in Procs : q # r => Agreeing(q, r)
      /\ Once(rc, Marks) /\ (tmp # None => Once(tmp, Marks)) /\ AloneRemoving
  BY <1>2 DEF MarksInv
<1>5. text[p] \in Seq(Lines) /\ Once(text[p], Marks) /\ (job[p] = "init" => Mentions(text[p]))
  BY <1>1, <1>4 DEF Marked, Typed, LineTypes
<1>6. \A q, r \in Procs : q # r => Agreeing(q, r)'
  BY <1>1, <1>4 DEF Agreeing, ToTmp, ToRc
<1>7. CASE at[p] = "tmp"
  <2>1. job[p] = "init" /\ tmp' = text[p] /\ rc' = rc
    <3>1. job[p] = "init" /\ tmp \in {<<>>, text[p]}
      BY <1>1, <1>4, <1>7 DEF Marked
    <3>2. Over(text[p], tmp) = text[p]
      BY <1>5, <3>1, OverAlone
    <3> QED
      BY <1>1, <1>7, <3>1, <3>2
  <2>2. Mentions(tmp')
    BY <1>5, <2>1
  <2>3. TmpPromising'
    BY <2>2 DEF TmpPromising, Mentions
  <2>4. \A q \in Procs : q # p /\ pc[q] = "write" /\ at[q] = "tmp" => text[q] = tmp'
    BY <1>1, <1>4, <1>7, <2>1 DEF Marked, Agreeing, ToTmp
  <2>5. ASSUME NEW q \in Procs PROVE Marked(q)'
    <3>1. CASE q = p
      BY <1>1, <2>1, <2>3, <3>1 DEF Marked, ToTmp, ToRc, ToRename
    <3>2. CASE q # p
      BY <1>1, <1>4, <2>1, <2>3, <2>4, <3>2 DEF Marked, ToTmp, ToRc, ToRename, Once, Mentions, AppendBlock
    <3> QED
      BY <3>1, <3>2
  <2> QED
    BY <1>3, <1>4, <1>5, <1>6, <2>1, <2>5 DEF MarksInv, Once
<1>8. CASE at[p] # "tmp"
  <2>1. tmp' = tmp /\ (TmpPromising => TmpPromising')
    BY <1>1, <1>8 DEF TmpPromising, Mentions
  <2>2. job[p] = "init" => TmpPromising'
    BY <1>1, <1>4, <1>8, <2>1 DEF Marked, ToRename
  <2>3. CASE at[p] # "rc"
    <3>1. rc' = rc
      BY <1>1, <2>3
    <3>2. ASSUME NEW q \in Procs PROVE Marked(q)'
      <4>1. CASE q = p
        BY <1>1, <2>2, <4>1 DEF Marked, ToTmp, ToRc, ToRename
      <4>2. CASE q # p
        BY <1>1, <1>4, <2>1, <3>1, <4>2 DEF Marked, ToTmp, ToRc, ToRename, Once, Mentions, AppendBlock
      <4> QED
        BY <4>1, <4>2
    <3> QED
      BY <1>3, <1>4, <1>6, <2>1, <3>1, <3>2 DEF MarksInv, Once
  <2>4. CASE at[p] = "rc"
    <3>1. rc' = text[p]
      <4>1. rc \in {<<>>, text[p]}
        BY <1>1, <1>4, <2>4 DEF Marked, ToRc
      <4> QED
        BY <1>1, <1>5, <2>4, <4>1, OverAlone
    <3>2. \A q \in Procs : q # p => ~ToRc(q)
      BY <1>1, <1>4, <2>4 DEF Agreeing, ToRc
    <3>3. CASE job[p] = "init"
      <4>1. Mentions(rc')
        BY <1>5, <3>1, <3>3
      <4>2. \A q \in Procs : Marked(q)'
        BY <1>1, <1>4, <2>1, <2>2, <3>2, <4>1 DEF Marked, ToTmp, ToRc, ToRename, Once, Mentions
      <4> QED
        BY <1>3, <1>4, <1>5, <1>6, <2>1, <3>1, <4>2 DEF MarksInv, Once
    <3>4. CASE job[p] # "init"
      <4>1. job[p] = "uninstall"
        BY <1>1, <3>4 DEF Typed, Placed, AtPlace, Idle
      <4>2. \A q \in Procs : q # p => Idle(q)
        BY <1>2, <1>4, <4>1 DEF AloneRemoving
      <4>3. \A q \in Procs : Marked(q)'
        BY <1>1, <4>1, <4>2 DEF Marked, ToTmp, ToRc, ToRename, Idle
      <4> QED
        BY <1>3, <1>4, <1>5, <1>6, <2>1, <3>1, <4>3 DEF MarksInv, Once
    <3> QED
      BY <3>3, <3>4
  <2> QED
    BY <2>3, <2>4
<1> QED
  BY <1>7, <1>8

LEMMA RenameMarks ==
  ASSUME Typed, MarksInv, NEW p \in Procs, Rename(p) PROVE MarksInv'
<1> SUFFICES ASSUME Calm' PROVE MarksInv'
  BY DEF MarksInv
<1>1. /\ pc[p] = "rename" /\ pc'[p] \in {"failed", "done"} /\ tmp' = None
      /\ \A q \in Procs : q # p => pc'[q] = pc[q]
      /\ UNCHANGED <<text, job, excuses>>
      /\ IF tmp = None THEN UNCHANGED <<rc, at>>
         ELSE /\ rc' = tmp
              /\ \A q \in Procs : at'[q] = IF at[q] = "tmp" THEN "rc" ELSE "gone"
  BY DEF Rename, Step, Typed, IInv, ExeTypes
<1>2. Calm /\ ~Idle(p)
  BY <1>1 DEF Calm, Idle
<1>3. Pairs' /\ AloneRemoving'
  BY <1>1, <1>2, GoesOn
<1>4. /\ \A q \in Procs : Marked(q) /\ \A r \in Procs : q # r => Agreeing(q, r)
      /\ Once(rc, Marks) /\ (tmp # None => Once(tmp, Marks)) /\ AloneRemoving /\ Pairs
  BY <1>2 DEF MarksInv
<1>5. TmpPromising'
  BY <1>1 DEF TmpPromising
<1>6. CASE tmp = None
  <2>1. ASSUME NEW q \in Procs PROVE Marked(q)'
    <3>1. CASE q = p
      BY <1>1, <3>1 DEF Marked, ToTmp, ToRc, ToRename
    <3>2. CASE q # p
      <4>1. pc'[q] = pc[q] /\ UNCHANGED <<rc, tmp, at, text, job>>
        BY <1>1, <1>6, <3>2
      <4>2. Marked(q)
        BY <1>4
      <4> QED
        BY <1>5, <4>1, <4>2 DEF Marked, ToTmp, ToRc, ToRename, Once, Mentions, AppendBlock
    <3> QED
      BY <3>1, <3>2
  <2>2. \A q, r \in Procs : q # r => Agreeing(q, r)'
    BY <1>1, <1>4, <1>6 DEF Agreeing, ToTmp, ToRc
  <2> QED
    BY <1>1, <1>3, <1>4, <1>6, <2>1, <2>2 DEF MarksInv, Once
<1>7. CASE tmp # None
  <2>1. rc' = tmp /\ \A q \in Procs : at'[q] = IF at[q] = "tmp" THEN "rc" ELSE "gone"
    BY <1>1, <1>7
  <2>2. \A q, r \in Procs : q # p /\ r # p /\ ~Idle(q) /\ ~Idle(r) => q = r
    BY <1>2, <1>4 DEF Pairs
  <2>3. job[p] = "init" /\ (Mentions(tmp) \/ \E q \in Procs : pc[q] = "write" /\ at[q] = "tmp")
    BY <1>1, <1>4, <1>7 DEF Marked, ToRename, TmpPromising, Typed, Placed, AtPlace, Idle
  <2>4. \A q \in Procs : q # p /\ ~Idle(q) => job[q] # "uninstall"
    BY <1>2, <1>4 DEF AloneRemoving
  <2>5. \A q \in Procs : q # p /\ pc[q] = "open" => Mentions(rc')
    BY <1>1, <2>1, <2>2, <2>3 DEF Idle, Mentions
  <2>6. \A q \in Procs : q # p => Marked(q)'
    BY <1>1, <1>4, <1>5, <2>1, <2>4, <2>5 DEF Marked, ToTmp, ToRc, ToRename, Once, Mentions, Idle
  <2>7. Marked(p)'
    BY <1>1 DEF Marked, ToTmp, ToRc, ToRename
  <2>8. \A q, r \in Procs : q # r => Agreeing(q, r)'
    BY <1>1, <1>4, <2>1, <2>2 DEF Agreeing, ToTmp, ToRc, Idle
  <2> QED
    BY <1>1, <1>3, <1>4, <1>7, <2>1, <2>6, <2>7, <2>8 DEF MarksInv, Once
<1> QED
  BY <1>6, <1>7

(* Who dies while it writes, beside another who edits, has left .zshrc.tmp empty or cut
   short, and the excuse. *)
LEMMA CrashMarks ==
  ASSUME Typed, MarksInv, NEW p \in Procs, Crash(p) PROVE MarksInv'
<1> SUFFICES ASSUME Calm' PROVE MarksInv'
  BY DEF MarksInv
<1>1. /\ ~Idle(p) /\ pc'[p] = "dead" /\ \A q \in Procs : q # p => pc'[q] = pc[q]
      /\ \A q \in Procs : q # p => at'[q] = at[q] /\ text'[q] = text[q]
      /\ UNCHANGED <<rc, tmp, job>> /\ excuses \subseteq excuses'
      /\ ~(pc[p] = "write" /\ \E q \in Procs \ {p} : Editing(q))
  BY DEF Crash, Calm, Typed, IInv, ExeTypes, LineTypes, rcs
<1>2. Calm
  BY <1>1 DEF Calm
<1>3. Pairs' /\ AloneRemoving'
  BY <1>1, <1>2, GoesOn
<1>4. /\ \A q \in Procs : Marked(q) /\ \A r \in Procs : q # r => Agreeing(q, r)
      /\ Once(rc, Marks) /\ (tmp # None => Once(tmp, Marks))
  BY <1>2 DEF MarksInv
<1>5. ASSUME NEW q \in Procs, q # p PROVE Marked(q)'
  <2>1. ToRename(q) /\ TmpPromising => TmpPromising'
    BY <1>1, <1>5 DEF ToRename, TmpPromising, Mentions, Editing
  <2> QED
    BY <1>1, <1>4, <1>5, <2>1 DEF Marked, ToTmp, ToRc, ToRename, Once, Mentions, AppendBlock
<1>6. Marked(p)'
  BY <1>1 DEF Marked, ToTmp, ToRc, ToRename
<1>7. \A q, r \in Procs : q # r => Agreeing(q, r)'
  BY <1>1, <1>4 DEF Agreeing, ToTmp, ToRc
<1> QED
  BY <1>1, <1>3, <1>4, <1>5, <1>6, <1>7 DEF MarksInv, Once

LEMMA NextMarks == Typed /\ MarksInv /\ [Next]_vars => MarksInv'
<1> SUFFICES ASSUME Typed, MarksInv, [Next]_vars PROVE MarksInv'
  OBVIOUS
<1>1. ASSUME UNCHANGED <<rcs, own, pc, job, excuses>> PROVE MarksInv'
  BY <1>1, NothingMarked DEF Calm, MarksInv, Pairs, AloneRemoving, Idle
<1>2. CASE UNCHANGED vars
  BY <1>1, <1>2 DEF vars
<1>3. CASE Publish
  BY <1>1, <1>3 DEF Publish
<1>4. ASSUME NEW p \in Procs,
             /\ UNCHANGED <<rcs, own, job, excuses>> /\ ~Idle(p) /\ ~Editing(p)
             /\ pc'[p] \notin {"open", "write", "rename"} /\ \A q \in Procs : q # p => pc'[q] = pc[q]
      PROVE  MarksInv'
  <2>1. Calm' => Calm /\ Pairs' /\ AloneRemoving'
    BY <1>4, GoesOn DEF Calm
  <2> QED
    BY <1>4, <2>1, NothingMarked
<1>5. CASE UserAppends \/ UserComments \/ UserUncomments \/ UserDeletes
  <2> SUFFICES ASSUME Calm' PROVE MarksInv'
    BY DEF MarksInv
  <2>1. /\ Once(rc, Marks) => Once(rc', Marks)
        /\ UNCHANGED <<tmp, own, pc, job>> /\ Calm /\ \A p \in Procs : ~Editing(p)
    BY <1>5, EditsAre DEF Calm, Typed
  <2>2. Pairs' /\ AloneRemoving'
    BY <2>1 DEF MarksInv, Pairs, AloneRemoving, Idle
  <2>3. \A q \in Procs : Marked(q)' /\ \A r \in Procs : q # r => Agreeing(q, r)'
    BY <2>1 DEF Editing, Marked, Agreeing, ToTmp, ToRc, ToRename
  <2> QED
    BY <2>1, <2>2, <2>3 DEF MarksInv, Once
<1>6. CASE Next
  BY <1>3, <1>4, <1>5, <1>6, BesideIs, StartMarks, ReadsMark, TruncateMarks, WriteMarks, RenameMarks, CrashMarks
  DEF Next
<1> QED
  BY <1>2, <1>6

(* What commands and user do to .zshrc leaves one source line in it, even when two inits
   run at once. *)
THEOREM MarksTheorem == Spec => []MarksInv
  BY InitMarks, NextMarks, TypedInvariant, PTL DEF Spec
-----------------------------------------------------------------------------
(* Commands that do not overlap: how far the one that runs has come. *)
Prepared == {"config", "daemon", "ensure_again", "script_again", "spawn", "read", "open", "write", "rename"}

(* The script is this release's from the first writing on, and the user's .zshrc will
   source it. *)
DoneSoFar(p) ==
  /\ pc[p] \in {"script", "script_again"} => script = Broken
  /\ pc[p] = "spawn" => script = ver[p]
  /\ job[p] = "init" =>
       /\ pc[p] \in Prepared \ {"script_again"} => script = ver[p]
       /\ pc[p] \in Prepared \ {"config"} => config
       /\ pc[p] \in {"open", "write"} => Sourced(text[p])
       /\ pc[p] = "write" => at[p] = "tmp"
       /\ pc[p] = "rename" => tmp = None \/ Sourced(tmp)
RemovedSoFar(p) ==
  job[p] = "uninstall" =>
    /\ pc[p] \in {"remove_script", "remove_config", "read", "open", "write"} => "db" \notin data
    /\ pc[p] \in {"remove_config", "read", "open", "write"} => script = None
    /\ pc[p] \in {"read", "open", "write"} => ~config
    /\ pc[p] \in {"open", "write"} => ~Sourced(text[p])
    /\ pc[p] = "write" => ~Sourced(rc)
UpdatedSoFar(p) ==
  job[p] = "update" =>
    /\ pc[p] = "latest" => exe = ver[p]
    /\ pc[p] \in {"sum", "download", "verify", "replace", "swap", "restart", "ensure_again", "script_again", "spawn"}
         => told[p] \in Releases /\ told[p] <= release
    /\ pc[p] \in {"download", "verify"} => want[p] \in Releases /\ want[p] >= told[p]
    /\ pc[p] \in {"replace", "swap"} => got[p] \in Releases /\ got[p] >= told[p]
    /\ pc[p] \in {"restart", "ensure_again", "script_again", "spawn"} => exe \in Releases /\ exe >= told[p]
    /\ pc[p] \in {"ensure_again", "script_again", "spawn"} => daemon = None
SoFar(p) == ~Idle(p) => DoneSoFar(p) /\ RemovedSoFar(p) /\ UpdatedSoFar(p)

(* What CommandsDeliver says of a command that ends. *)
Delivered(p) ==
  CASE job[p] = "init" -> script' = ver[p] /\ config' /\ (DoctorContent' \/ "off" \in ToSet(rc'))
    [] job[p] = "uninstall" -> ~Sourced(rc') /\ script' = None /\ ~config' /\ "db" \notin data'
    [] job[p] = "update" -> /\ exe' \in Releases /\ exe' >= told[p]'
                            /\ pc[p] # "latest" => daemon' \in {None, exe'}
    [] OTHER -> script' = ver[p]

LEMMA StartSoFar ==
  ASSUME Typed, NEW p \in Procs, NEW j \in DOMAIN First, Start(p, j) PROVE SoFar(p)'
<1>1. /\ pc'[p] = First[j] /\ job'[p] = j /\ ver'[p] = exe /\ exe' = exe /\ exe \in Releases
  BY DEF Start, Typed, IInv, ExeTypes, Placed, FileTypes, exes
<1>2. j \in {"init", "start", "uninstall", "update"}
  BY DEF First
<1> QED
  BY <1>1, <1>2 DEF SoFar, DoneSoFar, RemovedSoFar, UpdatedSoFar, Prepared, First

LEMMA ReleasesAre == \A r, q \in Releases : r \in Nat /\ r # None /\ r # Broken /\ r >= r
<1>1. Releases \subseteq Nat
  BY InstallAssumption DEF Releases
<1>2. None \notin Releases /\ Broken \notin Releases
  BY InstallAssumption
<1> QED
  BY <1>1, <1>2

LEMMA FilesSoFar ==
  ASSUME Typed, NEW p \in Procs, SoFar(p),
         \/ EnsureConfig(p) \/ EnsureDaemon(p) \/ Spawn(p) \/ Stop(p) \/ RemoveData(p) \/ RemoveScript(p)
         \/ RemoveConfig(p)
  PROVE  SoFar(p)' /\ (pc'[p] = "done" => Delivered(p))
<1> USE DEF SoFar, DoneSoFar, RemovedSoFar, UpdatedSoFar, Prepared, Delivered, Step, Idle, Typed, IInv, ExeTypes, Placed, FileTypes, AtPlace, LineTypes, rcs, files, exes, own, fetch, world
<1>1. CASE EnsureConfig(p)
  BY <1>1, ReleasesAre, InstallAssumption DEF EnsureConfig
<1>2. CASE EnsureDaemon(p)
  BY <1>2, ReleasesAre, InstallAssumption DEF EnsureDaemon
<1>3. CASE Spawn(p)
  BY <1>3, ReleasesAre, InstallAssumption DEF Spawn
<1>4. CASE Stop(p)
  BY <1>4, ReleasesAre, InstallAssumption DEF Stop
<1>5. CASE RemoveData(p)
  BY <1>5, ReleasesAre, InstallAssumption DEF RemoveData
<1>6. CASE RemoveScript(p)
  BY <1>6, ReleasesAre, InstallAssumption DEF RemoveScript
<1>7. CASE RemoveConfig(p)
  BY <1>7, ReleasesAre, InstallAssumption DEF RemoveConfig
<1> QED
  BY <1>1, <1>2, <1>3, <1>4, <1>5, <1>6, <1>7

LEMMA UpdatesSoFar ==
  ASSUME Typed, NEW p \in Procs, SoFar(p),
         \/ FetchLatestVersion(p) \/ FetchChecksum(p) \/ DownloadAsset(p) \/ VerifyChecksum(p) \/ Replace(p) \/ MoveAside(p)
         \/ MoveAsideFails(p) \/ Swap(p) \/ SwapFails(p) \/ UpdateFails(p) \/ Restart(p)
  PROVE  SoFar(p)' /\ (pc'[p] = "done" => Delivered(p))
<1> USE DEF SoFar, DoneSoFar, RemovedSoFar, UpdatedSoFar, Prepared, Delivered, Step, Idle, Typed, IInv, ExeTypes, Placed, FileTypes, AtPlace, LineTypes, rcs, files, exes, own, fetch, world
<1>1. CASE FetchLatestVersion(p)
  <2>1. /\ pc[p] = "latest" /\ job[p] = "update" /\ exe = ver[p] /\ release \in Releases
        /\ told'[p] = release /\ pc'[p] = (IF release = ver[p] THEN "done" ELSE "sum")
        /\ UNCHANGED <<exe, job, release>>
    BY <1>1 DEF FetchLatestVersion
  <2>2. release \in Nat /\ release >= release
    BY <2>1, ReleasesAre
  <2> QED
    BY <2>1, <2>2
<1>2. CASE FetchChecksum(p)
  BY <1>2, ReleasesAre, InstallAssumption DEF FetchChecksum
<1>3. CASE DownloadAsset(p)
  BY <1>3, ReleasesAre, InstallAssumption DEF DownloadAsset
<1>4. CASE VerifyChecksum(p)
  BY <1>4, ReleasesAre, InstallAssumption DEF VerifyChecksum, Verified, Cleaned
<1>5. CASE Replace(p)
  BY <1>5, ReleasesAre, InstallAssumption DEF Replace
<1>6. CASE MoveAside(p)
  BY <1>6, ReleasesAre, InstallAssumption DEF MoveAside
<1>7. CASE MoveAsideFails(p)
  BY <1>7, ReleasesAre, InstallAssumption DEF MoveAsideFails
<1>8. CASE Swap(p)
  BY <1>8, ReleasesAre, InstallAssumption DEF Swap
<1>9. CASE SwapFails(p)
  BY <1>9, ReleasesAre, InstallAssumption DEF SwapFails
<1>10. CASE UpdateFails(p)
  BY <1>10, ReleasesAre, InstallAssumption DEF UpdateFails
<1>11. CASE Restart(p)
  BY <1>11, ReleasesAre, InstallAssumption DEF Restart, Stopped
<1> QED
  BY <1>1, <1>2, <1>3, <1>4, <1>5, <1>6, <1>7, <1>8, <1>9, <1>10, <1>11

LEMMA ScriptSoFar ==
  ASSUME Typed, NEW p \in Procs, SoFar(p), NEW phase \in DOMAIN Torn,
         ScriptCurrent(p, phase) \/ TruncateScript(p, phase) \/ WriteScript(p, phase)
  PROVE  SoFar(p)' /\ pc'[p] # "done"
<1> USE DEF SoFar, DoneSoFar, RemovedSoFar, UpdatedSoFar, Prepared, Step, Idle,
            Typed, IInv, ExeTypes, Placed, FileTypes, AtPlace, LineTypes, rcs, files, exes, own, fetch, world
<1>1. phase \in {"ensure", "ensure_again"}
  BY DEF Torn
<1>2. CASE ScriptCurrent(p, phase)
  BY <1>1, <1>2, ReleasesAre DEF ScriptCurrent, AfterEnsure
<1>3. CASE TruncateScript(p, phase)
  <2>1. /\ pc[p] = phase /\ pc'[p] = Torn[phase] /\ Torn[phase] \in {"script", "script_again"}
        /\ script' = Broken /\ config' = config /\ data' = data /\ daemon' = daemon
        /\ exe' = exe /\ release' = release /\ job' = job /\ ver' = ver /\ told' = told
        /\ want' = want /\ got' = got /\ rc' = rc /\ tmp' = tmp /\ text' = text /\ at' = at
    BY <1>1, <1>3 DEF TruncateScript, Torn
  <2>2. job[p] # "uninstall"
    BY <1>1, <2>1
  <2> QED
    BY <1>1, <2>1, <2>2, ReleasesAre DEF Torn
<1>4. CASE WriteScript(p, phase)
  BY <1>1, <1>4, ReleasesAre, InstallAssumption DEF WriteScript, AfterEnsure, Torn
<1> QED
  BY <1>2, <1>3, <1>4

LEMMA LinesSoFar ==
  ASSUME Typed, NEW p \in Procs, SoFar(p),
         \/ ReadToAppend(p) \/ ReadToStrip(p) \/ Truncate(p) \/ Write(p) \/ Rename(p) \/ AlreadySourced(p)
         \/ NothingToRemove(p)
  PROVE  SoFar(p)' /\ (pc'[p] = "done" => Delivered(p))
<1> USE DEF SoFar, DoneSoFar, RemovedSoFar, UpdatedSoFar, Prepared, Delivered, Step, Idle, Typed, IInv, ExeTypes, Placed, FileTypes, AtPlace, LineTypes, rcs, files, exes, own, fetch, world
<1>a. /\ Sourced(AppendBlock(rc)) /\ ~Sourced(Strip(rc)) /\ ~Sourced(<<>>)
      /\ Mentions(rc) => Sourced(rc) \/ "off" \in ToSet(rc)
      /\ ~HasHunch(rc) => ~Sourced(rc)
  <2>1. rc \in Seq(Lines)
    OBVIOUS
  <2>2. ~Sourced(<<>>)
    BY DEF Sourced, ToSet
  <2> QED
    BY <2>1, <2>2, AppendedIs, StrippedIs DEF Sourced, Mentions, HasHunch
<1>b. /\ at[p] = "tmp" /\ Sourced(text[p]) => Sourced(Over(text[p], tmp))
      /\ ~Sourced(text[p]) /\ ~Sourced(rc) => ~Sourced(Over(text[p], rc))
  BY OverIs DEF Sourced
<1>1. CASE ReadToAppend(p)
  BY <1>1, <1>a, <1>b, ReleasesAre, NoLines DEF ReadToAppend
<1>2. CASE ReadToStrip(p)
  BY <1>2, <1>a, <1>b, ReleasesAre, NoLines DEF ReadToStrip
<1>3. CASE Truncate(p)
  BY <1>3, <1>a, <1>b, ReleasesAre, NoLines DEF Truncate, Target
<1>4. CASE Write(p)
  BY <1>4, <1>a, <1>b, ReleasesAre, NoLines DEF Write
<1>5. CASE Rename(p)
  <2>1. /\ pc[p] = "rename" /\ pc'[p] = IF tmp = None THEN "failed" ELSE "done"
        /\ script' = script /\ config' = config /\ daemon' = daemon /\ job' = job
        /\ tmp # None => rc' = tmp
    BY <1>5 DEF Rename
  <2>2. job[p] = "init"
    BY <2>1
  <2> QED
    BY <1>5, <2>1, <2>2, <1>a, <1>b, ReleasesAre, NoLines DEF Rename, DoctorContent, Sourced
<1>6. CASE AlreadySourced(p)
  BY <1>6, <1>a, <1>b, ReleasesAre, NoLines DEF AlreadySourced, DoctorContent
<1>7. CASE NothingToRemove(p)
  BY <1>7, <1>a, <1>b, ReleasesAre, NoLines DEF NothingToRemove
<1> QED
  BY <1>1, <1>2, <1>3, <1>4, <1>5, <1>6, <1>7

-----------------------------------------------------------------------------
(* A download is there while its process verifies and installs it. *)
Downloading == \A p \in downloads : pc[p] \in {"verify", "replace", "swap"}

LEMMA DownloadsOf ==
  ASSUME Typed, Downloading, NEW p \in Procs,
         \/ FetchLatestVersion(p) \/ FetchChecksum(p) \/ DownloadAsset(p) \/ VerifyChecksum(p)
         \/ Replace(p) \/ MoveAside(p) \/ MoveAsideFails(p) \/ Swap(p) \/ SwapFails(p) \/ UpdateFails(p)
         \/ Restart(p)
  PROVE  Downloading'
<1> USE DEF Downloading, Step, Typed, IInv, ExeTypes, Placed, FileTypes, exes, Cleaned
<1>1. CASE FetchLatestVersion(p) \/ FetchChecksum(p) \/ DownloadAsset(p) \/ VerifyChecksum(p)
  BY <1>1 DEF FetchLatestVersion, FetchChecksum, DownloadAsset, VerifyChecksum
<1>2. CASE Replace(p) \/ MoveAside(p) \/ MoveAsideFails(p)
  BY <1>2 DEF Replace, MoveAside, MoveAsideFails
<1>3. CASE Swap(p) \/ SwapFails(p)
  BY <1>3 DEF Swap, SwapFails
<1>4. CASE UpdateFails(p) \/ Restart(p)
  BY <1>4 DEF UpdateFails, Restart
<1> QED
  BY <1>1, <1>2, <1>3, <1>4

LEMMA DownloadsElsewhere ==
  ASSUME Typed, Downloading, NEW p \in Procs,
         \/ \E phase \in DOMAIN Torn :
              ScriptCurrent(p, phase) \/ TruncateScript(p, phase) \/ WriteScript(p, phase)
         \/ EnsureConfig(p) \/ EnsureDaemon(p) \/ Spawn(p)
         \/ AlreadySourced(p) \/ ReadToAppend(p) \/ NothingToRemove(p) \/ ReadToStrip(p)
         \/ Truncate(p) \/ Write(p) \/ Rename(p)
         \/ Stop(p) \/ RemoveData(p) \/ RemoveScript(p) \/ RemoveConfig(p)
  PROVE  Downloading'
<1>1. PICK from \in {"ensure", "script", "config", "daemon", "ensure_again", "script_again", "spawn",
                     "read", "open", "write", "rename",
                     "stop", "remove_data", "remove_script", "remove_config"} : pc[p] = from
  BY DEF ScriptCurrent, TruncateScript, WriteScript, Torn, EnsureConfig, EnsureDaemon, Spawn,
         AlreadySourced, ReadToAppend, NothingToRemove, ReadToStrip, Truncate, Write, Rename,
         Stop, RemoveData, RemoveScript, RemoveConfig, Step
<1>2. downloads' = downloads
  BY DEF ScriptCurrent, TruncateScript, WriteScript, EnsureConfig, EnsureDaemon, Spawn,
         AlreadySourced, ReadToAppend, NothingToRemove, ReadToStrip, Truncate, Write, Rename,
         Stop, RemoveData, RemoveScript, RemoveConfig, exes
<1>3. \A q \in Procs : q # p => pc'[q] = pc[q]
  BY DEF ScriptCurrent, TruncateScript, WriteScript, EnsureConfig, EnsureDaemon, Spawn,
         AlreadySourced, ReadToAppend, NothingToRemove, ReadToStrip, Truncate, Write, Rename,
         Stop, RemoveData, RemoveScript, RemoveConfig, Step, Typed, IInv, ExeTypes
<1> QED
  BY <1>1, <1>2, <1>3 DEF Downloading, Typed, Placed, FileTypes

LEMMA NextDownloads == Typed /\ Downloading /\ [Next]_vars => Downloading'
<1> SUFFICES ASSUME Typed, Downloading, [Next]_vars PROVE Downloading'
  OBVIOUS
<1>1. CASE UNCHANGED vars
  BY <1>1 DEF vars, exes, Downloading
<1>2. ASSUME NEW p \in Procs, NEW j \in DOMAIN First, Start(p, j) PROVE Downloading'
  BY <1>2 DEF Start, Idle, Downloading, exes, Typed, IInv, ExeTypes, Placed, FileTypes
<1>3. ASSUME NEW p \in Procs, Crash(p) PROVE Downloading'
  BY <1>3 DEF Crash, Downloading, Typed, IInv, ExeTypes, Placed, FileTypes
<1>4. CASE Publish \/ UserAppends \/ UserComments \/ UserUncomments \/ UserDeletes
  BY <1>4 DEF Publish, UserAppends, UserComments, UserUncomments, UserDeletes, Edited, exes, Downloading
<1>5. CASE Next
  BY <1>2, <1>3, <1>4, <1>5, DownloadsOf, DownloadsElsewhere DEF Next
<1> QED
  BY <1>1, <1>5

-----------------------------------------------------------------------------
AloneInv == Alone => \A p \in Procs : SoFar(p)

(* A command that goes on by itself, or ends. *)
GoesAlone(p) ==
  /\ ~Idle(p) /\ excuses \subseteq excuses' /\ \A q \in Procs : q # p => pc'[q] = pc[q]
  /\ SoFar(p) => SoFar(p)' /\ (pc'[p] = "done" => Delivered(p))

LEMMA CommandsGo ==
  ASSUME Typed, NEW p \in Procs,
         \/ \E phase \in DOMAIN Torn :
              ScriptCurrent(p, phase) \/ TruncateScript(p, phase) \/ WriteScript(p, phase)
         \/ EnsureConfig(p) \/ EnsureDaemon(p) \/ Spawn(p) \/ AlreadySourced(p) \/ NothingToRemove(p)
         \/ Stop(p) \/ RemoveData(p) \/ RemoveScript(p) \/ RemoveConfig(p)
         \/ FetchLatestVersion(p) \/ FetchChecksum(p) \/ DownloadAsset(p) \/ VerifyChecksum(p)
         \/ Replace(p) \/ MoveAside(p) \/ MoveAsideFails(p) \/ Swap(p) \/ SwapFails(p) \/ UpdateFails(p)
         \/ Restart(p) \/ ReadToAppend(p) \/ ReadToStrip(p) \/ Truncate(p) \/ Write(p) \/ Rename(p)
  PROVE  GoesAlone(p)
<1>1. ~Idle(p) /\ excuses \subseteq excuses' /\ \A q \in Procs : q # p => pc'[q] = pc[q]
  <2>1. CASE ReadToAppend(p) \/ ReadToStrip(p) \/ Truncate(p) \/ Write(p) \/ Rename(p)
    BY <2>1 DEF ReadToAppend, ReadToStrip, Truncate, Write, Rename, Step, Idle, Typed, IInv, ExeTypes
  <2> QED
    BY <2>1, BesideIs
<1>2. SoFar(p) => SoFar(p)' /\ (pc'[p] = "done" => Delivered(p))
  BY ScriptSoFar, FilesSoFar, UpdatesSoFar, LinesSoFar
<1> QED
  BY <1>1, <1>2 DEF GoesAlone

LEMMA WorldSoFar ==
  ASSUME Typed, Publish \/ UserAppends \/ UserComments \/ UserUncomments \/ UserDeletes
  PROVE  /\ UNCHANGED pc /\ excuses \subseteq excuses'
         /\ \A p \in Procs : SoFar(p) => SoFar(p)'
<1>1. CASE Publish
  <2>1. /\ UNCHANGED <<rc, tmp, script, config, data, exe, daemon, job, pc, ver, text, at, told, want, got, excuses>>
        /\ release' = release + 1
    BY <1>1 DEF Publish, rcs, files, exes, own, fetch
  <2>2. \A r \in Releases : r <= release => r <= release'
    BY <2>1, ReleasesAre DEF Typed, IInv, ExeTypes
  <2> QED
    BY <2>1, <2>2 DEF SoFar, DoneSoFar, RemovedSoFar, UpdatedSoFar, Sourced, Idle
<1>2. CASE UserAppends \/ UserComments \/ UserUncomments \/ UserDeletes
  <2>1. /\ Sourced(rc') => Sourced(rc) \/ script # None
        /\ UNCHANGED <<tmp, script, config, data, exe, daemon, job, pc, ver, text, at, told, want, got, release>>
        /\ excuses \subseteq excuses'
    BY <1>2, EditsAre DEF Typed, files, exes, own, fetch
  <2> QED
    BY <2>1 DEF SoFar, DoneSoFar, RemovedSoFar, UpdatedSoFar, Sourced, Idle
<1> QED
  BY <1>1, <1>2

LEMMA NextAlone == Typed /\ AloneInv /\ [Next]_vars => AloneInv'
<1> SUFFICES ASSUME Typed, AloneInv, [Next]_vars, Alone' PROVE \A q \in Procs : SoFar(q)'
  BY DEF AloneInv
<1>1. CASE UNCHANGED vars
  BY <1>1 DEF vars, rcs, files, exes, own, fetch, world, AloneInv, Alone,
              SoFar, DoneSoFar, RemovedSoFar, UpdatedSoFar, Sourced, Idle
<1>2. ASSUME NEW p \in Procs, NEW j \in DOMAIN First, Start(p, j) PROVE \A q \in Procs : SoFar(q)'
  <2>1. \A q \in Procs : q # p => Idle(q)'
    BY <1>2 DEF Start, Alone, Idle, Typed, IInv, ExeTypes
  <2> QED
    BY <1>2, <2>1, StartSoFar DEF SoFar
<1>3. ASSUME NEW p \in Procs, GoesAlone(p) PROVE \A q \in Procs : SoFar(q)'
  <2>1. Alone
    BY <1>3 DEF GoesAlone, Alone
  <2>2. \A q \in Procs : q # p => Idle(q)'
    BY <1>3, <2>1, OthersIdle DEF GoesAlone, Idle
  <2> QED
    BY <1>3, <2>1, <2>2 DEF GoesAlone, AloneInv, SoFar
<1>4. ASSUME NEW p \in Procs, Crash(p) PROVE \A q \in Procs : SoFar(q)'
  <2>1. /\ ~Idle(p) /\ excuses \subseteq excuses' /\ Idle(p)'
        /\ \A q \in Procs : q # p => pc'[q] = pc[q]
    BY <1>4 DEF Crash, Idle, Typed, IInv, ExeTypes
  <2>2. Alone
    BY <2>1 DEF Alone
  <2>3. \A q \in Procs : Idle(q)'
    BY <2>1, <2>2, OthersIdle DEF Idle
  <2> QED
    BY <2>3 DEF SoFar
<1>5. CASE Publish \/ UserAppends \/ UserComments \/ UserUncomments \/ UserDeletes
  BY <1>5, WorldSoFar DEF AloneInv, Alone
<1>6. CASE Next
  BY <1>2, <1>3, <1>4, <1>5, <1>6, CommandsGo DEF Next
<1> QED
  BY <1>1, <1>6

LEMMA EndDelivers ==
  ASSUME Typed, AloneInv, Downloading', [Next]_vars,
         NEW p \in Procs, ~Idle(p), pc'[p] \in {"done", "failed"}
  PROVE  p \notin downloads' /\ (Alone /\ pc'[p] = "done" => Delivered(p))
<1>1. p \notin downloads'
  BY DEF Downloading
<1>2. pc'[p] # pc[p] /\ pc'[p] # "dead"
  BY DEF Idle
<1>3. ASSUME NEW q \in Procs, NEW j \in DOMAIN First, Start(q, j) PROVE FALSE
  <2>1. q # p
    BY <1>3 DEF Start
  <2> QED
    BY <1>2, <1>3, <2>1 DEF Start, Typed, IInv, ExeTypes
<1>4. ASSUME NEW q \in Procs, Crash(q) PROVE FALSE
  BY <1>2, <1>4 DEF Crash, Typed, IInv, ExeTypes
<1>5. ASSUME NEW q \in Procs, GoesAlone(q), Alone, pc'[p] = "done" PROVE Delivered(p)
  BY <1>2, <1>5 DEF GoesAlone, AloneInv
<1>6. CASE Publish \/ UserAppends \/ UserComments \/ UserUncomments \/ UserDeletes
  BY <1>2, <1>6, WorldSoFar
<1>7. CASE UNCHANGED vars
  BY <1>2, <1>7 DEF vars
<1>8. CASE Next
  BY <1>1, <1>3, <1>4, <1>5, <1>6, <1>8, CommandsGo DEF Next
<1> QED
  BY <1>7, <1>8

(* The inductive invariant of commands that do not overlap, and of downloads. *)
THEOREM AloneTheorem == Spec => [](AloneInv /\ Downloading)
<1>1. Init => AloneInv /\ Downloading
  BY DEF Init, AloneInv, SoFar, Idle, Downloading
<1> QED
  BY <1>1, NextAlone, NextDownloads, TypedInvariant, PTL DEF Spec

(* Whatever crashed before it and whatever the user edited meanwhile, a command that ends
   has done what it is for, unless another ran beside it; and even then its download is
   gone. *)
THEOREM DeliverTheorem == Spec => CommandsDeliver
<1>1. Typed /\ AloneInv /\ Downloading' /\ [Next]_vars
      => [\A p \in Procs : ~Idle(p) /\ pc'[p] \in {"done", "failed"} =>
            /\ p \notin downloads'
            /\ "together" \notin excuses /\ pc'[p] = "done" =>
                 CASE job[p] = "init" -> script' = ver[p] /\ config' /\ (DoctorContent' \/ "off" \in ToSet(rc'))
                   [] job[p] = "uninstall" -> ~Sourced(rc') /\ script' = None /\ ~config' /\ "db" \notin data'
                   [] job[p] = "update" -> /\ exe' \in Releases /\ exe' >= told[p]'
                                           /\ pc[p] # "latest" => daemon' \in {None, exe'}
                   [] OTHER -> script' = ver[p]]_vars
  BY EndDelivers DEF Delivered, Alone
<1> QED
  BY <1>1, AloneTheorem, TypedInvariant, PTL DEF Spec, CommandsDeliver
-----------------------------------------------------------------------------
(* Until commands overlap, or an uninstall dies on its way, a .zshrc that sources the
   script has one, but for an uninstall that runs and has removed it. *)
PastScript(p) ==
  job[p] = "uninstall" /\ ~Idle(p) /\ pc[p] \notin {"stop", "remove_data", "remove_script"}
Present(p) == Sourced(rc) => script # None \/ PastScript(p)
PresentInv ==
  Alone /\ "half" \notin excuses =>
    (Sourced(rc) => script # None \/ \E p \in Procs : PastScript(p))

LEMMA ScriptPresent ==
  ASSUME Typed, NEW p \in Procs, SoFar(p), Present(p), NEW phase \in DOMAIN Torn,
         ScriptCurrent(p, phase) \/ TruncateScript(p, phase) \/ WriteScript(p, phase)
  PROVE  Present(p)'
<1> USE DEF Present, PastScript, SoFar, DoneSoFar, Step, Idle, Sourced, Typed, IInv, ExeTypes, Placed, FileTypes,
            AtPlace, LineTypes, rcs, files
<1>1. phase \in {"ensure", "ensure_again"}
  BY DEF Torn
<1>2. CASE ScriptCurrent(p, phase)
  BY <1>1, <1>2 DEF ScriptCurrent, AfterEnsure
<1>3. CASE TruncateScript(p, phase)
  BY <1>1, <1>3, InstallAssumption DEF TruncateScript, Torn
<1>4. CASE WriteScript(p, phase)
  BY <1>1, <1>4, InstallAssumption, ReleasesAre DEF WriteScript, AfterEnsure, Torn
<1> QED
  BY <1>2, <1>3, <1>4

LEMMA CommandsPresent ==
  ASSUME Typed, NEW p \in Procs, SoFar(p), Present(p),
         \/ EnsureConfig(p) \/ EnsureDaemon(p) \/ Spawn(p)
         \/ Stop(p) \/ RemoveData(p) \/ RemoveScript(p) \/ RemoveConfig(p)
         \/ FetchLatestVersion(p) \/ FetchChecksum(p) \/ DownloadAsset(p) \/ VerifyChecksum(p)
         \/ Replace(p) \/ MoveAside(p) \/ MoveAsideFails(p) \/ Swap(p) \/ SwapFails(p) \/ UpdateFails(p)
         \/ Restart(p)
  PROVE  Present(p)'
<1> USE DEF Present, PastScript, Step, Idle, Sourced, Typed, IInv, ExeTypes, Placed, FileTypes, AtPlace, rcs, files
<1>1. CASE EnsureConfig(p) \/ EnsureDaemon(p) \/ Spawn(p)
  BY <1>1 DEF EnsureConfig, EnsureDaemon, Spawn
<1>2. CASE Stop(p) \/ RemoveData(p) \/ RemoveScript(p) \/ RemoveConfig(p)
  BY <1>2 DEF Stop, RemoveData, RemoveScript, RemoveConfig
<1>3. CASE FetchLatestVersion(p) \/ FetchChecksum(p) \/ DownloadAsset(p) \/ VerifyChecksum(p)
  BY <1>3 DEF FetchLatestVersion, FetchChecksum, DownloadAsset, VerifyChecksum
<1>4. CASE Replace(p) \/ MoveAside(p) \/ MoveAsideFails(p) \/ Swap(p) \/ SwapFails(p) \/ UpdateFails(p) \/ Restart(p)
  BY <1>4 DEF Replace, MoveAside, MoveAsideFails, Swap, SwapFails, UpdateFails, Restart
<1> QED
  BY <1>1, <1>2, <1>3, <1>4

LEMMA LinesPresent ==
  ASSUME Typed, NEW p \in Procs, SoFar(p), Present(p),
         \/ AlreadySourced(p) \/ ReadToAppend(p) \/ NothingToRemove(p) \/ ReadToStrip(p)
         \/ Truncate(p) \/ Write(p) \/ Rename(p)
  PROVE  Present(p)'
<1>1. /\ ~Sourced(<<>>) /\ (~HasHunch(rc) => ~Sourced(rc))
      /\ ~Sourced(text[p]) /\ ~Sourced(rc) => ~Sourced(Over(text[p], rc))
  <2>1. ~Sourced(<<>>)
    BY DEF Sourced, ToSet
  <2> QED
    BY <2>1, OverIs DEF Sourced, HasHunch, Typed, LineTypes
<1> USE DEF Present, PastScript, SoFar, DoneSoFar, RemovedSoFar, Prepared, Step, Idle, Typed, IInv, ExeTypes,
            Placed, FileTypes, AtPlace, LineTypes, rcs, files
<1>2. CASE AlreadySourced(p) \/ NothingToRemove(p)
  BY <1>1, <1>2 DEF AlreadySourced, NothingToRemove, Sourced
<1>3. CASE ReadToAppend(p) \/ ReadToStrip(p)
  BY <1>3 DEF ReadToAppend, ReadToStrip, Sourced
<1>4. CASE Truncate(p)
  BY <1>1, <1>4 DEF Truncate, Target
<1>5. CASE Write(p)
  BY <1>1, <1>5 DEF Write
<1>6. CASE Rename(p)
  BY <1>6, ReleasesAre DEF Rename
<1> QED
  BY <1>2, <1>3, <1>4, <1>5, <1>6

LEMMA NextPresent == Typed /\ AloneInv /\ PresentInv /\ [Next]_vars => PresentInv'
<1> SUFFICES ASSUME Typed, AloneInv, PresentInv, [Next]_vars, Alone', "half" \notin excuses'
             PROVE  Sourced(rc') => script' # None \/ \E p \in Procs : PastScript(p)'
  BY DEF PresentInv
<1>1. CASE UNCHANGED vars
  BY <1>1 DEF vars, rcs, files, PresentInv, Alone, PastScript, Idle, Sourced
<1>2. ASSUME NEW p \in Procs, NEW j \in DOMAIN First, Start(p, j) PROVE Sourced(rc') => script' # None
  <2>1. \A q \in Procs : Idle(q)
    BY <1>2 DEF Start, Alone
  <2>2. UNCHANGED <<rc, script>> /\ excuses \subseteq excuses'
    BY <1>2 DEF Start, rcs, files
  <2> QED
    BY <2>1, <2>2 DEF PresentInv, Alone, PastScript, Sourced
<1>3. ASSUME NEW p \in Procs, GoesAlone(p), SoFar(p) /\ Present(p) => Present(p)'
      PROVE  Sourced(rc') => script' # None \/ PastScript(p)'
  <2>1. Alone /\ "half" \notin excuses
    BY <1>3 DEF GoesAlone, Alone
  <2>2. \A q \in Procs : PastScript(q) => q = p
    BY <1>3, <2>1, OthersIdle DEF GoesAlone, PastScript
  <2> QED
    BY <1>3, <2>1, <2>2 DEF PresentInv, AloneInv, Present
<1>4. ASSUME NEW p \in Procs, Crash(p) PROVE Sourced(rc') => script' # None
  <2>1. /\ ~Idle(p) /\ job[p] # "uninstall" /\ UNCHANGED <<rc, script>> /\ excuses \subseteq excuses'
    BY <1>4 DEF Crash, rcs, files
  <2>2. Alone /\ "half" \notin excuses
    BY <2>1 DEF Alone
  <2>3. \A q \in Procs : ~PastScript(q)
    BY <2>1, <2>2, OthersIdle DEF PastScript
  <2> QED
    BY <2>1, <2>2, <2>3 DEF PresentInv, Sourced
<1>5. CASE Publish
  BY <1>5 DEF Publish, rcs, files, PresentInv, Alone, PastScript, Idle, Sourced
<1>6. CASE UserAppends \/ UserComments \/ UserUncomments \/ UserDeletes
  <2>1. /\ Sourced(rc') => Sourced(rc) \/ script # None
        /\ UNCHANGED <<script, pc, job>> /\ excuses \subseteq excuses'
    BY <1>6, EditsAre DEF Typed, files
  <2> QED
    BY <2>1 DEF PresentInv, Alone, PastScript, Idle, Sourced
<1>7. CASE Next
  BY <1>2, <1>3, <1>4, <1>5, <1>6, <1>7, CommandsGo, ScriptPresent, CommandsPresent, LinesPresent DEF Next
<1> QED
  BY <1>1, <1>7

(* .zshrc never sources the script twice, and never one that is not there, but for what
   the property excuses: a third init, an edit or an uninstall meanwhile; commands
   that overlap, and an uninstall under way or dead on its way. *)
THEOREM SourcesTheorem == Spec => []SourcesScriptOnce
<1>1. ASSUME MarksInv, Typed PROVE
        excuses \cap {"crowd", "stub", "edited", "removing"} = {} =>
          \A i, j \in DOMAIN rc : rc[i] = "source" /\ rc[j] = "source" => i = j
  <2>1. DOMAIN rc = 1..Len(rc)
    BY <1>1 DEF Typed, LineTypes
  <2> QED
    BY <1>1, <2>1 DEF MarksInv, Calm, Once, Marks
<1>2. ASSUME PresentInv PROVE
        /\ excuses \cap {"together", "half"} = {}
        /\ \A p \in Procs : job[p] = "uninstall" => Idle(p)
        => (Sourced(rc) => script # None)
  BY <1>2 DEF PresentInv, Alone, PastScript
<1>3. MarksInv /\ PresentInv /\ Typed => SourcesScriptOnce
  BY <1>1, <1>2 DEF SourcesScriptOnce
<1>4. Init => PresentInv
  <2> SUFFICES ASSUME Init PROVE ~Sourced(rc)
    BY DEF PresentInv
  <2>1. PICK u \in Own : rc = <<u>>
    BY DEF Init
  <2> QED
    BY <2>1, InstallAssumption DEF Sourced, ToSet
<1>5. Spec => []PresentInv
  BY <1>4, NextPresent, AloneTheorem, TypedInvariant, PTL DEF Spec
<1> QED
  BY <1>3, <1>5, MarksTheorem, TypedInvariant, PTL
================================================================================
