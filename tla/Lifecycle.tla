------------------------------- MODULE Lifecycle -------------------------------
(***************************************************************************)
(* Several hunch processes around one data directory: `hunch daemon run`    *)
(* instances that compete for the lock file, and a `hunch daemon stop`,     *)
(* `hunch update` or `hunch reset` that runs beside them.  What they share   *)
(* is the file system: the lock file with its flock, the pid file, the      *)
(* socket file and the database file.  One action is one system call on it. *)
(* What a daemon does with its database is module Daemon.                   *)
(***************************************************************************)
EXTENDS Naturals

CONSTANTS
  Pids,        \* process ids of daemons; a dead one's may be given out again
  Inodes,      \* lock files
  None,        \* no file, or no lock file opened
  Blank,       \* a pid file that has been truncated and not yet written
  MaxSpawns,   \* bound on how often a daemon is started by hand or by a shell
  MaxCrashes,  \* bound on crashes
  MaxCommands  \* bound on stops, updates and resets

ASSUME LifecycleAssumption ==
  /\ None \notin Inodes \cup Pids /\ Blank \notin Pids /\ Blank # None
  /\ MaxSpawns \in Nat /\ MaxCrashes \in Nat /\ MaxCommands \in Nat

VARIABLES
  lockFile,   \* the inode at lockPath
  fd,         \* the inode each process has opened as its lock file
  holds,      \* the processes that hold the flock of their inode
  pidFile,    \* content of the pid file
  sock,       \* whose listener the socket file leads to, alive or not
  detached,   \* processes whose open database is no longer the file at DBPath
  pc,         \* where each daemon is
  seen,       \* the pid that recoverStaleLock has read
  term,       \* processes that have been told to terminate
  cli,        \* where the command is
  op,         \* which command it is
  target,     \* the pid it has read
  recovered,  \* history: recoverStaleLock has removed a lock file
  spawns, crashes, commands

files == <<lockFile, pidFile, sock>>
locks == <<fd, holds>>
cmd   == <<cli, op, target>>
used  == <<spawns, crashes, commands>>
vars  == <<files, locks, detached, pc, seen, term, cmd, recovered, used>>

Dead(p)  == pc[p] \in {"off", "failed"}
Alive(p) == ~Dead(p)    \* kill(p, 0) succeeds

Step(p, from, to) == pc[p] = from /\ pc' = [pc EXCEPT ![p] = to]
(* The process is gone: the kernel closes its files and so drops its flock;
   what it left in the file system stays. *)
Ends(p, how) ==
  /\ pc' = [pc EXCEPT ![p] = how]
  /\ fd' = [fd EXCEPT ![p] = None] /\ holds' = holds \ {p}
  /\ seen' = [seen EXCEPT ![p] = None]
  /\ term' = term \ {p} /\ detached' = detached \ {p}
(* start() returns an error: no clean-up, stop() is not yet deferred. *)
Fails(p) == Ends(p, "failed") /\ UNCHANGED <<files, cmd, recovered, used>>

Init ==
  /\ lockFile = None /\ pidFile = None /\ sock = None
  /\ fd = [p \in Pids |-> None] /\ holds = {}
  /\ detached = {} /\ term = {}
  /\ pc = [p \in Pids |-> "off"]
  /\ seen = [p \in Pids |-> None]
  /\ cli = "idle" /\ op = "stop" /\ target = None
  /\ recovered = FALSE
  /\ spawns = 0 /\ crashes = 0 /\ commands = 0

-----------------------------------------------------------------------------
(* start(): lock, pid file, database, socket. *)

Spawn(p) ==
  /\ Dead(p) /\ pc' = [pc EXCEPT ![p] = "open"]
  /\ spawns < MaxSpawns /\ spawns' = spawns + 1
  /\ UNCHANGED <<files, locks, detached, seen, term, cmd, recovered, crashes, commands>>

(* open(lockPath, O_CREATE). *)
OpenLock(p) ==
  /\ Step(p, "open", "lock")
  /\ IF lockFile # None THEN lockFile' = lockFile
     ELSE lockFile' \in Inodes \ {fd[q] : q \in Pids}
  /\ fd' = [fd EXCEPT ![p] = lockFile']
  /\ UNCHANGED <<pidFile, sock, holds, detached, seen, term, cmd, recovered, used>>

(* flock(fd, LOCK_EX | LOCK_NB): it excludes holders of the same inode. *)
Held(p) == \E q \in holds : fd[q] = fd[p]

Lock(p) ==
  /\ Step(p, "lock", "trunc_pid") /\ ~Held(p)
  /\ holds' = holds \cup {p}
  /\ UNCHANGED <<files, fd, detached, seen, term, cmd, recovered, used>>

LockBusy(p) ==
  /\ Step(p, "lock", "read_pid") /\ Held(p)
  /\ UNCHANGED <<files, locks, detached, seen, term, cmd, recovered, used>>

(* recoverStaleLock: who holds the lock, says the pid file, is it alive? *)
ReadPid(p) ==
  /\ Step(p, "read_pid", "check") /\ pidFile \in Pids
  /\ seen' = [seen EXCEPT ![p] = pidFile]
  /\ UNCHANGED <<files, locks, detached, term, cmd, recovered, used>>

NoPid(p) == pc[p] = "read_pid" /\ pidFile \notin Pids /\ Fails(p)

OwnerAlive(p) == pc[p] = "check" /\ Alive(seen[p]) /\ Fails(p)

OwnerDead(p) ==
  /\ Step(p, "check", "remove_lock") /\ Dead(seen[p])
  /\ seen' = [seen EXCEPT ![p] = None]
  /\ UNCHANGED <<files, locks, detached, term, cmd, recovered, used>>

RemoveLock(p) ==
  /\ Step(p, "remove_lock", "remove_pid")
  /\ lockFile' = None /\ recovered' = TRUE
  /\ UNCHANGED <<pidFile, sock, locks, detached, seen, term, cmd, used>>

RemovePid(p) ==
  /\ Step(p, "remove_pid", "relock")
  /\ pidFile' = None
  /\ UNCHANGED <<lockFile, sock, locks, detached, seen, term, cmd, recovered, used>>

(* The second Lock is on the file opened before the first. *)
Relock(p) ==
  /\ Step(p, "relock", "trunc_pid") /\ ~Held(p)
  /\ holds' = holds \cup {p}
  /\ UNCHANGED <<files, fd, detached, seen, term, cmd, recovered, used>>

StillBusy(p) == pc[p] = "relock" /\ Held(p) /\ Fails(p)

(* os.WriteFile truncates or creates the file, then writes. *)
TruncPid(p) ==
  /\ Step(p, "trunc_pid", "write_pid")
  /\ pidFile' = Blank
  /\ UNCHANGED <<lockFile, sock, locks, detached, seen, term, cmd, recovered, used>>

WritePid(p) ==
  /\ Step(p, "write_pid", "boot")
  /\ pidFile' = IF pidFile = None THEN None ELSE p
  /\ UNCHANGED <<lockFile, sock, locks, detached, seen, term, cmd, recovered, used>>

(* openStore, load, seed, predictor, decay. *)
Boot(p) ==
  /\ Step(p, "boot", "remove_sock")
  /\ UNCHANGED <<files, locks, detached, seen, term, cmd, recovered, used>>

(* The socket file of a daemon that crashed is in the way.  Plausible bug: it
   is left there. *)
BadRemoveSock(p) ==
  /\ Step(p, "remove_sock", "listen")
  /\ UNCHANGED <<files, locks, detached, seen, term, cmd, recovered, used>>

RemoveSock(p) ==
  /\ Step(p, "remove_sock", "listen")
  /\ sock' = None
  /\ UNCHANGED <<lockFile, pidFile, locks, detached, seen, term, cmd, recovered, used>>

(* Plausible bug: a SIGTERM that came during start() is forgotten. *)
BadListen(p) ==
  /\ Step(p, "listen", "up") /\ sock = None
  /\ sock' = p /\ term' = term \ {p}
  /\ UNCHANGED <<lockFile, pidFile, locks, detached, seen, cmd, recovered, used>>

Listen(p) ==
  /\ Step(p, "listen", "up") /\ sock = None
  /\ sock' = p
  /\ UNCHANGED <<lockFile, pidFile, locks, detached, seen, term, cmd, recovered, used>>

AddressInUse(p) == pc[p] = "listen" /\ sock # None /\ Fails(p)

-----------------------------------------------------------------------------
(* stop(), once start() has returned and the context is cancelled. *)

(* listener.Close also removes the file at the socket's path. *)
CloseListener(p) ==
  /\ p \in term /\ Step(p, "up", "flush")
  /\ sock' = None
  /\ UNCHANGED <<lockFile, pidFile, locks, detached, seen, term, cmd, recovered, used>>

(* flush, st.close.  Plausible bug: the lock is given up here, and the files are
   removed after. *)
BadCloseStore(p) ==
  /\ Step(p, "flush", "stop_sock")
  /\ holds' = holds \ {p}
  /\ UNCHANGED <<files, fd, detached, seen, term, cmd, recovered, used>>

CloseStore(p) ==
  /\ Step(p, "flush", "stop_sock")
  /\ UNCHANGED <<files, locks, detached, seen, term, cmd, recovered, used>>

StopRemoveSock(p) ==
  /\ Step(p, "stop_sock", "stop_pid")
  /\ sock' = None
  /\ UNCHANGED <<lockFile, pidFile, locks, detached, seen, term, cmd, recovered, used>>

StopRemovePid(p) ==
  /\ Step(p, "stop_pid", "unlock")
  /\ pidFile' = None
  /\ UNCHANGED <<lockFile, sock, locks, detached, seen, term, cmd, recovered, used>>

(* Plausible bug: the lock file is removed with the lock. *)
BadUnlock(p) ==
  /\ Step(p, "unlock", "exit")
  /\ holds' = holds \ {p} /\ fd' = [fd EXCEPT ![p] = None] /\ lockFile' = None
  /\ UNCHANGED <<pidFile, sock, detached, seen, term, cmd, recovered, used>>

Unlock(p) ==
  /\ Step(p, "unlock", "exit")
  /\ holds' = holds \ {p} /\ fd' = [fd EXCEPT ![p] = None]
  /\ UNCHANGED <<files, detached, seen, term, cmd, recovered, used>>

Exit(p) == pc[p] = "exit" /\ Ends(p, "off") /\ UNCHANGED <<files, cmd, recovered, used>>

Crash(p) ==
  /\ Alive(p) /\ Ends(p, "off")
  /\ crashes < MaxCrashes /\ crashes' = crashes + 1
  /\ UNCHANGED <<files, cmd, recovered, spawns, commands>>

-----------------------------------------------------------------------------
(* The commands. *)

(* hunch daemon stop (cmdDaemonStop), alone or as the first half of the
   restart at the end of hunch update (restartDaemon). *)
StopBegins ==
  /\ cli = "idle" /\ commands < MaxCommands /\ commands' = commands + 1
  /\ op' \in {"stop", "update"} /\ cli' = "read"
  /\ UNCHANGED <<files, locks, detached, pc, seen, term, target, recovered, spawns, crashes>>

Finish == cli' = "idle" /\ target' = None
Quiet  == UNCHANGED <<files, locks, pc, seen, op, recovered>>

(* Plausible bug: a pid file that is still empty is taken for a pid. *)
BadStopReads ==
  /\ cli = "read"
  /\ \/ pidFile # None /\ cli' = "signal" /\ target' = pidFile
     \/ pidFile = None /\ Finish
  /\ Quiet /\ UNCHANGED <<detached, term, used>>

StopReads ==
  /\ cli = "read"
  /\ \/ pidFile \in Pids /\ cli' = "signal" /\ target' = pidFile
     \/ pidFile \notin Pids /\ Finish
  /\ Quiet /\ UNCHANGED <<detached, term, used>>

(* SIGTERM cancels the daemon's context; to a dead process it is an error. *)
StopSignals ==
  /\ cli = "signal"
  /\ \/ Alive(target) /\ term' = term \cup {target} /\ cli' = "wait" /\ target' = target
     \/ Dead(target) /\ term' = term /\ Finish
  /\ Quiet /\ UNCHANGED <<detached, used>>

(* waitForSocketRemoval returns. *)
SocketGone ==
  /\ cli \in {"wait", "wait_killed"} /\ sock = None
  /\ \/ op = "stop" /\ Finish
     \/ op = "update" /\ cli' = "start" /\ target' = None
  /\ Quiet /\ UNCHANGED <<detached, term, used>>

(* It times out after 5 s: SIGKILL, and after 2 s more stop gives up. *)
Forced ==
  /\ cli = "wait" /\ sock # None /\ cli' = "wait_killed"
  /\ IF Alive(target) THEN Ends(target, "off")
     ELSE UNCHANGED <<pc, locks, seen, term, detached>>
  /\ UNCHANGED <<files, op, target, recovered, used>>

GivesUp ==
  /\ cli = "wait_killed" /\ sock # None /\ Finish
  /\ Quiet /\ UNCHANGED <<detached, term, used>>

(* cmdDaemonStart: run a daemon and wait for the socket for 2 s. *)
Restarts ==
  /\ cli = "start" /\ cli' = "dial"
  /\ \E p \in Pids : Dead(p) /\ pc' = [pc EXCEPT ![p] = "open"]
  /\ UNCHANGED <<files, locks, detached, seen, term, op, target, recovered, used>>

Reachable == sock \in Pids /\ pc[sock] = "up"

Restarted ==
  /\ cli = "dial" /\ Reachable /\ Finish
  /\ Quiet /\ UNCHANGED <<detached, term, used>>

NotRestarted ==
  /\ cli = "dial" /\ ~Reachable /\ cli' = "not_started"
  /\ Quiet /\ UNCHANGED <<detached, term, target, used>>

Reports ==
  /\ cli = "not_started" /\ Finish
  /\ Quiet /\ UNCHANGED <<detached, term, used>>

(* hunch reset (cmdClientReset): a daemon that answers does it (handleReset, see
   Daemon); without one the command removes the database files. *)
ResetDials ==
  /\ cli = "idle" /\ commands < MaxCommands /\ commands' = commands + 1
  /\ ~Reachable /\ cli' = "wipe"
  /\ Quiet /\ UNCHANGED <<detached, term, target, spawns, crashes>>

DbOpen == {p \in Pids : pc[p] \in {"remove_sock", "listen", "up", "flush"}}

ResetRemoves ==
  /\ cli = "wipe" /\ Finish
  /\ detached' = DbOpen
  /\ Quiet /\ UNCHANGED <<term, used>>

-----------------------------------------------------------------------------
Starting(p) ==
  \/ OpenLock(p) \/ Lock(p) \/ LockBusy(p) \/ ReadPid(p) \/ NoPid(p)
  \/ OwnerAlive(p) \/ OwnerDead(p) \/ RemoveLock(p) \/ RemovePid(p)
  \/ Relock(p) \/ StillBusy(p) \/ TruncPid(p) \/ WritePid(p) \/ Boot(p)
  \/ RemoveSock(p) \/ Listen(p) \/ AddressInUse(p)

Stopping(p) ==
  \/ CloseListener(p) \/ CloseStore(p) \/ StopRemoveSock(p) \/ StopRemovePid(p)
  \/ Unlock(p) \/ Exit(p)

Command ==
  \/ StopBegins \/ StopReads \/ StopSignals \/ SocketGone \/ Forced \/ GivesUp
  \/ Restarts \/ Restarted \/ NotRestarted \/ Reports \/ ResetDials \/ ResetRemoves

Next ==
  \/ \E p \in Pids : Spawn(p) \/ Starting(p) \/ Stopping(p) \/ Crash(p)
  \/ Command

Spec == Init /\ [][Next]_vars
=================================================================================
