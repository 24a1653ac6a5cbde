-------------------------- MODULE LifecycleProperties --------------------------
(***************************************************************************)
(* What the lock file, the pid file and the socket file are for.            *)
(***************************************************************************)
EXTENDS Lifecycle

RecoverPC == {"read_pid", "check", "remove_lock", "remove_pid", "relock"}
RunPC  == {"trunc_pid", "write_pid", "boot", "remove_sock", "listen", "up",
           "flush", "stop_sock", "stop_pid", "unlock"}

(* Every variable has its type, and a command that signals has read a pid. *)
TypeOK ==
  /\ lockFile \in Inodes \cup {None}
  /\ fd \in [Pids -> Inodes \cup {None}]
  /\ holds \subseteq Pids
  /\ pidFile \in Pids \cup {None, Blank}
  /\ sock \in Pids \cup {None}
  /\ detached \subseteq Pids /\ term \subseteq Pids
  /\ pc \in [Pids -> {"off", "failed", "open", "lock", "exit"} \cup RecoverPC \cup RunPC]
  /\ seen \in [Pids -> Pids \cup {None}]
  /\ cli \in {"idle", "read", "signal", "wait", "wait_killed", "start", "dial", "not_started", "wipe"}
  /\ op \in {"stop", "update"}
  /\ target \in Pids \cup {None} /\ (cli \in {"signal", "wait"} => target \in Pids)
  /\ recovered \in BOOLEAN
  /\ spawns \in Nat /\ crashes \in Nat /\ commands \in Nat

(* The daemons between acquiring the lock and giving it up: those that read,
   write and serve the one database. *)
Running == {p \in Pids : pc[p] \in RunPC}

(* At most one daemon runs on a data directory ("Lock acquires a non-blocking
   exclusive lock", osutil.go; "another instance is alive", daemon.go). *)
AtMostOneDaemon == \A p, q \in Running : p = q

(* Without recoverStaleLock removing a lock file, at most one daemon runs,
   however many are started and however they crash or are killed. *)
LockExcludes == ~recovered => AtMostOneDaemon

(* The files in the directory are those of the daemon that runs: one that
   serves is found through the socket and signalled through the pid file, and no
   other daemon, starting, failing or stopping, takes them away. *)
FilesNameDaemon ==
  ~recovered => \A p \in Pids :
    /\ pc[p] = "up" => sock = p
    /\ pc[p] \in {"boot", "remove_sock", "listen", "up", "flush", "stop_sock", "stop_pid"} => pidFile = p

(* What the two need to be inductive.  Flock gives an inode one holder, and only
   a daemon that runs holds one; and until a recovery, whoever has opened the
   lock file has opened the one at lockPath, whoever runs holds its flock, and
   nobody is about to remove files. *)
FlockOK ==
  /\ \A p, q \in holds : fd[p] = fd[q] => p = q
  /\ \A p \in holds : pc[p] \in RunPC

LockInv ==
  ~recovered => \A p \in Pids :
    /\ pc[p] \in RunPC => p \in holds
    /\ pc[p] \in {"lock"} \cup RecoverPC \cup RunPC => fd[p] = lockFile /\ lockFile # None
    /\ pc[p] \notin {"remove_pid", "relock"}
    /\ pc[p] = "write_pid" => pidFile = Blank

IInv == TypeOK /\ FlockOK /\ LockInv /\ FilesNameDaemon

(* The restart that ends an update leaves a daemon behind ("The daemon is
   restarted automatically afterwards", README.md), at least one that is still
   starting when the command stops waiting for it. *)
RestartLeavesDaemon == cli = "not_started" => \E p \in Pids : Alive(p)

(* A daemon that serves keeps its data in the database at DBPath: hunch reset
   removes the files only "when none is running" (client.go).  The code does not
   keep it. *)
ServesItsDatabase == \A p \in Pids : pc[p] = "up" => p \notin detached

-----------------------------------------------------------------------------
(* What a process at c does, for one who only knows who owns the directory. *)
Phase(c) ==
  IF c \in {"trunc_pid", "write_pid", "boot", "remove_sock", "listen"} THEN "starting"
  ELSE IF c = "up" THEN "serving"
  ELSE IF c \in {"flush", "stop_sock", "stop_pid", "unlock"} THEN "stopping"
  ELSE "out"

OW == INSTANCE Ownership WITH
        phase <- [p \in Pids |-> Phase(pc[p])], pid <- pidFile, contested <- recovered

(* The system calls of the daemons and of the commands beside them implement
   Ownership: until a lock is taken for stale, the directory has one owner, nobody
   else touches the files that lead to it, and it gives the lock up last. *)
ImplementsOwnership == OW!Spec

-----------------------------------------------------------------------------
(* A process that can make a step eventually does. *)
FairSpec == Spec /\ \A p \in Pids : WF_vars(Starting(p)) /\ WF_vars(Stopping(p))

Alone(p) == \A q \in Pids \ {p} : Dead(q)

(* Whatever a crash, a kill or a failed start has left in the directory, a
   daemon started with no other alive comes up: never is the user locked out.
   (Unless it is killed itself, or another is started meanwhile.) *)
StartsAlone ==
  \A p \in Pids :
    (pc[p] = "open" /\ Alone(p)) ~> (pc[p] \in {"up", "off"} \/ ~Alone(p))

(* SIGTERM ends a daemon, even one that is still starting. *)
TermStops == \A p \in Pids : p \in term ~> Dead(p)
================================================================================
