---------------------------- MODULE LifecycleProofs ----------------------------
(***************************************************************************)
(* Proofs about the competing daemons, for any number of them.  A process   *)
(* can only disturb the invariant in a handful of actions: the flock is     *)
(* taken and dropped, the files change hands.                               *)
(***************************************************************************)
EXTENDS LifecycleProperties, TLAPS

USE DEF Dead, Alive

LEMMA TypeInit == Init => TypeOK
<1> SUFFICES ASSUME Init PROVE TypeOK
  OBVIOUS
<1>1. pc \in [Pids -> {"off", "failed", "open", "lock", "exit"} \cup RecoverPC \cup RunPC]
  BY DEF Init
<1>2. fd \in [Pids -> Inodes \cup {None}] /\ seen \in [Pids -> Pids \cup {None}]
  BY DEF Init
<1>3. recovered \in BOOLEAN
  BY Zenon DEF Init
<1> QED BY <1>1, <1>2, <1>3 DEF Init, TypeOK

LEMMA TypeStep == TypeOK /\ [Next]_vars => TypeOK'
<1> SUFFICES ASSUME TypeOK, [Next]_vars PROVE TypeOK'
  OBVIOUS
<1> USE DEF TypeOK, RecoverPC, RunPC, Step, files, locks, used, cmd, Quiet, Finish
<1>1. ASSUME NEW p \in Pids, Spawn(p) \/ Crash(p) PROVE TypeOK'
  BY <1>1 DEF Spawn, Crash, Ends
<1>2. ASSUME NEW p \in Pids, Starting(p) PROVE TypeOK'
  <2>1. CASE OpenLock(p) BY <2>1 DEF OpenLock
  <2>2. CASE Lock(p) \/ LockBusy(p) BY <2>2 DEF Lock, LockBusy
  <2>3. CASE ReadPid(p) \/ OwnerDead(p) BY <2>3 DEF ReadPid, OwnerDead
  <2>4. CASE NoPid(p) \/ OwnerAlive(p) \/ StillBusy(p) \/ AddressInUse(p)
    BY <2>4 DEF NoPid, OwnerAlive, StillBusy, AddressInUse, Fails, Ends
  <2>5. CASE RemoveLock(p) \/ RemovePid(p) \/ Relock(p)
    <3>1. CASE RemoveLock(p) BY <3>1 DEF RemoveLock
    <3>2. CASE RemovePid(p) BY <3>2 DEF RemovePid
    <3>3. CASE Relock(p) BY <3>3 DEF Relock
    <3> QED BY <2>5, <3>1, <3>2, <3>3
  <2>6. CASE TruncPid(p) \/ WritePid(p) BY <2>6 DEF TruncPid, WritePid
  <2>7. CASE Boot(p) \/ RemoveSock(p) \/ Listen(p) BY <2>7 DEF Boot, RemoveSock, Listen
  <2> QED BY <1>2, <2>1, <2>2, <2>3, <2>4, <2>5, <2>6, <2>7 DEF Starting
<1>3. ASSUME NEW p \in Pids, Stopping(p) PROVE TypeOK'
  <2>1. CASE CloseListener(p) \/ CloseStore(p) \/ StopRemoveSock(p) \/ StopRemovePid(p)
    BY <2>1 DEF CloseListener, CloseStore, StopRemoveSock, StopRemovePid
  <2>2. CASE Unlock(p) \/ Exit(p) BY <2>2 DEF Unlock, Exit, Ends
  <2> QED BY <1>3, <2>1, <2>2 DEF Stopping
<1>4. CASE Command
  <2>1. CASE StopBegins \/ StopReads \/ StopSignals \/ SocketGone
    <3>1. CASE StopBegins BY <3>1 DEF StopBegins
    <3>2. CASE StopReads BY <3>2 DEF StopReads
    <3>3. CASE StopSignals BY <3>3 DEF StopSignals
    <3>4. CASE SocketGone BY <3>4 DEF SocketGone
    <3> QED BY <2>1, <3>1, <3>2, <3>3, <3>4
  <2>2. CASE Forced BY <2>2 DEF Forced, Ends
  <2>3. CASE GivesUp \/ Restarts \/ Restarted \/ NotRestarted \/ Reports
    BY <2>3 DEF GivesUp, Restarts, Restarted, NotRestarted, Reports
  <2>4. CASE ResetDials \/ ResetRemoves BY <2>4 DEF ResetDials, ResetRemoves, DbOpen
  <2> QED BY <1>4, <2>1, <2>2, <2>3, <2>4 DEF Command
<1>5. CASE UNCHANGED vars BY <1>5 DEF vars
<1> QED BY <1>1, <1>2, <1>3, <1>4, <1>5 DEF Next

(* The variables keep their types, whatever the processes and commands do. *)
THEOREM LifecycleTyping == Spec => []TypeOK
BY TypeInit, TypeStep, PTL DEF Spec

-----------------------------------------------------------------------------
(* Once a process runs it is the only one: it holds the flock of the file at
   lockPath, and flock gives that to one process. *)
LEMMA RunnersHoldTheLock ==
  ASSUME TypeOK, FlockOK, LockInv, ~recovered,
         NEW p \in Pids, NEW q \in Pids, pc[p] \in RunPC, pc[q] \in RunPC
  PROVE  p = q
BY DEF FlockOK, LockInv, RunPC

LEMMA InvInit == Init => IInv
<1> SUFFICES ASSUME Init PROVE FlockOK /\ LockInv /\ FilesNameDaemon
  BY TypeInit DEF IInv
<1>1. FlockOK BY DEF Init, FlockOK
<1>2. \A p \in Pids : pc[p] = "off" /\ p \notin holds BY DEF Init
<1>3. LockInv BY <1>2 DEF LockInv, RunPC, RecoverPC
<1>4. FilesNameDaemon BY <1>2 DEF FilesNameDaemon
<1> QED BY <1>1, <1>3, <1>4

(* Steps of a starting daemon. *)
LEMMA InvStarting ==
  ASSUME IInv, NEW p \in Pids, Starting(p)
  PROVE  (FlockOK /\ LockInv /\ FilesNameDaemon)'
<1> USE DEF IInv, RunPC, RecoverPC, Step, files, locks
<1>1. CASE OpenLock(p)
  <2>1. FlockOK' BY <1>1 DEF OpenLock, FlockOK, TypeOK
  <2>2. LockInv' BY <1>1, LifecycleAssumption DEF OpenLock, TypeOK, LockInv, LifecycleAssumption
  <2>3. FilesNameDaemon' BY <1>1 DEF OpenLock, TypeOK, FilesNameDaemon
  <2> QED BY <2>1, <2>2, <2>3
<1>2. CASE Lock(p)
  <2>1. FlockOK' BY <1>2 DEF Lock, Held, FlockOK, TypeOK
  <2>2. LockInv' BY <1>2 DEF Lock, TypeOK, LockInv
  <2>3. FilesNameDaemon' BY <1>2 DEF Lock, TypeOK, FilesNameDaemon
  <2> QED BY <2>1, <2>2, <2>3
<1>3. CASE LockBusy(p) \/ ReadPid(p) \/ OwnerDead(p)
  <2>1. FlockOK' BY <1>3 DEF LockBusy, ReadPid, OwnerDead, FlockOK, TypeOK
  <2>2. LockInv' BY <1>3 DEF LockBusy, ReadPid, OwnerDead, TypeOK, LockInv
  <2>3. FilesNameDaemon' BY <1>3 DEF LockBusy, ReadPid, OwnerDead, TypeOK, FilesNameDaemon
  <2> QED BY <2>1, <2>2, <2>3
<1>4. CASE NoPid(p) \/ OwnerAlive(p) \/ StillBusy(p) \/ AddressInUse(p)
  <2>0. Fails(p) BY <1>4 DEF NoPid, OwnerAlive, StillBusy, AddressInUse
  <2>1. FlockOK' BY <2>0 DEF Fails, Ends, FlockOK, TypeOK
  <2>2. LockInv' BY <2>0 DEF Fails, Ends, TypeOK, LockInv
  <2>3. FilesNameDaemon' BY <2>0 DEF Fails, Ends, TypeOK, FilesNameDaemon
  <2> QED BY <2>1, <2>2, <2>3
<1>5. CASE RemoveLock(p)
  BY <1>5 DEF RemoveLock, FlockOK, LockInv, FilesNameDaemon
<1>6. CASE RemovePid(p) \/ Relock(p)
  <2>1. recovered /\ recovered' BY <1>6 DEF RemovePid, Relock, LockInv
  <2>2. FlockOK' BY <1>6 DEF RemovePid, Relock, Held, FlockOK, TypeOK
  <2> QED BY <2>1, <2>2 DEF LockInv, FilesNameDaemon
<1>7. CASE TruncPid(p) \/ WritePid(p)
  <2>1. FlockOK' BY <1>7 DEF TruncPid, WritePid, FlockOK, TypeOK
  <2>2. ASSUME ~recovered, NEW q \in Pids, pc[q] \in RunPC PROVE q = p
    BY <1>7, <2>2, RunnersHoldTheLock DEF TruncPid, WritePid
  <2>3. LockInv' BY <1>7, <2>2 DEF TruncPid, WritePid, TypeOK, LockInv
  <2>4. FilesNameDaemon'
    BY <1>7, <2>2, LifecycleAssumption DEF TruncPid, WritePid, TypeOK, LockInv, FilesNameDaemon, LifecycleAssumption
  <2> QED BY <2>1, <2>3, <2>4
<1>8. CASE Boot(p) \/ RemoveSock(p) \/ Listen(p)
  <2>1. FlockOK' BY <1>8 DEF Boot, RemoveSock, Listen, FlockOK, TypeOK
  <2>2. LockInv' BY <1>8 DEF Boot, RemoveSock, Listen, TypeOK, LockInv
  <2>3. ASSUME ~recovered, NEW q \in Pids, pc[q] \in RunPC PROVE q = p
    BY <1>8, <2>3, RunnersHoldTheLock DEF Boot, RemoveSock, Listen
  <2>4. FilesNameDaemon' BY <1>8, <2>3 DEF Boot, RemoveSock, Listen, TypeOK, FilesNameDaemon
  <2> QED BY <2>1, <2>2, <2>4
<1> QED BY <1>1, <1>2, <1>3, <1>4, <1>5, <1>6, <1>7, <1>8 DEF Starting

(* Steps of a stopping daemon, and its end. *)
LEMMA InvStopping ==
  ASSUME IInv, NEW p \in Pids, Stopping(p) \/ Spawn(p) \/ Crash(p)
  PROVE  (FlockOK /\ LockInv /\ FilesNameDaemon)'
<1> USE DEF IInv, RunPC, RecoverPC, Step, files, locks
<1>1. CASE CloseListener(p) \/ CloseStore(p) \/ StopRemoveSock(p) \/ StopRemovePid(p)
  <2>1. FlockOK' BY <1>1 DEF CloseListener, CloseStore, StopRemoveSock, StopRemovePid, FlockOK, TypeOK
  <2>2. ASSUME ~recovered, NEW q \in Pids, pc[q] \in RunPC PROVE q = p
    BY <1>1, <2>2, RunnersHoldTheLock DEF CloseListener, CloseStore, StopRemoveSock, StopRemovePid
  <2>3. LockInv' BY <1>1, <2>2 DEF CloseListener, CloseStore, StopRemoveSock, StopRemovePid, TypeOK, LockInv
  <2>4. FilesNameDaemon'
    BY <1>1, <2>2 DEF CloseListener, CloseStore, StopRemoveSock, StopRemovePid, TypeOK, FilesNameDaemon
  <2> QED BY <2>1, <2>3, <2>4
<1>2. CASE Unlock(p) \/ Exit(p) \/ Crash(p)
  <2>1. FlockOK' BY <1>2 DEF Unlock, Exit, Crash, Ends, FlockOK, TypeOK
  <2>2. LockInv' BY <1>2 DEF Unlock, Exit, Crash, Ends, TypeOK, LockInv
  <2>3. FilesNameDaemon' BY <1>2 DEF Unlock, Exit, Crash, Ends, TypeOK, FilesNameDaemon
  <2> QED BY <2>1, <2>2, <2>3
<1>3. CASE Spawn(p)
  <2>1. FlockOK' BY <1>3 DEF Spawn, FlockOK
  <2>2. LockInv' BY <1>3 DEF Spawn, Dead, TypeOK, LockInv
  <2>3. FilesNameDaemon' BY <1>3 DEF Spawn, TypeOK, FilesNameDaemon
  <2> QED BY <2>1, <2>2, <2>3
<1> QED BY <1>1, <1>2, <1>3 DEF Stopping

(* The commands start and kill daemons, and touch none of their files. *)
LEMMA InvCommand ==
  ASSUME IInv, Command
  PROVE  (FlockOK /\ LockInv /\ FilesNameDaemon)'
<1> USE DEF IInv, RunPC, RecoverPC, Step, files, locks
<1>1. CASE Forced
  <2>1. CASE Alive(target)
    <3>0. target \in Pids /\ Ends(target, "off") /\ UNCHANGED <<files, recovered>>
      BY <1>1, <2>1 DEF Forced, TypeOK
    <3>1. FlockOK' BY <3>0 DEF Ends, FlockOK, TypeOK
    <3>2. LockInv' BY <3>0 DEF Ends, TypeOK, LockInv
    <3>3. FilesNameDaemon' BY <3>0 DEF Ends, TypeOK, FilesNameDaemon
    <3> QED BY <3>1, <3>2, <3>3
  <2>2. CASE ~Alive(target)
    BY <1>1, <2>2 DEF Forced, FlockOK, LockInv, FilesNameDaemon
  <2> QED BY <2>1, <2>2
<1>2. CASE Restarts
  <2>0. PICK p \in Pids : Dead(p) /\ pc' = [pc EXCEPT ![p] = "open"]
    BY <1>2 DEF Restarts
  <2>1. FlockOK' BY <1>2 DEF Restarts, FlockOK
  <2>2. LockInv' BY <1>2, <2>0 DEF Restarts, Dead, TypeOK, LockInv
  <2>3. FilesNameDaemon' BY <1>2, <2>0 DEF Restarts, TypeOK, FilesNameDaemon
  <2> QED BY <2>1, <2>2, <2>3
<1>3. ASSUME Command, ~Forced, ~Restarts PROVE UNCHANGED <<files, locks, pc, recovered>>
  BY <1>3 DEF Command, StopBegins, StopReads, StopSignals, SocketGone, GivesUp,
       Restarted, NotRestarted, Reports, ResetDials, ResetRemoves, Quiet
<1> QED BY <1>1, <1>2, <1>3 DEF FlockOK, LockInv, FilesNameDaemon

(* The inductive invariant. *)
THEOREM LifecycleInvariant == Spec => []IInv
<1>1. IInv /\ [Next]_vars => IInv'
  <2> SUFFICES ASSUME IInv, [Next]_vars PROVE IInv'
    OBVIOUS
  <2>1. TypeOK' BY TypeStep DEF IInv
  <2>2. CASE Next
    BY <2>1, <2>2, InvStarting, InvStopping, InvCommand DEF Next, IInv
  <2>3. CASE UNCHANGED vars
    BY <2>1, <2>3 DEF vars, files, locks, IInv, FlockOK, LockInv, FilesNameDaemon
  <2> QED BY <2>2, <2>3
<1> QED BY <1>1, InvInit, PTL DEF Spec

(* Until recoverStaleLock removes a lock file, no two daemons run on one data
   directory: no number of starts, crashes, kills and clean stops, in any order,
   gets round the flock. *)
THEOREM LockExcludesTheorem == Spec => []LockExcludes
<1>1. IInv => LockExcludes
  BY RunnersHoldTheLock DEF IInv, LockExcludes, AtMostOneDaemon, Running
<1> QED BY <1>1, LifecycleInvariant, PTL

(* Until then, the socket and the pid file are those of the daemon that serves:
   no other start, failed start or stop takes them away. *)
THEOREM FilesNameDaemonTheorem == Spec => []FilesNameDaemon
<1>1. IInv => FilesNameDaemon
  BY DEF IInv
<1> QED BY <1>1, LifecycleInvariant, PTL

(* What the hand-over from one daemon to the next rests on.  Until a recovery, the
   path of the socket is free when a daemon comes to listen (the file that a crash
   left has just been removed, and nobody else runs) and again from the moment it
   closes its listener; and it removes the pid file before it unlocks. *)
SockFree ==
  ~recovered => \A p \in Pids :
    pc[p] \in {"listen", "flush", "stop_sock", "stop_pid", "unlock"} => sock = None
PidGone == ~recovered => \A p \in Pids : pc[p] = "unlock" => pidFile = None

(* Once a lock has been taken for stale, this is not forgotten. *)
LEMMA RecoveredStays == [Next]_vars => recovered' = recovered \/ recovered' = TRUE
<1> USE DEF files
<1>1. ASSUME NEW p \in Pids, Starting(p) PROVE recovered' = recovered \/ recovered' = TRUE
  BY <1>1 DEF Starting, OpenLock, Lock, LockBusy, ReadPid, NoPid, OwnerAlive, OwnerDead, RemoveLock,
    RemovePid, Relock, StillBusy, TruncPid, WritePid, Boot, RemoveSock, Listen, AddressInUse, Fails
<1>2. ASSUME NEW p \in Pids, Stopping(p) \/ Spawn(p) \/ Crash(p) PROVE recovered' = recovered
  BY <1>2 DEF Stopping, Spawn, Crash, CloseListener, CloseStore, StopRemoveSock, StopRemovePid, Unlock, Exit
<1>3. CASE Command
  BY <1>3 DEF Command, StopBegins, StopReads, StopSignals, SocketGone, Forced, GivesUp, Restarts,
    Restarted, NotRestarted, Reports, ResetDials, ResetRemoves, Quiet
<1> QED BY <1>1, <1>2, <1>3 DEF Next, vars

LEMMA VacantInit == Init => SockFree /\ PidGone
BY DEF Init, SockFree, PidGone

LEMMA VacantStep == IInv /\ SockFree /\ PidGone /\ [Next]_vars => SockFree' /\ PidGone'
<1> DEFINE Clear(c) == c \in {"listen", "flush", "stop_sock", "stop_pid", "unlock"}
<1> SUFFICES ASSUME IInv, SockFree, PidGone, [Next]_vars, ~recovered', NEW p \in Pids
             PROVE  (Clear(pc'[p]) => sock' = None) /\ (pc'[p] = "unlock" => pidFile' = None)
  BY DEF SockFree, PidGone
<1> USE DEF Step, files
<1>0. pc \in [Pids -> {"off", "failed", "open", "lock", "exit"} \cup RecoverPC \cup RunPC]
  BY DEF IInv, TypeOK
<1>r. ~recovered BY RecoveredStays
<1>s. Clear(pc[p]) => sock = None BY <1>r DEF SockFree
<1>u. pc[p] = "unlock" => pidFile = None BY <1>r DEF PidGone
<1>1. ASSUME NEW q \in Pids, Starting(q)
      PROVE  (Clear(pc'[p]) => sock' = None) /\ (pc'[p] = "unlock" => pidFile' = None)
  <2>1. CASE TruncPid(q) \/ WritePid(q) \/ RemoveSock(q) \/ Listen(q)
    <3>1. CASE q = p
      BY <1>0, <2>1, <3>1 DEF TruncPid, WritePid, RemoveSock, Listen
    <3>2. CASE q # p
      <4>1. pc[q] \in RunPC /\ pc'[p] = pc[p]
        BY <1>0, <2>1, <3>2 DEF TruncPid, WritePid, RemoveSock, Listen, RunPC
      <4>2. pc[p] \notin RunPC BY <1>r, <3>2, <4>1, RunnersHoldTheLock DEF IInv
      <4> QED BY <4>1, <4>2 DEF RunPC
    <3> QED BY <3>1, <3>2
  <2>2. CASE RemoveLock(q) \/ RemovePid(q)
    BY <1>r, <2>2 DEF RemoveLock, RemovePid, IInv, LockInv
  <2>3. CASE ~TruncPid(q) /\ ~WritePid(q) /\ ~RemoveSock(q) /\ ~Listen(q) /\ ~RemoveLock(q) /\ ~RemovePid(q)
    <3>1. sock' = sock /\ pidFile' = pidFile
      BY <1>1, <2>3 DEF Starting, OpenLock, Lock, LockBusy, ReadPid, NoPid, OwnerAlive, OwnerDead,
        Relock, StillBusy, Boot, AddressInUse, Fails
    <3>2. pc'[p] = pc[p] \/ ~Clear(pc'[p])
      BY <1>0, <1>1, <2>3 DEF Starting, OpenLock, Lock, LockBusy, ReadPid, NoPid, OwnerAlive, OwnerDead,
        Relock, StillBusy, Boot, AddressInUse, Fails, Ends
    <3> QED BY <1>s, <1>u, <3>1, <3>2
  <2> QED BY <2>1, <2>2, <2>3
<1>2. ASSUME NEW q \in Pids, Stopping(q) \/ Spawn(q) \/ Crash(q)
      PROVE  (Clear(pc'[p]) => sock' = None) /\ (pc'[p] = "unlock" => pidFile' = None)
  <2>1. CASE CloseListener(q) \/ StopRemoveSock(q) \/ StopRemovePid(q) \/ CloseStore(q)
    BY <1>0, <1>s, <1>u, <2>1 DEF CloseListener, StopRemoveSock, StopRemovePid, CloseStore
  <2>2. CASE Unlock(q) \/ Exit(q) \/ Crash(q) \/ Spawn(q)
    BY <1>0, <1>s, <1>u, <2>2 DEF Unlock, Exit, Crash, Spawn, Ends
  <2> QED BY <1>2, <2>1, <2>2 DEF Stopping
<1>3. CASE Command
  <2>1. pc'[p] = pc[p] \/ ~Clear(pc'[p])
    BY <1>0, <1>3 DEF Command, StopBegins, StopReads, StopSignals, SocketGone, Forced, GivesUp, Restarts,
      Restarted, NotRestarted, Reports, ResetDials, ResetRemoves, Quiet, Ends
  <2>2. sock' = sock /\ pidFile' = pidFile
    BY <1>3 DEF Command, StopBegins, StopReads, StopSignals, SocketGone, Forced, GivesUp, Restarts,
      Restarted, NotRestarted, Reports, ResetDials, ResetRemoves, Quiet
  <2> QED BY <1>s, <1>u, <2>1, <2>2
<1>4. CASE UNCHANGED vars
  BY <1>4, <1>s, <1>u DEF vars
<1> QED BY <1>1, <1>2, <1>3, <1>4 DEF Next

LEMMA Vacant == Spec => [](SockFree /\ PidGone)
BY VacantInit, VacantStep, LifecycleInvariant, PTL DEF Spec

(* The safety half of StartsAlone, for any number of processes: one that is alone
   is never told that the lock is taken, and until a recovery one that has the lock
   does not fail.  What crashed daemons leave behind locks nobody out. *)
THEOREM NotLockedOutTheorem ==
  Spec => [][\A p \in Pids :
               /\ pc[p] = "lock" /\ Alone(p) => pc'[p] # "read_pid"
               /\ ~recovered /\ pc[p] \in RunPC => pc'[p] # "failed"]_vars
<1>1. ASSUME IInv, SockFree, Next, NEW p \in Pids
      PROVE  /\ pc[p] = "lock" /\ Alone(p) => pc'[p] # "read_pid"
             /\ ~recovered /\ pc[p] \in RunPC => pc'[p] # "failed"
  <2> USE DEF Step
  <2>0. pc \in [Pids -> {"off", "failed", "open", "lock", "exit"} \cup RecoverPC \cup RunPC]
    BY <1>1 DEF IInv, TypeOK
  <2>1. ASSUME pc[p] = "lock", Alone(p) PROVE ~LockBusy(p)
    <3> SUFFICES ASSUME NEW q \in holds PROVE FALSE BY DEF LockBusy, Held
    <3>1. q \in Pids /\ pc[q] \in RunPC BY <1>1 DEF IInv, TypeOK, FlockOK
    <3> QED BY <2>1, <3>1 DEF Alone, RunPC
  <2>2. ASSUME ~recovered, pc[p] \in RunPC
        PROVE  ~NoPid(p) /\ ~OwnerAlive(p) /\ ~StillBusy(p) /\ ~AddressInUse(p)
    BY <1>1, <2>2 DEF NoPid, OwnerAlive, StillBusy, AddressInUse, RunPC, SockFree
  <2>3. ASSUME NEW q \in Pids, Starting(q)
        PROVE  /\ pc[p] = "lock" /\ Alone(p) => pc'[p] # "read_pid"
               /\ ~recovered /\ pc[p] \in RunPC => pc'[p] # "failed"
    <3>1. CASE q # p
      <4>1. pc'[p] = pc[p]
        BY <2>0, <2>3, <3>1 DEF Starting, OpenLock, Lock, LockBusy, ReadPid, NoPid, OwnerAlive, OwnerDead,
          RemoveLock, RemovePid, Relock, StillBusy, TruncPid, WritePid, Boot, RemoveSock, Listen, AddressInUse,
          Fails, Ends
      <4> QED BY <4>1 DEF RunPC
    <3>2. CASE q = p
      <4>1. pc[p] = "lock" /\ Alone(p) => pc'[p] # "read_pid"
        BY <2>0, <2>1, <2>3, <3>2 DEF Starting, OpenLock, Lock, ReadPid, NoPid, OwnerAlive, OwnerDead,
          RemoveLock, RemovePid, Relock, StillBusy, TruncPid, WritePid, Boot, RemoveSock, Listen, AddressInUse,
          Fails, Ends
      <4>2. ~recovered /\ pc[p] \in RunPC => pc'[p] # "failed"
        BY <2>0, <2>2, <2>3, <3>2 DEF Starting, OpenLock, Lock, LockBusy, ReadPid, OwnerDead,
          RemoveLock, RemovePid, Relock, TruncPid, WritePid, Boot, RemoveSock, Listen, RunPC
      <4> QED BY <4>1, <4>2
    <3> QED BY <3>1, <3>2
  <2>4. ASSUME NEW q \in Pids, Stopping(q) \/ Spawn(q) \/ Crash(q)
        PROVE  pc'[p] # "read_pid" \/ pc'[p] = pc[p]
    BY <2>0, <2>4 DEF Stopping, Spawn, Crash, CloseListener, CloseStore, StopRemoveSock, StopRemovePid,
      Unlock, Exit, Ends
  <2>5. ASSUME NEW q \in Pids, Stopping(q) \/ Spawn(q) \/ Crash(q)
        PROVE  pc'[p] # "failed" \/ pc'[p] = pc[p]
    BY <2>0, <2>5 DEF Stopping, Spawn, Crash, CloseListener, CloseStore, StopRemoveSock, StopRemovePid,
      Unlock, Exit, Ends
  <2>6. CASE Command
    <3>1. pc'[p] \in {pc[p], "off", "open"}
      BY <2>0, <2>6 DEF Command, StopBegins, StopReads, StopSignals, SocketGone, Forced, GivesUp, Restarts,
        Restarted, NotRestarted, Reports, ResetDials, ResetRemoves, Quiet, Ends
    <3> QED BY <3>1 DEF RunPC
  <2> QED BY <1>1, <2>3, <2>4, <2>5, <2>6 DEF Next, RunPC
<1>2. Spec => []SockFree BY Vacant, PTL
<1>3. IInv /\ SockFree /\ Next =>
        \A p \in Pids :
          /\ pc[p] = "lock" /\ Alone(p) => pc'[p] # "read_pid"
          /\ ~recovered /\ pc[p] \in RunPC => pc'[p] # "failed"
  BY <1>1
<1> QED BY <1>2, <1>3, LifecycleInvariant, PTL DEF Spec
-----------------------------------------------------------------------------
(* Ownership.  A step that moves one process moves its phase, or no phase. *)
Phases == [p \in Pids |-> Phase(pc[p])]

LEMMA PhaseMoves ==
  ASSUME TypeOK, NEW p \in Pids, NEW c, pc' = [pc EXCEPT ![p] = c]
  PROVE  /\ Phases[p] = Phase(pc[p])
         /\ Phases' = [Phases EXCEPT ![p] = Phase(c)]
         /\ Phase(c) = Phase(pc[p]) => Phases' = Phases
BY DEF Phases, TypeOK

(* A process that ends was out already, or dies as the owner. *)
LEMMA OwnerEnds ==
  ASSUME TypeOK, NEW p \in Pids, NEW how \in {"off", "failed"}, Ends(p, how), UNCHANGED <<pidFile, sock>>
  PROVE  OW!Die(p) \/ Phases' = Phases
<1>1. Phase(how) = "out" BY DEF Phase
<1>2. Phases[p] = Phase(pc[p]) /\ Phases' = [Phases EXCEPT ![p] = "out"]
  BY <1>1, PhaseMoves DEF Ends
<1>3. CASE Phases[p] = "out" BY <1>1, <1>2, <1>3, PhaseMoves DEF Ends
<1>4. CASE Phases[p] # "out" BY <1>2, <1>4 DEF OW!Die, Phases
<1> QED BY <1>3, <1>4

(* Every step of a daemon, until a recovery, is one of the owner or none at all. *)
LEMMA OwnStarting ==
  ASSUME IInv, SockFree, ~recovered, ~recovered', NEW p \in Pids, Starting(p)
  PROVE  OW!Own(p) \/ UNCHANGED <<Phases, pidFile, sock>>
<1> USE DEF Step, files
<1>0. TypeOK BY DEF IInv
<1>1. CASE OpenLock(p) \/ LockBusy(p) \/ ReadPid(p) \/ OwnerDead(p)
  <2>1. PICK c \in {"lock", "read_pid", "check", "remove_lock"} : pc' = [pc EXCEPT ![p] = c]
    BY <1>1 DEF OpenLock, LockBusy, ReadPid, OwnerDead
  <2>2. pc[p] \in {"open", "lock", "read_pid", "check"}
    BY <1>1 DEF OpenLock, LockBusy, ReadPid, OwnerDead
  <2>3. Phase(c) = Phase(pc[p]) BY <2>2 DEF Phase
  <2>4. Phases' = Phases BY <1>0, <2>1, <2>3, PhaseMoves
  <2>5. UNCHANGED <<pidFile, sock>> BY <1>1 DEF OpenLock, LockBusy, ReadPid, OwnerDead
  <2> QED BY <2>4, <2>5
<1>2. CASE Lock(p)
  <2>1. ASSUME NEW q \in Pids PROVE pc[q] \notin RunPC
    BY <1>2 DEF Lock, Held, IInv, LockInv
  <2>2. \A q \in Pids : Phases[q] = "out" BY <2>1 DEF Phases, Phase, RunPC
  <2>3. Phase("trunc_pid") = "starting" BY DEF Phase
  <2>c. pc' = [pc EXCEPT ![p] = "trunc_pid"] BY <1>2 DEF Lock
  <2>4. Phases' = [Phases EXCEPT ![p] = "starting"] BY <1>0, <2>3, <2>c, PhaseMoves
  <2>5. UNCHANGED <<pidFile, sock>> BY <1>2 DEF Lock
  <2>6. OW!Take(p) BY <2>2, <2>4, <2>5 DEF OW!Take, OW!Moves, Phases
  <2> QED BY <2>6 DEF OW!Own
<1>3. CASE NoPid(p) \/ OwnerAlive(p) \/ StillBusy(p) \/ AddressInUse(p)
  <2>1. Ends(p, "failed") /\ UNCHANGED <<pidFile, sock>>
    BY <1>3 DEF NoPid, OwnerAlive, StillBusy, AddressInUse, Fails
  <2> QED BY <1>0, <2>1, OwnerEnds DEF OW!Own
<1>4. CASE RemoveLock(p) \/ RemovePid(p) \/ Relock(p)
  BY <1>4 DEF RemoveLock, RemovePid, Relock, IInv, LockInv
<1>5. CASE TruncPid(p) \/ WritePid(p) \/ Boot(p) \/ RemoveSock(p)
  <2>1. PICK c \in {"write_pid", "boot", "remove_sock", "listen"} : pc' = [pc EXCEPT ![p] = c]
    BY <1>5 DEF TruncPid, WritePid, Boot, RemoveSock
  <2>2. pc[p] \in {"trunc_pid", "write_pid", "boot", "remove_sock"}
    BY <1>5 DEF TruncPid, WritePid, Boot, RemoveSock
  <2>3. Phase(c) = "starting" /\ Phase(pc[p]) = "starting" BY <2>2 DEF Phase
  <2>4. Phases' = Phases /\ Phases[p] = "starting" BY <1>0, <2>1, <2>3, PhaseMoves
  <2>5. CASE TruncPid(p) \/ WritePid(p)
    <3>1. pidFile' \in {Blank, p} /\ sock' = sock
      BY <2>5, LifecycleAssumption DEF TruncPid, WritePid, IInv, LockInv, LifecycleAssumption
    <3>2. OW!Claim(p) BY <2>4, <3>1 DEF OW!Claim, Phases
    <3> QED BY <3>2 DEF OW!Own
  <2>6. CASE Boot(p) BY <2>4, <2>6 DEF Boot
  <2>7. CASE RemoveSock(p)
    <3>1. OW!Clear(p) BY <2>4, <2>7 DEF OW!Clear, Phases, RemoveSock
    <3> QED BY <3>1 DEF OW!Own
  <2> QED BY <1>5, <2>5, <2>6, <2>7
<1>6. CASE Listen(p)
  <2>1. Phase("up") = "serving" /\ Phase("listen") = "starting" BY DEF Phase
  <2>2. Phases[p] = "starting" /\ Phases' = [Phases EXCEPT ![p] = "serving"]
    <3>1. pc[p] = "listen" /\ pc' = [pc EXCEPT ![p] = "up"] BY <1>6 DEF Listen
    <3> QED BY <1>0, <2>1, <3>1, PhaseMoves
  <2>3. pidFile = p /\ sock = None /\ sock' = p /\ pidFile' = pidFile
    BY <1>6 DEF Listen, IInv, FilesNameDaemon
  <2>4. OW!Serve(p) BY <2>2, <2>3 DEF OW!Serve, OW!Moves, Phases
  <2> QED BY <2>4 DEF OW!Own
<1> QED BY <1>1, <1>2, <1>3, <1>4, <1>5, <1>6 DEF Starting

LEMMA OwnStopping ==
  ASSUME IInv, SockFree, PidGone, ~recovered, ~recovered', NEW p \in Pids,
         Stopping(p) \/ Spawn(p) \/ Crash(p)
  PROVE  OW!Own(p) \/ UNCHANGED <<Phases, pidFile, sock>>
<1> USE DEF Step, files
<1>0. TypeOK BY DEF IInv
<1>1. CASE CloseListener(p)
  <2>0. Phase("up") = "serving" /\ Phase("flush") = "stopping" BY DEF Phase
  <2>1. Phases[p] = "serving" /\ Phases' = [Phases EXCEPT ![p] = "stopping"]
    <3>1. pc[p] = "up" /\ pc' = [pc EXCEPT ![p] = "flush"] BY <1>1 DEF CloseListener
    <3> QED BY <1>0, <2>0, <3>1, PhaseMoves
  <2>2. pidFile = p /\ sock = p /\ sock' = None /\ pidFile' = pidFile
    BY <1>1 DEF CloseListener, IInv, FilesNameDaemon
  <2>3. OW!Stop(p) BY <2>1, <2>2 DEF OW!Stop, OW!Moves, Phases
  <2> QED BY <2>3 DEF OW!Own
<1>2. CASE CloseStore(p) \/ StopRemoveSock(p) \/ StopRemovePid(p)
  <2>1. PICK c \in {"stop_sock", "stop_pid", "unlock"} : pc' = [pc EXCEPT ![p] = c]
    BY <1>2 DEF CloseStore, StopRemoveSock, StopRemovePid
  <2>2. pc[p] \in {"flush", "stop_sock", "stop_pid"} BY <1>2 DEF CloseStore, StopRemoveSock, StopRemovePid
  <2>0. Phase(c) = "stopping" /\ Phase(pc[p]) = "stopping" BY <2>2 DEF Phase
  <2>3. Phases' = Phases /\ Phases[p] = "stopping" BY <1>0, <2>0, <2>1, PhaseMoves
  <2>4. sock = None BY <2>2 DEF SockFree
  <2>5. pidFile = p BY <2>2 DEF IInv, FilesNameDaemon
  <2>6. CASE CloseStore(p) \/ StopRemoveSock(p) BY <2>3, <2>4, <2>6 DEF CloseStore, StopRemoveSock
  <2>7. CASE StopRemovePid(p)
    <3>1. OW!Withdraw(p) BY <2>3, <2>4, <2>5, <2>7 DEF OW!Withdraw, Phases, StopRemovePid
    <3> QED BY <3>1 DEF OW!Own
  <2> QED BY <1>2, <2>6, <2>7
<1>3. CASE Unlock(p)
  <2>0. Phase("unlock") = "stopping" /\ Phase("exit") = "out" BY DEF Phase
  <2>1. Phases[p] = "stopping" /\ Phases' = [Phases EXCEPT ![p] = "out"]
    <3>1. pc[p] = "unlock" /\ pc' = [pc EXCEPT ![p] = "exit"] BY <1>3 DEF Unlock
    <3> QED BY <1>0, <2>0, <3>1, PhaseMoves
  <2>2. pidFile = None /\ sock = None /\ UNCHANGED <<pidFile, sock>> BY <1>3 DEF Unlock, SockFree, PidGone
  <2>3. OW!Leave(p) BY <2>1, <2>2 DEF OW!Leave, OW!Moves, Phases
  <2> QED BY <2>3 DEF OW!Own
<1>4. CASE Exit(p) \/ Crash(p)
  <2>1. Ends(p, "off") /\ UNCHANGED <<pidFile, sock>> BY <1>4 DEF Exit, Crash
  <2> QED BY <1>0, <2>1, OwnerEnds DEF OW!Own
<1>5. CASE Spawn(p)
  <2>0. Phase("open") = Phase(pc[p]) BY <1>5 DEF Phase, Spawn
  <2>1. Phases' = Phases BY <1>0, <1>5, <2>0, PhaseMoves DEF Spawn
  <2> QED BY <1>5, <2>1 DEF Spawn
<1> QED BY <1>1, <1>2, <1>3, <1>4, <1>5 DEF Stopping

(* The commands start daemons and kill them, and leave the files alone. *)
LEMMA OwnCommand ==
  ASSUME IInv, Command
  PROVE  (\E p \in Pids : OW!Own(p)) \/ UNCHANGED <<Phases, pidFile, sock>>
<1> USE DEF files
<1>0. TypeOK BY DEF IInv
<1>1. UNCHANGED <<pidFile, sock>>
  BY DEF Command, StopBegins, StopReads, StopSignals, SocketGone, Forced, GivesUp, Restarts,
    Restarted, NotRestarted, Reports, ResetDials, ResetRemoves, Quiet
<1>2. CASE Forced
  <2>1. CASE Alive(target)
    <3>1. target \in Pids /\ Ends(target, "off") BY <1>0, <1>2, <2>1 DEF Forced, TypeOK
    <3> QED BY <1>0, <1>1, <3>1, OwnerEnds DEF OW!Own
  <2>2. CASE ~Alive(target) BY <1>1, <1>2, <2>2 DEF Forced, Phases
  <2> QED BY <2>1, <2>2
<1>3. CASE Restarts
  <2>1. PICK p \in Pids : Dead(p) /\ pc' = [pc EXCEPT ![p] = "open"] BY <1>3 DEF Restarts
  <2>2. Phase("open") = Phase(pc[p]) BY <2>1 DEF Phase
  <2> QED BY <1>0, <1>1, <2>1, <2>2, PhaseMoves
<1>4. ASSUME ~Forced, ~Restarts PROVE UNCHANGED pc
  BY <1>4 DEF Command, StopBegins, StopReads, StopSignals, SocketGone, GivesUp,
    Restarted, NotRestarted, Reports, ResetDials, ResetRemoves, Quiet
<1> QED BY <1>1, <1>2, <1>3, <1>4 DEF Phases

(* The system calls of the daemons and of the commands beside them implement
   Ownership: until a lock is taken for stale, the directory has one owner at a time,
   only the owner touches the files that lead to it, it is found through both while
   it serves, and it unlocks only when both are gone. *)
THEOREM OwnershipTheorem == Spec => ImplementsOwnership
<1>1. Init => OW!Init
  <2> SUFFICES ASSUME Init PROVE OW!Init
    OBVIOUS
  <2>1. \A p \in Pids : Phase(pc[p]) = "out" BY DEF Init, Phase
  <2> QED BY <2>1 DEF Init, OW!Init
<1>2. IInv /\ SockFree /\ PidGone /\ [Next]_vars => [OW!Next]_(OW!owVars)
  <2> SUFFICES ASSUME IInv, SockFree, PidGone, [Next]_vars PROVE [OW!Next]_(OW!owVars)
    OBVIOUS
  <2>1. CASE recovered' = TRUE BY <2>1 DEF OW!Next
  <2>2. CASE recovered' # TRUE
    <3>1. recovered' = recovered BY <2>2, RecoveredStays
    <3>2. ~recovered /\ ~recovered' BY <2>2, <3>1 DEF IInv, TypeOK
    <3>3. (\E p \in Pids : OW!Own(p)) \/ UNCHANGED <<Phases, pidFile, sock>>
      <4>1. CASE Next BY <3>2, <4>1, OwnStarting, OwnStopping, OwnCommand DEF Next
      <4>2. CASE UNCHANGED vars BY <4>2 DEF vars, files, Phases
      <4> QED BY <4>1, <4>2
    <3>4. CASE \E p \in Pids : OW!Own(p) BY <3>1, <3>2, <3>4 DEF OW!Next
    <3>5. CASE UNCHANGED <<Phases, pidFile, sock>> BY <3>1, <3>5 DEF OW!owVars, Phases
    <3> QED BY <3>3, <3>4, <3>5
  <2> QED BY <2>1, <2>2
<1> QED BY <1>1, <1>2, LifecycleInvariant, Vacant, PTL DEF Spec, ImplementsOwnership, OW!Spec
================================================================================
