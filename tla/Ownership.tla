------------------------------ MODULE Ownership ------------------------------
(***************************************************************************)
(* What the lock file, the pid file and the socket file of hunch promise to *)
(* the processes around one data directory.  One daemon at a time owns the  *)
(* directory.  The owner alone touches the two files that lead to it; it is *)
(* found through both for as long as it serves, and it gives the directory  *)
(* up only when both are gone.  One that dies leaves them to its successor. *)
(* The promise ends where a daemon decides that the lock of another is stale. *)
(***************************************************************************)
CONSTANTS
  Pids,    \* process ids of daemons
  None,    \* no file
  Blank    \* a pid file without a pid

VARIABLES
  phase,      \* what each process does with the directory
  pid,        \* content of the pid file
  sock,       \* whose listener the socket file leads to
  contested   \* a lock has been taken for stale

owVars == <<phase, pid, sock, contested>>

Moves(p, from, to) == phase[p] = from /\ phase' = [phase EXCEPT ![p] = to]

Init ==
  /\ phase = [p \in Pids |-> "out"]
  /\ pid = None /\ sock = None
  /\ contested = FALSE

(* A daemon becomes the owner, with whatever files the last one has left. *)
Take(p) ==
  /\ \A q \in Pids : phase[q] = "out"
  /\ Moves(p, "out", "starting")
  /\ UNCHANGED <<pid, sock>>

(* It puts its pid in place of an old one, and removes an old socket. *)
Claim(p) ==
  /\ phase[p] = "starting"
  /\ pid' \in {Blank, p}
  /\ UNCHANGED <<phase, sock>>

Clear(p) ==
  /\ phase[p] = "starting"
  /\ sock' = None
  /\ UNCHANGED <<phase, pid>>

(* It comes up, in nobody's place and not before its pid can be read. *)
Serve(p) ==
  /\ pid = p /\ sock = None
  /\ Moves(p, "starting", "serving")
  /\ sock' = p
  /\ UNCHANGED pid

(* It stops serving.  The pid file outlives the socket, and the ownership both. *)
Stop(p) ==
  /\ pid = p /\ sock = p
  /\ Moves(p, "serving", "stopping")
  /\ sock' = None
  /\ UNCHANGED pid

Withdraw(p) ==
  /\ phase[p] = "stopping" /\ pid = p /\ sock = None
  /\ pid' = None
  /\ UNCHANGED <<phase, sock>>

Leave(p) ==
  /\ pid = None /\ sock = None
  /\ Moves(p, "stopping", "out")
  /\ UNCHANGED <<pid, sock>>

(* Killed or crashed at any point, it leaves its files behind. *)
Die(p) ==
  /\ phase[p] # "out" /\ phase' = [phase EXCEPT ![p] = "out"]
  /\ UNCHANGED <<pid, sock>>

Own(p) ==
  \/ Take(p) \/ Claim(p) \/ Clear(p) \/ Serve(p)
  \/ Stop(p) \/ Withdraw(p) \/ Leave(p) \/ Die(p)

Next ==
  \/ ~contested /\ UNCHANGED contested /\ \E p \in Pids : Own(p)
  \/ contested' = TRUE

Spec == Init /\ [][Next]_owVars
==============================================================================
