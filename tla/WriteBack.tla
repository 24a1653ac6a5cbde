------------------------------ MODULE WriteBack ------------------------------
(***************************************************************************)
(* What the hunch daemon promises about the knowledge it keeps: a           *)
(* write-back cache.  Commands are learned in memory, copied to disk later, *)
(* and only ever removed from disk because they were first forgotten in     *)
(* memory.  mem and disk give, for every transition, how often it has been  *)
(* observed; 0 means that it is unknown.                                    *)
(***************************************************************************)
EXTENDS Naturals

CONSTANT Keys   \* the transitions: (previous commands, next command) pairs

VARIABLES
  mem,      \* counts the daemon answers from
  disk,     \* counts that survive the process
  due,      \* transitions forgotten in memory that the disk is about to forget
  residue   \* transitions whose removal from disk failed

wbVars == <<mem, disk, due, residue>>

Counts  == [Keys -> Nat]
Nothing == [k \in Keys |-> 0]
Without(c, K) == [k \in Keys |-> IF k \in K THEN 0 ELSE c[k]]

Init ==
  /\ mem = Nothing
  /\ disk = Nothing
  /\ due = {}
  /\ residue = {}

(* Memory only learns: a record, an import, the load at start-up. *)
Learn ==
  /\ mem' \in Counts
  /\ \A k \in Keys : mem[k] <= mem'[k]
  /\ UNCHANGED <<disk, due, residue>>

(* A reset or a decay begins: it drops transitions from memory and owes the
   disk the same deletion. *)
Forget(K) ==
  /\ due = {}
  /\ mem' = Without(mem, K)
  /\ due' = K
  /\ UNCHANGED <<disk, residue>>

(* The deletion reaches the disk. *)
Erase ==
  /\ disk' = Without(disk, due)
  /\ due' = {}
  /\ residue' = residue \ due
  /\ UNCHANGED mem

(* The deletion fails: the rows stay behind and are remembered as residue. *)
GiveUp ==
  /\ residue' = residue \cup due
  /\ due' = {}
  /\ UNCHANGED <<mem, disk>>

(* A save: some transitions get a count that memory has already reached, never
   less than the disk had (residue aside), and never while a deletion is due. *)
Save(K) ==
  /\ due = {}
  /\ disk' \in Counts
  /\ \A k \in Keys \ K : disk'[k] = disk[k]
  /\ \A k \in K : disk'[k] <= mem[k] /\ (k \notin residue => disk[k] <= disk'[k])
  /\ residue' = residue \ K
  /\ UNCHANGED <<mem, due>>

(* The process ends, in whatever state: memory is gone. *)
Lose ==
  /\ mem' = Nothing
  /\ due' = {}
  /\ residue' = {}
  /\ UNCHANGED disk

Next ==
  \/ Learn \/ Erase \/ GiveUp \/ Lose
  \/ \E K \in SUBSET Keys : Forget(K) \/ Save(K)

Spec == Init /\ [][Next]_wbVars
==============================================================================
