--------------------------- MODULE DaemonProperties ---------------------------
(***************************************************************************)
(* What must hold of the daemon's goroutines, of memory against database,   *)
(* and what must eventually happen.                                         *)
(***************************************************************************)
EXTENDS Daemon

FlushPC == {"flush_all", "flush_save", "flush_raws", "flush_save_raws", "flush_swap", "flush_again"}
ResetPC == {"reset_graph", "reset_pred", "reset_clear", "reset_clear_raws", "reset_raws", "reset_dirty"}
DecayPC == {"decay_graph", "decay_raws", "decay_prune"}
Critical == FlushPC \cup ResetPC \cup DecayPC

ConnPC == {"idle", "load", "graph", "raws", "dirty", "signal",
           "import_load", "import_merge", "flush_lock", "import_new", "import_pred",
           "reset_lock"} \cup FlushPC \cup ResetPC
BootPC  == {"down", "seed", "flush_lock", "pred", "decay_lock", "listen", "up"} \cup FlushPC \cup DecayPC
StopPC  == {"idle", "flush_lock", "close_db", "exit"} \cup FlushPC
LoopPC  == {"idle", "flush_lock", "done"} \cup FlushPC
SweepPC == {"idle", "decay_lock", "done"} \cup DecayPC

(* Each goroutine runs only the code of its own function. *)
PlaceOK ==
  /\ pc \in [Procs -> ConnPC \cup BootPC \cup StopPC \cup LoopPC \cup SweepPC]
  /\ \A h \in Conns : pc[h] \in ConnPC
  /\ pc[Boot] \in BootPC /\ pc[Stop] \in StopPC /\ pc[Loop] \in LoopPC /\ pc[Sweep] \in SweepPC

(* A handler is inside its request while it loops, and has loaded the graph it
   writes to. *)
LocalsOK ==
  /\ hg \in [Conns -> Graphs \cup {Nil}]
  /\ req \in [Conns -> Seq(Keys)]
  /\ ix \in [Conns -> Nat]
  /\ \A h \in Conns :
       /\ pc[h] = "load" => Len(req[h]) > 0
       /\ pc[h] \in {"graph", "raws"} => ix[h] \in 1..Len(req[h])
       /\ pc[h] \in {"graph", "import_merge", "import_pred"} => hg[h] \in Graphs

DataOK ==
  /\ heap \in [Graphs -> Count] /\ g \in Graphs /\ pred \in Graphs
  /\ old \subseteq Keys /\ raws \subseteq Templates
  /\ dirty \in Nat /\ flushCh \in BOOLEAN
  /\ mu \in Procs \cup {Free} /\ ctxDone \in BOOLEAN
  /\ all \in Count /\ rawAll \subseteq Templates
  /\ pruned \subseteq Keys /\ orphaned \subseteq Templates
  /\ db \in Count /\ dbRaws \subseteq Templates /\ residue \subseteq Keys
  /\ used \in [Bounds -> Nat]

(* Every variable has its type. *)
TypeOK == PlaceOK /\ LocalsOK /\ DataOK

(* flushMu serializes everything that writes the database: whoever is between
   Lock and Unlock of a flush, a reset or a decay is the holder ("It holds
   flushMu so it never interleaves with a flush", daemon.go). *)
MutexOK == \A p \in Procs : pc[p] \in Critical <=> mu = p

(* Transitions forgotten in memory whose rows are still to be deleted by the
   reset or decay that is running. *)
Due ==
  IF \E h \in Conns : pc[h] \in {"reset_pred", "reset_clear"} THEN Keys
  ELSE IF \E p \in {Boot, Sweep} : pc[p] \in {"decay_raws", "decay_prune"} THEN pruned
  ELSE {}

(* A running daemon never has more on disk than in memory: no flush writes back
   what a reset or a decay has removed.  Rows whose deletion failed are the
   exception, until a flush overwrites them. *)
StoreBehindGraph ==
  pc[Boot] # "down" =>
    \A k \in Keys \ (residue \cup Due) : db[k] <= heap[g][k]

(* The database and the graph together are a write-back cache. *)
WB == INSTANCE WriteBack
        WITH mem <- heap[g], disk <- db, due <- Due, residue <- residue
ImplementsWriteBack == WB!Spec

(* Once no reset or import is half-way, predictions are made from the graph that
   records go to. *)
PredictorServesGraph ==
  pc[Boot] = "up" /\ (\A h \in Conns : pc[h] \notin {"reset_pred", "import_new", "import_pred"})
    => pred = g

(* What the three above need to be inductive.  A process that is down has no
   memory and no goroutines; and the snapshot a flush is about to save is no more
   than the graph has and no less than the rows it replaces. *)
DownOK ==
  pc[Boot] = "down" =>
    heap[g] = Empty /\ residue = {} /\ ~ctxDone /\ \A p \in Procs \ {Boot} : pc[p] = "idle"

SnapshotOK ==
  \A p \in Procs : pc[p] = "flush_save" =>
    \A k \in Keys : all[k] <= heap[g][k] /\ (k \notin residue => db[k] <= all[k])

IInv == TypeOK /\ MutexOK /\ DownOK /\ SnapshotOK /\ StoreBehindGraph

-----------------------------------------------------------------------------
(* What is in the graph and not in the database is on its way there. *)
Unsaved == {k \in Keys : db[k] < heap[g][k]}

Tracked(k) ==
  \/ dirty > 0 \/ flushCh
  \/ \E h \in Conns : pc[h] \in {"graph", "raws", "dirty"} /\ hg[h] = g
  \/ pc[Boot] = "seed"
  \/ \E p \in Procs : pc[p] \in {"flush_lock", "flush_all", "flush_again"}
  \/ \E p \in Procs : pc[p] = "flush_save" /\ all[k] = heap[g][k]

(* A record that is in the graph and not in the database is never forgotten by
   the bookkeeping: dirty counts it, a flush has been requested, its handler is
   still to count it, or the flush that will save it is running.  In particular
   a record that arrives while a flush is saving is not lost when that flush
   clears dirty.  (After st.close nothing can be saved any more.) *)
UnsavedIsTracked == pc[Stop] # "exit" => \A k \in Unsaved : Tracked(k)

(* A stop under the best of conditions: no request is under way when it closes the
   listener, and its own flush succeeds.  Those of others may fail. *)
OrderlyStop ==
  /\ StopListener => \A h \in Conns : pc[h] = "idle"
  /\ ~FlushSaveFails(Stop)
  /\ FlushSaveRaws(Stop) => dbRaws' = dbRaws \cup rawAll

(* From the final flush on the database has all that the graph has, and nothing else
   but rows a decay has failed to delete or is deleting, and every raw example. *)
StopSaves ==
  pc[Stop] \in {"close_db", "exit"} =>
    /\ \A k \in Keys : heap[g][k] <= db[k] /\ (k \notin residue \cup Due => db[k] = heap[g][k])
    /\ raws \subseteq dbRaws

(* What makes it inductive: once the listener is closed nothing adds to the graph or
   to the raw examples, so a snapshot taken since is all there is; and what a decay
   is about to delete is not in the graph. *)
FinalInv ==
  pc[Stop] # "idle" =>
    /\ pc[Boot] = "up" /\ \A h \in Conns : pc[h] = "idle"
    /\ pc[Stop] = "flush_save" => all = heap[g]
    /\ pc[Stop] = "flush_save_raws" => rawAll = raws
    /\ pc[Stop] \notin {"flush_lock", "flush_all", "flush_save"} => \A k \in Keys : heap[g][k] <= db[k]
    /\ pc[Stop] \in {"flush_swap", "flush_again", "close_db", "exit"} => raws \subseteq dbRaws
    /\ pc[Stop] \in {"close_db", "exit"} =>
         /\ pc[Loop] = "flush_save" => all = heap[g]
         /\ pc[Sweep] \in {"decay_raws", "decay_prune"} => \A k \in pruned : heap[g][k] = 0
         /\ pc[Sweep] = "decay_prune" => raws \cap orphaned = {}

-----------------------------------------------------------------------------
(* Fairness.  A goroutine that can take a step eventually does, a ready case of
   a select included (the flush ticker's too), and one that waits for flushMu
   gets it, although others take it in between: sync.Mutex hands itself to a
   waiter that has waited for 1 ms.  Each goroutine is at one place at a time, so
   strong fairness of its steps together says both.  Nothing is assumed of
   requests, signals, crashes, restarts or the daily decay. *)
ServeStep(h) == Handler(h) /\ pc[h] # "idle"
BootStep == BootSeed \/ BootPredictor \/ BootListen \/ Flush(Boot) \/ Decay(Boot)
StopStep == StopListener \/ Flush(Stop) \/ StopCloseDb \/ Exit
LoopStep == LoopToken \/ LoopTick \/ Flush(Loop)

Fairness ==
  /\ \A h \in Conns : SF_vars(ServeStep(h) \/ Flush(h))
  /\ SF_vars(BootStep) /\ SF_vars(StopStep) /\ SF_vars(LoopStep) /\ SF_vars(Decay(Sweep))

FairSpec == Spec /\ Fairness

(* Every request is answered unless the process ends first: no handler waits
   for flushMu for ever, whoever else flushes, resets or decays. *)
RequestsAnswered ==
  \A h \in Conns : pc[h] # "idle" ~> pc[h] = "idle"

(* What the graph learns reaches the database: a count is eventually saved,
   unless the entry is wiped or pruned first, or a stop or crash intervenes. *)
EventuallySaved ==
  \A k \in Keys : \A n \in 1..(MaxRecords + 1) :
    (pc[Boot] = "up" /\ heap[g][k] = n) ~> (db[k] >= n \/ heap[g][k] < n \/ ctxDone \/ pc[Boot] = "down")
===============================================================================
