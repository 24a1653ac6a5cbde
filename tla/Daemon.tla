-------------------------------- MODULE Daemon --------------------------------
(***************************************************************************)
(* The hunch daemon: the goroutines of one process over the in-memory       *)
(* graph, the predictor, the raw-example store, the dirty counter, the      *)
(* flush channel, flushMu and the SQLite database, with the process ending  *)
(* by a crash or by a clean stop and starting again from the database.      *)
(*                                                                          *)
(* One action is what a goroutine does between two accesses to state shared *)
(* with the others: each RecordObs holds the graph's own mutex, each SQLite *)
(* statement or transaction is atomic, each atomic.Pointer and atomic.Int32 *)
(* operation is a step.                                                     *)
(*                                                                          *)
(* The data is reduced to what the properties tell apart.  A transition is  *)
(* a key; an entry of the graph is its observation count (0: no entry) and  *)
(* whether it is old enough for Decay to prune it; the raw-example store is *)
(* the set of templates it holds an example of.                             *)
(***************************************************************************)
EXTENDS Integers, Sequences

CONSTANTS
  Keys,            \* transitions: (state key, next template) pairs
  Templates,       \* templates of a next command
  TemplateOf,      \* the next template of each transition
  Requests,        \* what a record request expands to: the transitions, in
                   \* BackoffStates order, that its loop visits
  Seeds,           \* importable seeds: [count, fresh], see Merge
  Graphs,          \* identities of graph objects (what an atomic.Pointer holds)
  Conns,           \* connection goroutines
  FlushThreshold,  \* records after which a flush is requested
  Faults,          \* database operations that may fail
  MaxRecords,      \* bound on record and record_raws requests
  MaxImports,      \* bound on imports, seeds included
  MaxResets,       \* bound on resets
  MaxLives,        \* bound on how often the process is started
  MaxStops         \* bound on how often it is told to stop

FaultKinds == {"save", "save_raws", "clear", "prune"}

(* The goroutines other than the connections': start() and stop() of the main
   goroutine, flushLoop, and decayLoop. *)
Boot  == "boot"
Stop  == "stop"
Loop  == "loop"
Sweep == "sweep"
Free  == "free"      \* flushMu is not held
Nil   == "nil"       \* a pointer that is not set
Procs == Conns \cup {Boot, Stop, Loop, Sweep}

Count == [Keys -> Nat]
Bounds == {"records", "imports", "resets", "lives", "stops"}

ASSUME DaemonAssumption ==
  /\ TemplateOf \in [Keys -> Templates]
  /\ Requests \subseteq Seq(Keys) \ {<<>>}
  /\ \A s \in Seeds : s.count \in Count /\ s.fresh \subseteq Keys
  /\ Graphs # {}
  /\ Conns \cap {Boot, Stop, Loop, Sweep, Free} = {} /\ Nil \notin Graphs
  /\ FlushThreshold \in Nat
  /\ Faults \subseteq FaultKinds
  /\ {MaxRecords, MaxImports, MaxResets, MaxLives, MaxStops} \subseteq Nat

VARIABLES
  heap,     \* the counts in every graph object
  g,        \* d.g: the graph records and flushes use
  pred,     \* the graph that d.pred, the predictor, reads
  old,      \* entries of d.g idle for long enough to be pruned
  raws,     \* d.raws: templates with a raw example in memory
  dirty,    \* d.dirty: records since the last flush
  flushCh,  \* d.flushCh holds its one token
  mu,       \* holder of flushMu
  ctxDone,  \* the context is cancelled
  pc,       \* where each goroutine is
  hg,       \* the graph a connection's handler has loaded
  req,      \* the transitions a record handler visits
  ix,       \* its position in them
  all,      \* flushDB's snapshot of the graph
  rawAll,   \* flushDB's snapshot of the raw store
  pruned,   \* decay: transitions removed from the graph
  orphaned, \* decay: templates no surviving transition has
  db,       \* transitions table
  dbRaws,   \* raw_examples table: templates with a row
  residue,  \* history: rows whose deletion failed since they were forgotten
  used      \* how much of each bound is used up

memory == <<heap, old>>
ptrs   == <<g, pred>>
sched  == <<dirty, flushCh>>
conns  == <<hg, req, ix>>
flushV == <<all, rawAll>>
decayV == <<pruned, orphaned>>
disk   == <<db, dbRaws, residue>>
vars   == <<memory, ptrs, raws, sched, mu, ctxDone, pc, conns, flushV, decayV, disk, used>>

Empty == [k \in Keys |-> 0]
Max2(a, b) == IF a > b THEN a ELSE b
Known(c) == {k \in Keys : c[k] > 0}
Without(c, K) == [k \in Keys |-> IF k \in K THEN 0 ELSE c[k]]

Goto(p, l) == pc' = [pc EXCEPT ![p] = l]
Step(p, from, to) == pc[p] = from /\ Goto(p, to)
Use(b) == used' = [used EXCEPT ![b] = @ + 1]
(* The locals of a function go out of scope when it returns. *)
HandlerReturns(h) ==
  /\ hg' = [hg EXCEPT ![h] = Nil]
  /\ req' = [req EXCEPT ![h] = <<>>]
  /\ ix' = [ix EXCEPT ![h] = 0]
FlushReturns == all' = Empty /\ rawAll' = {}
DecayReturns == pruned' = {} /\ orphaned' = {}

MayFail(op) == op \in Faults \/ pc[Stop] = "exit"   \* after st.close every call fails
CanSucceed == pc[Stop] # "exit"

(* The daemon accepts connections from net.Listen to listener.Close; its
   background loops start earlier, while start() still runs. *)
Listening == pc[Boot] = "up" /\ pc[Stop] = "idle"
LoopsRun  == pc[Boot] \in {"decay_lock", "decay_graph", "decay_raws", "decay_prune", "listen", "up"}

Init ==
  /\ heap = [x \in Graphs |-> Empty]
  /\ g = CHOOSE x \in Graphs : TRUE
  /\ pred = g
  /\ old = {} /\ raws = {}
  /\ dirty = 0 /\ flushCh = FALSE /\ mu = Free /\ ctxDone = FALSE
  /\ pc = [p \in Procs |-> IF p = Boot THEN "down" ELSE "idle"]
  /\ hg = [h \in Conns |-> Nil]
  /\ req = [h \in Conns |-> <<>>]
  /\ ix = [h \in Conns |-> 0]
  /\ all = Empty /\ rawAll = {} /\ pruned = {} /\ orphaned = {}
  /\ db = Empty /\ dbRaws = {} /\ residue = {}
  /\ used = [b \in Bounds |-> 0]

-----------------------------------------------------------------------------
(* record: handleRecord.  Rejected requests (a bad timestamp, a command the
   redactor finds sensitive) change nothing and are left out. *)

AcceptRecord(h) ==
  /\ Listening /\ Step(h, "idle", "load")
  /\ used["records"] < MaxRecords /\ Use("records")
  /\ \E r \in Requests : req' = [req EXCEPT ![h] = r]
  /\ UNCHANGED <<memory, ptrs, raws, sched, mu, ctxDone, hg, ix, flushV, decayV, disk>>

(* g := d.g.Load() *)
RecordLoad(h) ==
  /\ Step(h, "load", "graph")
  /\ hg' = [hg EXCEPT ![h] = g]
  /\ ix' = [ix EXCEPT ![h] = 1]
  /\ UNCHANGED <<memory, ptrs, raws, sched, mu, ctxDone, req, flushV, decayV, disk, used>>

(* Where the loop over the states goes next: round again, or on to l.
   Plausible bug: the loop runs once too often. *)
BadNextState(h, again, l) ==
  IF ix[h] <= Len(req[h])
  THEN Goto(h, again) /\ ix' = [ix EXCEPT ![h] = @ + 1]
  ELSE Goto(h, l) /\ ix' = [ix EXCEPT ![h] = 1]

NextState(h, again, l) ==
  IF ix[h] < Len(req[h])
  THEN Goto(h, again) /\ ix' = [ix EXCEPT ![h] = @ + 1]
  ELSE Goto(h, l) /\ ix' = [ix EXCEPT ![h] = 1]

RecordObs(h) ==
  LET k == req[h][ix[h]] IN
  /\ pc[h] = "graph"
  /\ heap' = [heap EXCEPT ![hg[h]][k] = @ + 1]
  /\ old' = IF hg[h] = g THEN old \ {k} ELSE old
  /\ NextState(h, "graph", "raws")
  /\ UNCHANGED <<ptrs, raws, sched, mu, ctxDone, hg, req, flushV, decayV, disk, used>>

RecordRaw(h) ==
  /\ pc[h] = "raws"
  /\ raws' = raws \cup {TemplateOf[req[h][ix[h]]]}
  /\ NextState(h, "raws", "dirty")
  /\ UNCHANGED <<memory, ptrs, sched, mu, ctxDone, hg, req, flushV, decayV, disk, used>>

(* d.dirty.Add(1) >= flushThreshold.  Plausible bug: the handler answers OK
   without counting a record it placed in the graph. *)
BadRecordDirty(h) ==
  /\ Step(h, "dirty", "idle") /\ HandlerReturns(h)
  /\ UNCHANGED <<memory, ptrs, raws, sched, mu, ctxDone, flushV, decayV, disk, used>>

RecordDirty(h) ==
  /\ pc[h] = "dirty"
  /\ dirty' = dirty + 1
  /\ Goto(h, IF dirty + 1 >= FlushThreshold THEN "signal" ELSE "idle")
  /\ HandlerReturns(h)
  /\ UNCHANGED <<memory, ptrs, raws, flushCh, mu, ctxDone, flushV, decayV, disk, used>>

(* The non-blocking send: a token is already there, or is now. *)
RecordSignal(h) ==
  /\ Step(h, "signal", "idle")
  /\ flushCh' = TRUE
  /\ UNCHANGED <<memory, ptrs, raws, dirty, mu, ctxDone, conns, flushV, decayV, disk, used>>

(* record_raws: handleRecordRaws folds imported examples into d.raws only. *)
RecordRaws(h) ==
  /\ Listening /\ pc[h] = "idle" /\ used["records"] < MaxRecords /\ Use("records")
  /\ \E t \in Templates : raws' = raws \cup {t}
  /\ UNCHANGED <<memory, ptrs, sched, mu, ctxDone, pc, conns, flushV, decayV, disk>>

-----------------------------------------------------------------------------
(* flush: run by flushLoop, by an import, by the seed import of start() and by
   stop().  AfterFlush is where its caller goes on. *)

AfterFlush(p) ==
  CASE p = Boot -> "pred" [] p = Stop -> "close_db" [] p = Loop -> "idle"
    [] OTHER -> "import_new"

(* flushLoop's select.  It leaves at ctx.Done; the token and the ticker lead to
   a flush, the ticker only when there is something to flush. *)
LoopDone ==
  /\ ctxDone /\ Step(Loop, "idle", "done")
  /\ UNCHANGED <<memory, ptrs, raws, sched, mu, ctxDone, conns, flushV, decayV, disk, used>>

LoopToken ==
  /\ LoopsRun /\ flushCh /\ Step(Loop, "idle", "flush_lock")
  /\ flushCh' = FALSE
  /\ UNCHANGED <<memory, ptrs, raws, dirty, mu, ctxDone, conns, flushV, decayV, disk, used>>

(* Plausible bug: the ticker waits for as many records as the handlers do. *)
BadLoopTick ==
  /\ LoopsRun /\ dirty >= FlushThreshold /\ Step(Loop, "idle", "flush_lock")
  /\ UNCHANGED <<memory, ptrs, raws, sched, mu, ctxDone, conns, flushV, decayV, disk, used>>

LoopTick ==
  /\ LoopsRun /\ dirty > 0 /\ Step(Loop, "idle", "flush_lock")
  /\ UNCHANGED <<memory, ptrs, raws, sched, mu, ctxDone, conns, flushV, decayV, disk, used>>

(* flushMu.Lock.  Plausible bug: a flush that does not wait for the mutex. *)
BadFlushLock(p) ==
  /\ Step(p, "flush_lock", "flush_all")
  /\ UNCHANGED <<memory, ptrs, raws, sched, mu, ctxDone, conns, flushV, decayV, disk, used>>

FlushLock(p) ==
  /\ mu = Free /\ mu' = p
  /\ Step(p, "flush_lock", "flush_all")
  /\ UNCHANGED <<memory, ptrs, raws, sched, ctxDone, conns, flushV, decayV, disk, used>>

(* d.g.Load().All() under the graph's read lock. *)
FlushAll(p) ==
  /\ Step(p, "flush_all", "flush_save")
  /\ all' = heap[g]
  /\ UNCHANGED <<memory, ptrs, raws, sched, mu, ctxDone, conns, rawAll, decayV, disk, used>>

(* store.save upserts the snapshot in one transaction; rows the snapshot does
   not have stay.  An empty snapshot is not saved and counts as success. *)
FlushSave(p) ==
  /\ Step(p, "flush_save", "flush_raws")
  /\ CanSucceed \/ Known(all) = {}
  /\ db' = [k \in Keys |-> IF all[k] > 0 THEN all[k] ELSE db[k]]
  /\ residue' = residue \ Known(all)
  /\ UNCHANGED <<memory, ptrs, raws, sched, mu, ctxDone, conns, flushV, decayV, dbRaws, used>>

(* A failed save skips the raw examples and leaves dirty alone. *)
FlushSaveFails(p) ==
  /\ MayFail("save") /\ Known(all) # {}
  /\ Step(p, "flush_save", AfterFlush(p))
  /\ mu' = Free /\ FlushReturns
  /\ UNCHANGED <<memory, ptrs, raws, sched, ctxDone, conns, decayV, disk, used>>

FlushRaws(p) ==
  /\ Step(p, "flush_raws", "flush_save_raws")
  /\ rawAll' = raws
  /\ UNCHANGED <<memory, ptrs, raws, sched, mu, ctxDone, conns, all, decayV, disk, used>>

(* A failure to save the raw examples is logged; flushDB succeeds all the same. *)
FlushSaveRaws(p) ==
  /\ Step(p, "flush_save_raws", "flush_swap")
  /\ \/ CanSucceed /\ dbRaws' = dbRaws \cup rawAll
     \/ MayFail("save_raws") /\ dbRaws' = dbRaws
  /\ UNCHANGED <<memory, ptrs, raws, sched, mu, ctxDone, conns, flushV, decayV, db, residue, used>>

(* d.dirty.Swap(0) > 0: something may have been recorded since the snapshot.
   Plausible bug: dirty is cleared and no second flush is requested. *)
BadFlushSwap(p) ==
  /\ Step(p, "flush_swap", AfterFlush(p))
  /\ dirty' = 0 /\ mu' = Free /\ FlushReturns
  /\ UNCHANGED <<memory, ptrs, raws, flushCh, ctxDone, conns, decayV, disk, used>>

FlushSwap(p) ==
  /\ pc[p] = "flush_swap"
  /\ dirty' = 0
  /\ IF dirty > 0 THEN Goto(p, "flush_again") /\ mu' = mu
                  ELSE Goto(p, AfterFlush(p)) /\ mu' = Free
  /\ FlushReturns
  /\ UNCHANGED <<memory, ptrs, raws, flushCh, ctxDone, conns, decayV, disk, used>>

(* The re-flush is requested, and flushMu released. *)
FlushAgain(p) ==
  /\ Step(p, "flush_again", AfterFlush(p))
  /\ flushCh' = TRUE /\ mu' = Free
  /\ UNCHANGED <<memory, ptrs, raws, dirty, ctxDone, conns, flushV, decayV, disk, used>>

-----------------------------------------------------------------------------
(* import: Merge into the graph, flush, and a new predictor over d.g. *)

(* Graph.Merge: a seed's count is how often a transition was seen in all, so it
   is combined by maximum; lastSeen is the later one.  s.fresh are the entries
   whose lastSeen is recent. *)
Merge(c, s) == [k \in Keys |-> Max2(c[k], s.count[k])]
MergedOld(c, s, o) ==
  {k \in Known(Merge(c, s)) : k \notin s.fresh /\ (c[k] > 0 => k \in o)}

AcceptImport(h) ==
  /\ Listening /\ Step(h, "idle", "import_load")
  /\ used["imports"] < MaxImports /\ Use("imports")
  /\ UNCHANGED <<memory, ptrs, raws, sched, mu, ctxDone, conns, flushV, decayV, disk>>

ImportLoad(h) ==
  /\ Step(h, "import_load", "import_merge")
  /\ hg' = [hg EXCEPT ![h] = g]
  /\ UNCHANGED <<memory, ptrs, raws, sched, mu, ctxDone, req, ix, flushV, decayV, disk, used>>

ImportMerge(h) ==
  /\ Step(h, "import_merge", "flush_lock")
  /\ \E s \in Seeds :
       /\ heap' = [heap EXCEPT ![hg[h]] = Merge(heap[hg[h]], s)]
       /\ old' = IF hg[h] = g THEN MergedOld(heap[g], s, old) ELSE old
  /\ HandlerReturns(h)
  /\ UNCHANGED <<ptrs, raws, sched, mu, ctxDone, flushV, decayV, disk, used>>

(* d.pred.Store(d.newPredictor(d.g.Load())): a load, then a store. *)
ImportNewPredictor(h) ==
  /\ Step(h, "import_new", "import_pred")
  /\ hg' = [hg EXCEPT ![h] = g]
  /\ UNCHANGED <<memory, ptrs, raws, sched, mu, ctxDone, req, ix, flushV, decayV, disk, used>>

ImportStorePredictor(h) ==
  /\ Step(h, "import_pred", "idle")
  /\ pred' = hg[h]
  /\ HandlerReturns(h)
  /\ UNCHANGED <<memory, g, raws, sched, mu, ctxDone, flushV, decayV, disk, used>>

-----------------------------------------------------------------------------
(* reset: handleReset, under flushMu. *)

AcceptReset(h) ==
  /\ Listening /\ Step(h, "idle", "reset_lock")
  /\ used["resets"] < MaxResets /\ Use("resets")
  /\ UNCHANGED <<memory, ptrs, raws, sched, mu, ctxDone, conns, flushV, decayV, disk>>

(* Plausible bug: reset relies on the graph's own mutex. *)
BadResetLock(h) ==
  /\ Step(h, "reset_lock", "reset_graph")
  /\ UNCHANGED <<memory, ptrs, raws, sched, mu, ctxDone, conns, flushV, decayV, disk, used>>

ResetLock(h) ==
  /\ mu = Free /\ mu' = h
  /\ Step(h, "reset_lock", "reset_graph")
  /\ UNCHANGED <<memory, ptrs, raws, sched, ctxDone, conns, flushV, decayV, disk, used>>

(* d.g.Store(graph.New(2)): an object nothing refers to yet. *)
ResetGraph(h) ==
  /\ Step(h, "reset_graph", "reset_pred")
  /\ \E n \in Graphs \ ({g, pred} \cup {hg[c] : c \in Conns}) :
       g' = n /\ heap' = [heap EXCEPT ![n] = Empty]
  /\ old' = {}
  /\ UNCHANGED <<pred, raws, sched, mu, ctxDone, conns, flushV, decayV, disk, used>>

(* Plausible bug: the predictor keeps reading the graph that was wiped. *)
BadResetPred(h) ==
  /\ Step(h, "reset_pred", "reset_clear")
  /\ UNCHANGED <<memory, ptrs, raws, sched, mu, ctxDone, conns, flushV, decayV, disk, used>>

ResetPred(h) ==
  /\ Step(h, "reset_pred", "reset_clear")
  /\ pred' = g
  /\ UNCHANGED <<memory, g, raws, sched, mu, ctxDone, conns, flushV, decayV, disk, used>>

(* store.clear is one DELETE per table; the first that fails ends it, and the
   reset goes on. *)
ResetClear(h) ==
  /\ pc[h] = "reset_clear"
  /\ \/ /\ CanSucceed /\ Goto(h, "reset_clear_raws")
        /\ db' = Empty /\ residue' = {}
     \/ /\ MayFail("clear") /\ Goto(h, "reset_raws")
        /\ db' = db /\ residue' = Keys
  /\ UNCHANGED <<memory, ptrs, raws, sched, mu, ctxDone, conns, flushV, decayV, dbRaws, used>>

ResetClearRaws(h) ==
  /\ Step(h, "reset_clear_raws", "reset_raws")
  /\ \/ CanSucceed /\ dbRaws' = {}
     \/ MayFail("clear") /\ dbRaws' = dbRaws
  /\ UNCHANGED <<memory, ptrs, raws, sched, mu, ctxDone, conns, flushV, decayV, db, residue, used>>

ResetRaws(h) ==
  /\ Step(h, "reset_raws", "reset_dirty")
  /\ raws' = {}
  /\ UNCHANGED <<memory, ptrs, sched, mu, ctxDone, conns, flushV, decayV, disk, used>>

(* d.dirty.Store(0), flushMu.Unlock.  Plausible bug: no Unlock on the way out. *)
BadResetDirty(h) ==
  /\ Step(h, "reset_dirty", "idle")
  /\ dirty' = 0
  /\ UNCHANGED <<memory, ptrs, raws, flushCh, mu, ctxDone, conns, flushV, decayV, disk, used>>

ResetDirty(h) ==
  /\ Step(h, "reset_dirty", "idle")
  /\ dirty' = 0 /\ mu' = Free
  /\ UNCHANGED <<memory, ptrs, raws, flushCh, ctxDone, conns, flushV, decayV, disk, used>>

-----------------------------------------------------------------------------
(* decay: run once by start() and daily by decayLoop, under flushMu. *)

AfterDecay(p) == IF p = Boot THEN "listen" ELSE "idle"

(* Time passes: an entry not observed for long becomes prunable. *)
Age ==
  /\ \E k \in Known(heap[g]) \ old : old' = old \cup {k}
  /\ UNCHANGED <<heap, ptrs, raws, sched, mu, ctxDone, pc, conns, flushV, decayV, disk, used>>

SweepDone ==
  /\ ctxDone /\ Step(Sweep, "idle", "done")
  /\ UNCHANGED <<memory, ptrs, raws, sched, mu, ctxDone, conns, flushV, decayV, disk, used>>

SweepTick ==
  /\ pc[Boot] \in {"listen", "up"} /\ Step(Sweep, "idle", "decay_lock")
  /\ UNCHANGED <<memory, ptrs, raws, sched, mu, ctxDone, conns, flushV, decayV, disk, used>>

(* Plausible bug: decay does not exclude flushes. *)
BadDecayLock(p) ==
  /\ Step(p, "decay_lock", "decay_graph")
  /\ UNCHANGED <<memory, ptrs, raws, sched, mu, ctxDone, conns, flushV, decayV, disk, used>>

DecayLock(p) ==
  /\ mu = Free /\ mu' = p
  /\ Step(p, "decay_lock", "decay_graph")
  /\ UNCHANGED <<memory, ptrs, raws, sched, ctxDone, conns, flushV, decayV, disk, used>>

(* Graph.Decay: every prunable entry goes, the others keep their counts; a
   template is orphaned when no surviving entry has it as its next command.
   With nothing pruned decay returns. *)
DecayGraph(p) ==
  /\ pc[p] = "decay_graph"
  /\ heap' = [heap EXCEPT ![g] = Without(heap[g], old)]
  /\ pruned' = old
  /\ orphaned' = {TemplateOf[k] : k \in old} \ {TemplateOf[k] : k \in Known(heap[g]) \ old}
  /\ old' = {}
  /\ IF old = {} THEN Goto(p, AfterDecay(p)) /\ mu' = Free
                 ELSE Goto(p, "decay_raws") /\ mu' = mu
  /\ UNCHANGED <<ptrs, raws, sched, ctxDone, conns, flushV, disk, used>>

DecayRaws(p) ==
  /\ Step(p, "decay_raws", "decay_prune")
  /\ raws' = raws \ orphaned
  /\ UNCHANGED <<memory, ptrs, sched, mu, ctxDone, conns, flushV, decayV, disk, used>>

(* store.prune deletes the rows in one transaction. *)
DecayPrune(p) ==
  /\ Step(p, "decay_prune", AfterDecay(p))
  /\ \/ /\ CanSucceed
        /\ db' = Without(db, pruned) /\ dbRaws' = dbRaws \ orphaned
        /\ residue' = residue \ pruned
     \/ /\ MayFail("prune")
        /\ residue' = residue \cup pruned /\ UNCHANGED <<db, dbRaws>>
  /\ mu' = Free /\ DecayReturns
  /\ UNCHANGED <<memory, ptrs, raws, sched, ctxDone, conns, flushV, used>>

-----------------------------------------------------------------------------
(* The life of the process. *)

(* start(): load the transitions and the raw examples.  A seed is imported only
   into an empty database.  Any entry may be old by now. *)
BootLoad ==
  /\ pc[Boot] = "down" /\ used["lives"] < MaxLives
  /\ heap' = [heap EXCEPT ![g] = db]
  /\ old' \in SUBSET Known(db)
  /\ raws' = dbRaws
  /\ \/ Goto(Boot, "pred") /\ Use("lives")
     \/ /\ Known(db) = {} /\ used["imports"] < MaxImports /\ Goto(Boot, "seed")
        /\ used' = [used EXCEPT !["lives"] = @ + 1, !["imports"] = @ + 1]
  /\ UNCHANGED <<ptrs, sched, mu, ctxDone, conns, flushV, decayV, disk>>

BootSeed ==
  /\ Step(Boot, "seed", "flush_lock")
  /\ \E s \in Seeds :
       /\ heap' = [heap EXCEPT ![g] = Merge(heap[g], s)]
       /\ old' = MergedOld(heap[g], s, old)
  /\ UNCHANGED <<ptrs, raws, sched, mu, ctxDone, conns, flushV, decayV, disk, used>>

BootPredictor ==
  /\ Step(Boot, "pred", "decay_lock")
  /\ pred' = g
  /\ UNCHANGED <<memory, g, raws, sched, mu, ctxDone, conns, flushV, decayV, disk, used>>

BootListen ==
  /\ Step(Boot, "listen", "up")
  /\ UNCHANGED <<memory, ptrs, raws, sched, mu, ctxDone, conns, flushV, decayV, disk, used>>

(* SIGTERM. *)
Cancel ==
  /\ pc[Boot] # "down" /\ ~ctxDone /\ used["stops"] < MaxStops /\ Use("stops")
  /\ ctxDone' = TRUE
  /\ UNCHANGED <<memory, ptrs, raws, sched, mu, pc, conns, flushV, decayV, disk>>

(* stop(): close the listener, flush, close the database.  Connections that are
   already being handled go on. *)
StopListener ==
  /\ ctxDone /\ pc[Boot] = "up" /\ Step(Stop, "idle", "flush_lock")
  /\ UNCHANGED <<memory, ptrs, raws, sched, mu, ctxDone, conns, flushV, decayV, disk, used>>

StopCloseDb ==
  /\ Step(Stop, "close_db", "exit")
  /\ UNCHANGED <<memory, ptrs, raws, sched, mu, ctxDone, conns, flushV, decayV, disk, used>>

(* The process is gone and everything in memory with it. *)
Vanish ==
  /\ heap' = [x \in Graphs |-> Empty]
  /\ pred' = g /\ g' = g
  /\ old' = {} /\ raws' = {}
  /\ dirty' = 0 /\ flushCh' = FALSE /\ mu' = Free /\ ctxDone' = FALSE
  /\ pc' = [p \in Procs |-> IF p = Boot THEN "down" ELSE "idle"]
  /\ hg' = [h \in Conns |-> Nil]
  /\ req' = [h \in Conns |-> <<>>]
  /\ ix' = [h \in Conns |-> 0]
  /\ FlushReturns /\ DecayReturns
  /\ residue' = {}
  /\ UNCHANGED <<db, dbRaws, used>>

Exit  == pc[Stop] = "exit" /\ Vanish
Crash == pc[Boot] # "down" /\ Vanish

-----------------------------------------------------------------------------
Handler(h) ==
  \/ AcceptRecord(h) \/ RecordLoad(h) \/ RecordObs(h) \/ RecordRaw(h)
  \/ RecordDirty(h) \/ RecordSignal(h) \/ RecordRaws(h)
  \/ AcceptImport(h) \/ ImportLoad(h) \/ ImportMerge(h)
  \/ ImportNewPredictor(h) \/ ImportStorePredictor(h)
  \/ AcceptReset(h) \/ ResetLock(h) \/ ResetGraph(h) \/ ResetPred(h)
  \/ ResetClear(h) \/ ResetClearRaws(h) \/ ResetRaws(h) \/ ResetDirty(h)

Flush(p) ==
  \/ FlushLock(p) \/ FlushAll(p) \/ FlushSave(p) \/ FlushSaveFails(p)
  \/ FlushRaws(p) \/ FlushSaveRaws(p) \/ FlushSwap(p) \/ FlushAgain(p)

Decay(p) == DecayLock(p) \/ DecayGraph(p) \/ DecayRaws(p) \/ DecayPrune(p)

FlushLoop == LoopDone \/ LoopToken \/ LoopTick
DecayLoop == SweepDone \/ SweepTick
Start     == BootLoad \/ BootSeed \/ BootPredictor \/ BootListen
Shutdown  == StopListener \/ StopCloseDb \/ Exit

Next ==
  \/ \E h \in Conns : Handler(h)
  \/ \E p \in Procs : Flush(p) \/ Decay(p)
  \/ FlushLoop \/ DecayLoop \/ Start \/ Shutdown \/ Age \/ Cancel \/ Crash

Spec == Init /\ [][Next]_vars
===============================================================================
