------------------------------ MODULE DaemonProofs ------------------------------
(***************************************************************************)
(* Proofs about the daemon: its typing, the exclusion flushMu gives, that    *)
(* the database never has more than the graph, and that the whole is a       *)
(* write-back cache, for any number of connections, transitions, requests    *)
(* and failures.  Then what the daemon's documentation takes for granted and *)
(* what holds only where resets stay away: no record escapes the bookkeeping *)
(* of unsaved work, and predictions are made from the graph that records go  *)
(* to.                                                                       *)
(***************************************************************************)
EXTENDS DaemonProperties, TLAPS

-----------------------------------------------------------------------------
(* Typing, one lemma per kind of step. *)

LEMMA CountUpdate ==
  ASSUME NEW c \in Count, NEW k \in Keys PROVE [c EXCEPT ![k] = @ + 1] \in Count
BY DEF Count

LEMMA EmptyType == Empty \in Count
BY DEF Empty, Count

LEMMA WithoutType == ASSUME NEW c \in Count, NEW K PROVE Without(c, K) \in Count
BY DEF Without, Count

LEMMA MergeType ==
  ASSUME NEW c \in Count, NEW s \in Seeds PROVE Merge(c, s) \in Count
BY DaemonAssumption DEF Merge, Max2, Count, DaemonAssumption

LEMMA ProcsDiffer ==
  /\ \A h \in Conns : h \in Procs /\ h \notin {Boot, Stop, Loop, Sweep, Free}
  /\ {Boot, Stop, Loop, Sweep} \subseteq Procs
  /\ Boot # Stop /\ Boot # Loop /\ Boot # Sweep /\ Stop # Loop /\ Stop # Sweep /\ Loop # Sweep
  /\ Free # Boot /\ Free # Stop /\ Free # Loop /\ Free # Sweep
BY DaemonAssumption DEF DaemonAssumption, Procs, Boot, Stop, Loop, Sweep, Free

(* A goroutine that moves inside its own function. *)
LEMMA PlaceConn ==
  ASSUME PlaceOK, NEW h \in Conns, NEW l \in ConnPC, Goto(h, l) PROVE PlaceOK'
BY ProcsDiffer DEF PlaceOK, Goto

LEMMA PlaceBoot ==
  ASSUME PlaceOK, NEW l \in BootPC, Goto(Boot, l) PROVE PlaceOK'
BY ProcsDiffer DEF PlaceOK, Goto

LEMMA PlaceStop ==
  ASSUME PlaceOK, NEW l \in StopPC, Goto(Stop, l) PROVE PlaceOK'
BY ProcsDiffer DEF PlaceOK, Goto

LEMMA PlaceLoop ==
  ASSUME PlaceOK, NEW l \in LoopPC, Goto(Loop, l) PROVE PlaceOK'
BY ProcsDiffer DEF PlaceOK, Goto

LEMMA PlaceSweep ==
  ASSUME PlaceOK, NEW l \in SweepPC, Goto(Sweep, l) PROVE PlaceOK'
BY ProcsDiffer DEF PlaceOK, Goto

(* The flush and the decay run in several goroutines and return to their own. *)
LEMMA PlaceFlush ==
  ASSUME PlaceOK, NEW p \in Procs, pc[p] \in FlushPC \cup {"flush_lock"},
         NEW l \in FlushPC \cup {AfterFlush(p)}, Goto(p, l)
  PROVE  PlaceOK'
<1>1. CASE p \in Conns
  <2>1. l \in ConnPC BY <1>1, ProcsDiffer DEF AfterFlush, ConnPC
  <2> QED BY <1>1, <2>1, PlaceConn
<1>2. CASE p = Sweep
  BY <1>2 DEF PlaceOK, SweepPC, FlushPC, DecayPC
<1>3. CASE p \in {Boot, Stop, Loop}
  <2>1. CASE p = Boot BY <2>1, ProcsDiffer, PlaceBoot DEF AfterFlush, BootPC
  <2>2. CASE p = Stop BY <2>2, ProcsDiffer, PlaceStop DEF AfterFlush, StopPC
  <2>3. CASE p = Loop BY <2>3, ProcsDiffer, PlaceLoop DEF AfterFlush, LoopPC
  <2> QED BY <1>3, <2>1, <2>2, <2>3
<1> QED BY <1>1, <1>2, <1>3 DEF Procs

LEMMA PlaceDecay ==
  ASSUME PlaceOK, NEW p \in Procs, pc[p] \in DecayPC \cup {"decay_lock"},
         NEW l \in DecayPC \cup {AfterDecay(p)}, Goto(p, l)
  PROVE  PlaceOK'
<1>1. CASE p \in Conns
  BY <1>1 DEF PlaceOK, ConnPC, DecayPC, FlushPC, ResetPC
<1>2. CASE p \in {Stop, Loop}
  BY <1>2 DEF PlaceOK, StopPC, LoopPC, FlushPC, DecayPC
<1>3. CASE p \in {Boot, Sweep}
  <2>1. CASE p = Boot BY <2>1, PlaceBoot DEF AfterDecay, BootPC
  <2>2. CASE p = Sweep BY <2>2, ProcsDiffer, PlaceSweep DEF AfterDecay, SweepPC
  <2> QED BY <1>3, <2>1, <2>2
<1> QED BY <1>1, <1>2, <1>3 DEF Procs

(* Places where a handler's locals matter. *)
UsesLocals == {"load", "graph", "raws", "import_merge", "import_pred"}

LEMMA LocalsMove ==
  ASSUME TypeOK, NEW p \in Procs, NEW l, l \notin UsesLocals, Goto(p, l), UNCHANGED conns
  PROVE  LocalsOK'
BY ProcsDiffer DEF TypeOK, LocalsOK, PlaceOK, UsesLocals, Goto, conns

LEMMA LocalsReturn ==
  ASSUME TypeOK, NEW h \in Conns, NEW l, l \notin UsesLocals, Goto(h, l), HandlerReturns(h)
  PROVE  LocalsOK'
BY ProcsDiffer DEF TypeOK, LocalsOK, PlaceOK, UsesLocals, Goto, HandlerReturns

LEMMA TypeInit == Init => TypeOK
<1> SUFFICES ASSUME Init PROVE PlaceOK /\ LocalsOK /\ DataOK
  BY DEF TypeOK
<1>1. PlaceOK
  BY ProcsDiffer DEF Init, PlaceOK, ConnPC, BootPC, StopPC, LoopPC, SweepPC
<1>2. LocalsOK
  <2>1. \A h \in Conns : pc[h] = "idle" BY ProcsDiffer DEF Init
  <2> QED BY <2>1 DEF Init, LocalsOK
<1>3. g \in Graphs /\ pred \in Graphs BY DaemonAssumption DEF Init, DaemonAssumption
<1>4. heap \in [Graphs -> Count] /\ all \in Count /\ db \in Count BY EmptyType DEF Init
<1>5. flushCh \in BOOLEAN /\ ctxDone \in BOOLEAN BY Zenon DEF Init
<1>6. used \in [Bounds -> Nat] /\ mu \in Procs \cup {Free} /\ dirty \in Nat BY DEF Init
<1> QED BY <1>1, <1>2, <1>3, <1>4, <1>5, <1>6 DEF Init, DataOK

LEMMA TypeRecord ==
  ASSUME TypeOK, NEW h \in Conns,
         \/ AcceptRecord(h) \/ RecordLoad(h) \/ RecordObs(h) \/ RecordRaw(h)
         \/ RecordDirty(h) \/ RecordSignal(h) \/ RecordRaws(h)
  PROVE  TypeOK'
<1> USE DEF Step, memory, ptrs, sched, conns, flushV, decayV, disk
<1>1. CASE AcceptRecord(h)
  <2>1. PlaceOK' BY <1>1, PlaceConn DEF AcceptRecord, ConnPC, TypeOK
  <2>2. LocalsOK'
    BY <1>1, DaemonAssumption, ProcsDiffer DEF AcceptRecord, LocalsOK, PlaceOK, TypeOK, Goto, DaemonAssumption
  <2>3. DataOK' BY <1>1 DEF AcceptRecord, DataOK, TypeOK, Use, Bounds
  <2> QED BY <2>1, <2>2, <2>3 DEF TypeOK
<1>2. CASE RecordLoad(h)
  <2>1. PlaceOK' BY <1>2, PlaceConn DEF RecordLoad, ConnPC, TypeOK
  <2>2. LocalsOK' BY <1>2, ProcsDiffer DEF RecordLoad, LocalsOK, PlaceOK, DataOK, TypeOK, Goto
  <2>3. DataOK' BY <1>2 DEF RecordLoad, DataOK, TypeOK
  <2> QED BY <2>1, <2>2, <2>3 DEF TypeOK
<1>3. CASE RecordObs(h)
  <2>1. PlaceOK' BY <1>3, PlaceConn DEF RecordObs, NextState, ConnPC, TypeOK
  <2>2. LocalsOK'
    <3>1. ix[h] \in 1..Len(req[h]) /\ Len(req[h]) \in Nat BY <1>3 DEF RecordObs, LocalsOK, TypeOK
    <3>2. UNCHANGED <<hg, req>> BY <1>3 DEF RecordObs
    <3>3. CASE ix[h] < Len(req[h])
      <4>1. ix' = [ix EXCEPT ![h] = @ + 1] /\ Goto(h, "graph") /\ pc[h] = "graph"
        BY <1>3, <3>3 DEF RecordObs, NextState
      <4>2. ix[h] + 1 \in 1..Len(req[h]) /\ ix[h] \in Nat BY <3>1, <3>3
      <4> QED BY <3>1, <3>2, <4>1, <4>2, ProcsDiffer DEF LocalsOK, PlaceOK, TypeOK, Goto
    <3>4. CASE ~(ix[h] < Len(req[h]))
      <4>1. ix' = [ix EXCEPT ![h] = 1] /\ Goto(h, "raws") /\ pc[h] = "graph"
        BY <1>3, <3>4 DEF RecordObs, NextState
      <4>2. 1 \in 1..Len(req[h]) BY <3>1
      <4> QED BY <3>1, <3>2, <4>1, <4>2, ProcsDiffer DEF LocalsOK, PlaceOK, TypeOK, Goto
    <3> QED BY <3>3, <3>4
  <2>3. DataOK'
    <3> DEFINE k == req[h][ix[h]]
    <3>1. hg[h] \in Graphs /\ k \in Keys BY <1>3 DEF RecordObs, LocalsOK, TypeOK
    <3>2. [heap[hg[h]] EXCEPT ![k] = @ + 1] \in Count BY <3>1, CountUpdate DEF DataOK, TypeOK
    <3>3. heap' = [heap EXCEPT ![hg[h]] = [heap[hg[h]] EXCEPT ![k] = @ + 1]]
      BY <1>3 DEF RecordObs, DataOK, TypeOK
    <3>4. heap' \in [Graphs -> Count] BY <3>1, <3>2, <3>3 DEF DataOK, TypeOK
    <3>5. old' \subseteq Keys BY <1>3 DEF RecordObs, DataOK, TypeOK
    <3> QED BY <1>3, <3>4, <3>5 DEF RecordObs, DataOK, TypeOK
  <2> QED BY <2>1, <2>2, <2>3 DEF TypeOK
<1>4. CASE RecordRaw(h)
  <2>1. PlaceOK' BY <1>4, PlaceConn DEF RecordRaw, NextState, ConnPC, TypeOK
  <2>2. LocalsOK' BY <1>4, ProcsDiffer DEF RecordRaw, NextState, LocalsOK, PlaceOK, TypeOK, Goto
  <2>3. DataOK' BY <1>4, DaemonAssumption DEF RecordRaw, DataOK, LocalsOK, TypeOK, DaemonAssumption
  <2> QED BY <2>1, <2>2, <2>3 DEF TypeOK
<1>5. CASE RecordDirty(h)
  <2>1. PlaceOK' BY <1>5, PlaceConn DEF RecordDirty, ConnPC, TypeOK
  <2>2. LocalsOK' BY <1>5, ProcsDiffer DEF RecordDirty, HandlerReturns, LocalsOK, PlaceOK, TypeOK, Goto
  <2>3. DataOK' BY <1>5 DEF RecordDirty, DataOK, TypeOK
  <2> QED BY <2>1, <2>2, <2>3 DEF TypeOK
<1>6. CASE RecordSignal(h)
  <2>1. PlaceOK' BY <1>6, PlaceConn DEF RecordSignal, ConnPC, TypeOK
  <2>2. LocalsOK' BY <1>6, ProcsDiffer DEF RecordSignal, LocalsOK, PlaceOK, TypeOK, Goto
  <2>3. DataOK' BY <1>6 DEF RecordSignal, DataOK, TypeOK
  <2> QED BY <2>1, <2>2, <2>3 DEF TypeOK
<1>7. CASE RecordRaws(h)
  <2>1. PlaceOK' BY <1>7 DEF RecordRaws, PlaceOK, TypeOK
  <2>2. LocalsOK' BY <1>7 DEF RecordRaws, LocalsOK, TypeOK
  <2>3. DataOK' BY <1>7 DEF RecordRaws, DataOK, TypeOK, Use, Bounds
  <2> QED BY <2>1, <2>2, <2>3 DEF TypeOK
<1> QED BY <1>1, <1>2, <1>3, <1>4, <1>5, <1>6, <1>7

LEMMA TypeFlush ==
  ASSUME TypeOK, NEW p \in Procs, Flush(p)
  PROVE  TypeOK'
<1> USE DEF Step, memory, ptrs, sched, flushV, decayV, disk
<1>1. \A l : l \in FlushPC \cup {AfterFlush(p)} => l \notin UsesLocals
  BY DEF AfterFlush, FlushPC, UsesLocals
<1>2. CASE FlushLock(p) \/ FlushAll(p) \/ FlushRaws(p)
  <2>1. PICK l \in FlushPC : Goto(p, l) /\ pc[p] \in FlushPC \cup {"flush_lock"}
    BY <1>2 DEF FlushLock, FlushAll, FlushRaws, FlushPC
  <2>2. PlaceOK' BY <2>1, PlaceFlush DEF TypeOK
  <2>3. LocalsOK' BY <1>1, <1>2, <2>1, LocalsMove DEF FlushLock, FlushAll, FlushRaws
  <2>4. DataOK' BY <1>2 DEF FlushLock, FlushAll, FlushRaws, DataOK, TypeOK
  <2> QED BY <2>2, <2>3, <2>4 DEF TypeOK
<1>3. CASE FlushSave(p)
  <2>1. pc[p] = "flush_save" /\ Goto(p, "flush_raws") BY <1>3 DEF FlushSave
  <2>2. PlaceOK' BY <2>1, PlaceFlush DEF TypeOK, FlushPC
  <2>3. LocalsOK' BY <1>3, <2>1, LocalsMove DEF FlushSave, UsesLocals
  <2>4. db' \in Count BY <1>3 DEF FlushSave, DataOK, TypeOK, Count
  <2>5. DataOK' BY <1>3, <2>4 DEF FlushSave, DataOK, TypeOK
  <2> QED BY <2>2, <2>3, <2>5 DEF TypeOK
<1>4. CASE FlushSaveFails(p)
  <2>1. pc[p] = "flush_save" /\ Goto(p, AfterFlush(p)) BY <1>4 DEF FlushSaveFails
  <2>2. PlaceOK' BY <2>1, PlaceFlush DEF TypeOK, FlushPC
  <2>3. LocalsOK' BY <1>1, <1>4, <2>1, LocalsMove DEF FlushSaveFails
  <2>5. DataOK' BY <1>4, EmptyType DEF FlushSaveFails, FlushReturns, DataOK, TypeOK
  <2> QED BY <2>2, <2>3, <2>5 DEF TypeOK
<1>5. CASE FlushSaveRaws(p)
  <2>1. pc[p] = "flush_save_raws" /\ Goto(p, "flush_swap") BY <1>5 DEF FlushSaveRaws
  <2>2. PlaceOK' BY <2>1, PlaceFlush DEF TypeOK, FlushPC
  <2>3. LocalsOK' BY <1>5, <2>1, LocalsMove DEF FlushSaveRaws, UsesLocals
  <2>5. DataOK' BY <1>5 DEF FlushSaveRaws, DataOK, TypeOK
  <2> QED BY <2>2, <2>3, <2>5 DEF TypeOK
<1>6. CASE FlushSwap(p) \/ FlushAgain(p)
  <2>1. PICK l \in FlushPC \cup {AfterFlush(p)} : Goto(p, l) /\ pc[p] \in FlushPC
    BY <1>6 DEF FlushSwap, FlushAgain, FlushPC
  <2>2. PlaceOK' BY <2>1, PlaceFlush DEF TypeOK
  <2>3. LocalsOK' BY <1>1, <1>6, <2>1, LocalsMove DEF FlushSwap, FlushAgain
  <2>4. CASE FlushSwap(p)
    <3>1. mu' \in Procs \cup {Free} BY <2>4 DEF FlushSwap, DataOK, TypeOK
    <3>2. all' = Empty /\ rawAll' = {} /\ dirty' = 0 BY <2>4 DEF FlushSwap, FlushReturns
    <3>3. DataOK' BY <2>4, <3>1, <3>2, EmptyType DEF FlushSwap, DataOK, TypeOK
    <3> QED BY <2>2, <2>3, <3>3 DEF TypeOK
  <2>5. CASE FlushAgain(p)
    <3>1. DataOK' BY <2>5 DEF FlushAgain, DataOK, TypeOK
    <3> QED BY <2>2, <2>3, <3>1 DEF TypeOK
  <2> QED BY <1>6, <2>4, <2>5
<1> QED BY <1>2, <1>3, <1>4, <1>5, <1>6 DEF Flush

LEMMA TypeLoops ==
  ASSUME TypeOK, FlushLoop \/ DecayLoop
  PROVE  TypeOK'
<1> USE DEF Step, memory, ptrs, sched, flushV, decayV, disk
<1>1. CASE FlushLoop
  <2>1. PICK l \in LoopPC : Goto(Loop, l) /\ l \notin UsesLocals
    BY <1>1 DEF FlushLoop, LoopDone, LoopToken, LoopTick, LoopPC, UsesLocals
  <2>2. PlaceOK' BY <2>1, PlaceLoop DEF TypeOK
  <2>3. LocalsOK' BY <1>1, <2>1, LocalsMove, ProcsDiffer DEF FlushLoop, LoopDone, LoopToken, LoopTick
  <2>4. DataOK' BY <1>1 DEF FlushLoop, LoopDone, LoopToken, LoopTick, DataOK, TypeOK
  <2> QED BY <2>2, <2>3, <2>4 DEF TypeOK
<1>2. CASE DecayLoop
  <2>1. PICK l \in SweepPC : Goto(Sweep, l) /\ l \notin UsesLocals
    BY <1>2 DEF DecayLoop, SweepDone, SweepTick, SweepPC, UsesLocals
  <2>2. PlaceOK' BY <2>1, PlaceSweep DEF TypeOK
  <2>3. LocalsOK' BY <1>2, <2>1, LocalsMove, ProcsDiffer DEF DecayLoop, SweepDone, SweepTick
  <2>4. DataOK' BY <1>2 DEF DecayLoop, SweepDone, SweepTick, DataOK, TypeOK
  <2> QED BY <2>2, <2>3, <2>4 DEF TypeOK
<1> QED BY <1>1, <1>2

LEMMA TypeDecay ==
  ASSUME TypeOK, NEW p \in Procs, Decay(p)
  PROVE  TypeOK'
<1> USE DEF Step, memory, ptrs, sched, flushV, decayV, disk
<1>1. \A l : l \in DecayPC \cup {AfterDecay(p)} => l \notin UsesLocals
  BY DEF AfterDecay, DecayPC, UsesLocals
<1>2. PICK l \in DecayPC \cup {AfterDecay(p)} : Goto(p, l) /\ pc[p] \in DecayPC \cup {"decay_lock"}
  BY DEF Decay, DecayLock, DecayGraph, DecayRaws, DecayPrune, DecayPC
<1>3. PlaceOK' BY <1>2, PlaceDecay DEF TypeOK
<1>4. LocalsOK'
  BY <1>1, <1>2, LocalsMove DEF Decay, DecayLock, DecayGraph, DecayRaws, DecayPrune
<1>5. DataOK'
  <2>1. CASE DecayLock(p) \/ DecayRaws(p) BY <2>1 DEF DecayLock, DecayRaws, DataOK, TypeOK
  <2>2. CASE DecayGraph(p)
    <3>1. heap' \in [Graphs -> Count] BY <2>2, WithoutType DEF DecayGraph, DataOK, TypeOK
    <3>2. orphaned' \subseteq Templates
      BY <2>2, DaemonAssumption DEF DecayGraph, DataOK, TypeOK, DaemonAssumption
    <3> QED BY <2>2, <3>1, <3>2 DEF DecayGraph, DataOK, TypeOK
  <2>3. CASE DecayPrune(p)
    <3>1. db' \in Count BY <2>3, WithoutType DEF DecayPrune, DataOK, TypeOK
    <3> QED BY <2>3, <3>1 DEF DecayPrune, DecayReturns, DataOK, TypeOK
  <2> QED BY <2>1, <2>2, <2>3 DEF Decay
<1> QED BY <1>3, <1>4, <1>5 DEF TypeOK

LEMMA TypeImport ==
  ASSUME TypeOK, NEW h \in Conns,
         \/ AcceptImport(h) \/ ImportLoad(h) \/ ImportMerge(h)
         \/ ImportNewPredictor(h) \/ ImportStorePredictor(h)
  PROVE  TypeOK'
<1> USE DEF Step, memory, ptrs, sched, conns, flushV, decayV, disk
<1>1. CASE AcceptImport(h)
  <2>1. PlaceOK' BY <1>1, PlaceConn DEF AcceptImport, ConnPC, TypeOK
  <2>2. LocalsOK' BY <1>1, ProcsDiffer DEF AcceptImport, Goto, LocalsOK, PlaceOK, TypeOK
  <2>3. DataOK' BY <1>1 DEF AcceptImport, Use, Bounds, DataOK, TypeOK
  <2> QED BY <2>1, <2>2, <2>3 DEF TypeOK
<1>2. CASE ImportLoad(h)
  <2>1. PlaceOK' BY <1>2, PlaceConn DEF ImportLoad, ConnPC, TypeOK
  <2>2. LocalsOK' BY <1>2, ProcsDiffer DEF ImportLoad, Goto, LocalsOK, PlaceOK, DataOK, TypeOK
  <2>3. DataOK' BY <1>2 DEF ImportLoad, DataOK, TypeOK
  <2> QED BY <2>1, <2>2, <2>3 DEF TypeOK
<1>3. CASE ImportMerge(h)
  <2>1. PlaceOK' BY <1>3, PlaceConn DEF ImportMerge, ConnPC, TypeOK
  <2>2. LocalsOK' BY <1>3, LocalsReturn DEF ImportMerge, UsesLocals
  <2>3. PICK s \in Seeds :
          /\ heap' = [heap EXCEPT ![hg[h]] = Merge(heap[hg[h]], s)]
          /\ old' = IF hg[h] = g THEN MergedOld(heap[g], s, old) ELSE old
    BY <1>3 DEF ImportMerge
  <2>4. hg[h] \in Graphs BY <1>3 DEF ImportMerge, LocalsOK, TypeOK
  <2>5. heap' \in [Graphs -> Count] BY <2>3, <2>4, MergeType DEF DataOK, TypeOK
  <2>6. old' \subseteq Keys BY <2>3 DEF MergedOld, Known, DataOK, TypeOK
  <2>7. DataOK' BY <1>3, <2>5, <2>6 DEF ImportMerge, DataOK, TypeOK
  <2> QED BY <2>1, <2>2, <2>7 DEF TypeOK
<1>4. CASE ImportNewPredictor(h)
  <2>1. PlaceOK' BY <1>4, PlaceConn DEF ImportNewPredictor, ConnPC, TypeOK
  <2>2. LocalsOK' BY <1>4, ProcsDiffer DEF ImportNewPredictor, Goto, LocalsOK, PlaceOK, DataOK, TypeOK
  <2>3. DataOK' BY <1>4 DEF ImportNewPredictor, DataOK, TypeOK
  <2> QED BY <2>1, <2>2, <2>3 DEF TypeOK
<1>5. CASE ImportStorePredictor(h)
  <2>1. PlaceOK' BY <1>5, PlaceConn DEF ImportStorePredictor, ConnPC, TypeOK
  <2>2. LocalsOK' BY <1>5, LocalsReturn DEF ImportStorePredictor, UsesLocals
  <2>3. DataOK' BY <1>5 DEF ImportStorePredictor, LocalsOK, DataOK, TypeOK
  <2> QED BY <2>1, <2>2, <2>3 DEF TypeOK
<1> QED BY <1>1, <1>2, <1>3, <1>4, <1>5

LEMMA TypeReset ==
  ASSUME TypeOK, NEW h \in Conns,
         \/ AcceptReset(h) \/ ResetLock(h) \/ ResetGraph(h) \/ ResetPred(h)
         \/ ResetClear(h) \/ ResetClearRaws(h) \/ ResetRaws(h) \/ ResetDirty(h)
  PROVE  TypeOK'
<1> USE DEF Step, memory, ptrs, sched, flushV, decayV, disk
<1>1. PICK l \in {"idle", "reset_lock"} \cup ResetPC : Goto(h, l)
  BY DEF AcceptReset, ResetLock, ResetGraph, ResetPred, ResetClear, ResetClearRaws,
         ResetRaws, ResetDirty, ResetPC
<1>2. PlaceOK' BY <1>1, PlaceConn DEF ConnPC, TypeOK
<1>3. LocalsOK'
  BY <1>1, LocalsMove, ProcsDiffer
     DEF AcceptReset, ResetLock, ResetGraph, ResetPred, ResetClear, ResetClearRaws,
         ResetRaws, ResetDirty, ResetPC, UsesLocals
<1>4. DataOK'
  <2>1. CASE AcceptReset(h) BY <2>1 DEF AcceptReset, Use, Bounds, DataOK, TypeOK
  <2>2. CASE ResetLock(h) BY <2>2, ProcsDiffer DEF ResetLock, DataOK, TypeOK
  <2>3. CASE ResetGraph(h) BY <2>3, EmptyType DEF ResetGraph, DataOK, TypeOK
  <2>4. CASE ResetPred(h) \/ ResetRaws(h) BY <2>4 DEF ResetPred, ResetRaws, DataOK, TypeOK
  <2>5. CASE ResetClear(h) \/ ResetClearRaws(h)
    BY <2>5, EmptyType DEF ResetClear, ResetClearRaws, DataOK, TypeOK
  <2>6. CASE ResetDirty(h) BY <2>6 DEF ResetDirty, DataOK, TypeOK
  <2> QED BY <2>1, <2>2, <2>3, <2>4, <2>5, <2>6
<1> QED BY <1>2, <1>3, <1>4 DEF TypeOK

LEMMA TypeVanish == ASSUME TypeOK, Vanish PROVE TypeOK'
<1>1. PlaceOK'
  BY ProcsDiffer DEF Vanish, PlaceOK, ConnPC, BootPC, StopPC, LoopPC, SweepPC
<1>2. LocalsOK'
  <2>1. \A h \in Conns : pc'[h] = "idle" BY ProcsDiffer DEF Vanish
  <2> QED BY <2>1 DEF Vanish, LocalsOK
<1>3. DataOK'
  <2>1. flushCh' \in BOOLEAN /\ ctxDone' \in BOOLEAN BY Zenon DEF Vanish
  <2> QED BY <2>1, EmptyType DEF Vanish, FlushReturns, DecayReturns, DataOK, TypeOK
<1> QED BY <1>1, <1>2, <1>3 DEF TypeOK

LEMMA TypeLife ==
  ASSUME TypeOK, Start \/ Shutdown \/ Age \/ Cancel \/ Crash
  PROVE  TypeOK'
<1> USE DEF Step, memory, ptrs, sched, flushV, decayV, disk
<1>1. CASE Start
  <2>1. PICK l \in BootPC : Goto(Boot, l) /\ l \notin UsesLocals
    BY <1>1 DEF Start, BootLoad, BootSeed, BootPredictor, BootListen, BootPC, UsesLocals
  <2>2. PlaceOK' BY <2>1, PlaceBoot DEF TypeOK
  <2>3. LocalsOK'
    BY <1>1, <2>1, LocalsMove, ProcsDiffer DEF Start, BootLoad, BootSeed, BootPredictor, BootListen
  <2>4. CASE BootLoad
    <3>1. used' \in [Bounds -> Nat] BY <2>4 DEF BootLoad, Use, Bounds, DataOK, TypeOK
    <3>2. DataOK' BY <2>4, <3>1 DEF BootLoad, Known, DataOK, TypeOK
    <3> QED BY <2>2, <2>3, <3>2 DEF TypeOK
  <2>5. CASE BootSeed
    <3>1. PICK s \in Seeds :
            heap' = [heap EXCEPT ![g] = Merge(heap[g], s)] /\ old' = MergedOld(heap[g], s, old)
      BY <2>5 DEF BootSeed
    <3>2. heap' \in [Graphs -> Count] BY <3>1, MergeType DEF DataOK, TypeOK
    <3>3. old' \subseteq Keys BY <3>1 DEF MergedOld, Known
    <3>4. DataOK' BY <2>5, <3>2, <3>3 DEF BootSeed, DataOK, TypeOK
    <3> QED BY <2>2, <2>3, <3>4 DEF TypeOK
  <2>6. CASE BootPredictor \/ BootListen
    <3>1. DataOK' BY <2>6 DEF BootPredictor, BootListen, DataOK, TypeOK
    <3> QED BY <2>2, <2>3, <3>1 DEF TypeOK
  <2> QED BY <1>1, <2>4, <2>5, <2>6 DEF Start
<1>2. CASE StopListener \/ StopCloseDb
  <2>1. PICK l \in StopPC : Goto(Stop, l) /\ l \notin UsesLocals
    BY <1>2 DEF StopListener, StopCloseDb, StopPC, UsesLocals
  <2>2. PlaceOK' BY <2>1, PlaceStop DEF TypeOK
  <2>3. LocalsOK' BY <1>2, <2>1, LocalsMove, ProcsDiffer DEF StopListener, StopCloseDb
  <2>4. DataOK' BY <1>2 DEF StopListener, StopCloseDb, DataOK, TypeOK
  <2> QED BY <2>2, <2>3, <2>4 DEF TypeOK
<1>3. CASE Exit \/ Crash BY <1>3, TypeVanish DEF Exit, Crash
<1>4. CASE Age
  BY <1>4 DEF Age, Known, DataOK, TypeOK, PlaceOK, LocalsOK, conns
<1>5. CASE Cancel
  <2>1. ctxDone' \in BOOLEAN BY <1>5, Zenon DEF Cancel
  <2> QED BY <1>5, <2>1 DEF Cancel, Use, Bounds, DataOK, TypeOK, PlaceOK, LocalsOK, conns
<1> QED BY <1>1, <1>2, <1>3, <1>4, <1>5 DEF Shutdown

LEMMA TypeStep == TypeOK /\ [Next]_vars => TypeOK'
<1>1. ASSUME TypeOK, Next PROVE TypeOK'
  <2>1. ASSUME NEW h \in Conns, Handler(h) PROVE TypeOK'
    BY <1>1, <2>1, TypeRecord, TypeImport, TypeReset DEF Handler
  <2>2. CASE FlushLoop \/ DecayLoop BY <1>1, <2>2, TypeLoops
  <2>3. CASE Start \/ Shutdown \/ Age \/ Cancel \/ Crash BY <1>1, <2>3, TypeLife
  <2> QED BY <1>1, <2>1, <2>2, <2>3, TypeFlush, TypeDecay DEF Next
<1>2. ASSUME TypeOK, UNCHANGED vars PROVE TypeOK'
  BY <1>2 DEF vars, memory, ptrs, sched, conns, flushV, decayV, disk, TypeOK, PlaceOK, LocalsOK, DataOK
<1> QED BY <1>1, <1>2

(* The variables keep their types: in particular every goroutine stays inside
   its own function, and a record handler inside its request. *)
THEOREM DaemonTyping == Spec => []TypeOK
BY TypeInit, TypeStep, PTL DEF Spec

-----------------------------------------------------------------------------
(* flushMu.  A step either stays on one side of the critical sections, or
   enters one when the mutex is free, or leaves one and frees it. *)

LEMMA MutexMove ==
  ASSUME TypeOK, MutexOK, NEW p \in Procs, NEW l, Goto(p, l), mu' = mu,
         pc[p] \in Critical <=> l \in Critical
  PROVE  MutexOK'
BY DEF TypeOK, PlaceOK, MutexOK, Goto

LEMMA MutexEnter ==
  ASSUME TypeOK, MutexOK, NEW p \in Procs, NEW l \in Critical, Goto(p, l), mu = Free, mu' = p
  PROVE  MutexOK'
BY ProcsDiffer DEF TypeOK, PlaceOK, MutexOK, Goto, Procs

LEMMA MutexLeave ==
  ASSUME TypeOK, MutexOK, NEW p \in Procs, pc[p] \in Critical,
         NEW l, l \notin Critical, Goto(p, l), mu' = Free
  PROVE  MutexOK'
BY ProcsDiffer DEF TypeOK, PlaceOK, MutexOK, Goto, Procs

(* There is one holder. *)
LEMMA OneHolder ==
  ASSUME MutexOK, NEW p \in Procs, NEW q \in Procs, pc[p] \in Critical, pc[q] \in Critical
  PROVE  p = q
BY DEF MutexOK

LEMMA MutexHandler ==
  ASSUME TypeOK, MutexOK, NEW h \in Conns, Handler(h)
  PROVE  MutexOK'
<1> USE ProcsDiffer DEF Critical, FlushPC, ResetPC, DecayPC, Step, sched
<1>1. CASE \/ AcceptRecord(h) \/ RecordLoad(h) \/ RecordObs(h) \/ RecordRaw(h)
           \/ RecordDirty(h) \/ RecordSignal(h)
  <2>1. PICK l \in {"load", "graph", "raws", "dirty", "signal", "idle"} :
          Goto(h, l) /\ mu' = mu /\ pc[h] \in {"load", "graph", "raws", "dirty", "signal", "idle"}
    BY <1>1 DEF AcceptRecord, RecordLoad, RecordObs, RecordRaw, RecordDirty, RecordSignal, NextState
  <2> QED BY <2>1, MutexMove
<1>2. CASE RecordRaws(h)
  BY <1>2 DEF RecordRaws, MutexOK
<1>3. CASE AcceptImport(h) \/ ImportLoad(h) \/ ImportMerge(h) \/ ImportNewPredictor(h) \/ ImportStorePredictor(h)
  <2> DEFINE L == {"idle", "import_load", "import_merge", "flush_lock", "import_new", "import_pred"}
  <2>1. PICK l \in L : Goto(h, l) /\ mu' = mu /\ pc[h] \in L
    BY <1>3 DEF AcceptImport, ImportLoad, ImportMerge, ImportNewPredictor, ImportStorePredictor
  <2> QED BY <2>1, MutexMove
<1>4. CASE AcceptReset(h) BY <1>4, MutexMove DEF AcceptReset
<1>5. CASE ResetLock(h) BY <1>5, MutexEnter DEF ResetLock
<1>6. CASE ResetGraph(h) \/ ResetPred(h) \/ ResetClear(h) \/ ResetClearRaws(h) \/ ResetRaws(h)
  <2>1. PICK l \in ResetPC : Goto(h, l) /\ mu' = mu /\ pc[h] \in ResetPC
    BY <1>6 DEF ResetGraph, ResetPred, ResetClear, ResetClearRaws, ResetRaws
  <2> QED BY <2>1, MutexMove
<1>7. CASE ResetDirty(h) BY <1>7, MutexLeave DEF ResetDirty
<1> QED BY <1>1, <1>2, <1>3, <1>4, <1>5, <1>6, <1>7 DEF Handler

LEMMA MutexFlush ==
  ASSUME TypeOK, MutexOK, NEW p \in Procs, Flush(p)
  PROVE  MutexOK'
<1> USE DEF Critical, FlushPC, ResetPC, DecayPC, Step, sched
<1>1. AfterFlush(p) \notin Critical BY DEF AfterFlush
<1>2. CASE FlushLock(p) BY <1>2, MutexEnter DEF FlushLock
<1>3. CASE FlushAll(p) \/ FlushSave(p) \/ FlushRaws(p) \/ FlushSaveRaws(p)
  <2>1. PICK l \in FlushPC : Goto(p, l) /\ mu' = mu /\ pc[p] \in FlushPC
    BY <1>3 DEF FlushAll, FlushSave, FlushRaws, FlushSaveRaws
  <2> QED BY <2>1, MutexMove
<1>4. CASE FlushSaveFails(p) \/ FlushAgain(p)
  BY <1>1, <1>4, MutexLeave DEF FlushSaveFails, FlushAgain
<1>5. CASE FlushSwap(p)
  <2>1. CASE dirty > 0 BY <1>5, <2>1, MutexMove DEF FlushSwap
  <2>2. CASE ~(dirty > 0) BY <1>1, <1>5, <2>2, MutexLeave DEF FlushSwap
  <2> QED BY <2>1, <2>2
<1> QED BY <1>2, <1>3, <1>4, <1>5 DEF Flush

LEMMA MutexDecay ==
  ASSUME TypeOK, MutexOK, NEW p \in Procs, Decay(p)
  PROVE  MutexOK'
<1> USE DEF Critical, FlushPC, ResetPC, DecayPC, Step, sched
<1>1. AfterDecay(p) \notin Critical BY DEF AfterDecay
<1>2. CASE DecayLock(p) BY <1>2, MutexEnter DEF DecayLock
<1>3. CASE DecayGraph(p)
  <2>1. CASE old = {} BY <1>1, <1>3, <2>1, MutexLeave DEF DecayGraph
  <2>2. CASE old # {} BY <1>3, <2>2, MutexMove DEF DecayGraph
  <2> QED BY <2>1, <2>2
<1>4. CASE DecayRaws(p) BY <1>4, MutexMove DEF DecayRaws
<1>5. CASE DecayPrune(p) BY <1>1, <1>5, MutexLeave DEF DecayPrune
<1> QED BY <1>2, <1>3, <1>4, <1>5 DEF Decay

LEMMA MutexRest ==
  ASSUME TypeOK, MutexOK,
         FlushLoop \/ DecayLoop \/ Start \/ Shutdown \/ Age \/ Cancel \/ Crash \/ UNCHANGED vars
  PROVE  MutexOK'
<1> USE ProcsDiffer DEF Critical, FlushPC, ResetPC, DecayPC, Step, sched
<1>1. CASE FlushLoop
  <2>1. PICK l \in {"done", "flush_lock"} : Goto(Loop, l) /\ mu' = mu /\ pc[Loop] = "idle"
    BY <1>1 DEF FlushLoop, LoopDone, LoopToken, LoopTick
  <2> QED BY <2>1, MutexMove
<1>2. CASE DecayLoop
  <2>1. PICK l \in {"done", "decay_lock"} : Goto(Sweep, l) /\ mu' = mu /\ pc[Sweep] = "idle"
    BY <1>2 DEF DecayLoop, SweepDone, SweepTick
  <2> QED BY <2>1, MutexMove
<1>3. CASE Start
  <2> DEFINE L == {"down", "seed", "flush_lock", "pred", "decay_lock", "listen", "up"}
  <2>1. PICK l \in L : Goto(Boot, l) /\ mu' = mu /\ pc[Boot] \in L
    BY <1>3 DEF Start, BootLoad, BootSeed, BootPredictor, BootListen
  <2> QED BY <2>1, MutexMove
<1>4. CASE StopListener \/ StopCloseDb
  <2> DEFINE L == {"idle", "flush_lock", "close_db", "exit"}
  <2>1. PICK l \in L : Goto(Stop, l) /\ mu' = mu /\ pc[Stop] \in L
    BY <1>4 DEF StopListener, StopCloseDb
  <2> QED BY <2>1, MutexMove
<1>5. CASE Exit \/ Crash
  BY <1>5 DEF Exit, Crash, Vanish, MutexOK, Procs
<1>6. CASE Age \/ Cancel \/ UNCHANGED vars
  BY <1>6 DEF Age, Cancel, vars, MutexOK
<1> QED BY <1>1, <1>2, <1>3, <1>4, <1>5, <1>6 DEF Shutdown

LEMMA MutexStep == TypeOK /\ MutexOK /\ [Next]_vars => MutexOK'
BY MutexHandler, MutexFlush, MutexDecay, MutexRest DEF Next

LEMMA MutexInit == Init => MutexOK
BY ProcsDiffer DEF Init, MutexOK, Critical, FlushPC, ResetPC, DecayPC, Procs

(* Flushes, resets and decays never overlap, whoever runs them. *)
THEOREM MutexTheorem == Spec => []MutexOK
<1>1. TypeOK /\ MutexOK /\ [Next]_vars => (TypeOK /\ MutexOK)'
  BY TypeStep, MutexStep
<1> QED BY <1>1, TypeInit, MutexInit, PTL DEF Spec

-----------------------------------------------------------------------------
(* While the process is down only start() can move. *)

LEMMA UpDuring ==
  ASSUME TypeOK, DownOK, Next, ~BootLoad, ~Vanish
  PROVE  pc[Boot] # "down" /\ pc'[Boot] # "down"
<1> USE ProcsDiffer DEF Step, Goto
<1>0. /\ pc[Boot] = "down" => ~ctxDone /\ \A p \in Procs \ {Boot} : pc[p] = "idle"
      /\ DOMAIN pc = Procs
  BY DEF DownOK, TypeOK, PlaceOK
<1>1. ASSUME NEW h \in Conns, Handler(h) PROVE pc[Boot] # "down" /\ pc'[Boot] # "down"
  <2>1. pc[Boot] # "down"
    BY <1>0, <1>1 DEF Handler, AcceptRecord, RecordLoad, RecordObs, RecordRaw, RecordDirty,
      RecordSignal, RecordRaws, AcceptImport, ImportLoad, ImportMerge, ImportNewPredictor,
      ImportStorePredictor, AcceptReset, ResetLock, ResetGraph, ResetPred, ResetClear,
      ResetClearRaws, ResetRaws, ResetDirty, Listening
  <2>2. pc'[Boot] = pc[Boot]
    BY <1>0, <1>1 DEF Handler, AcceptRecord, RecordLoad, RecordObs, RecordRaw, RecordDirty,
      RecordSignal, RecordRaws, AcceptImport, ImportLoad, ImportMerge, ImportNewPredictor,
      ImportStorePredictor, AcceptReset, ResetLock, ResetGraph, ResetPred, ResetClear,
      ResetClearRaws, ResetRaws, ResetDirty, NextState
  <2> QED BY <2>1, <2>2
<1>2. ASSUME NEW p \in Procs, Flush(p) PROVE pc[Boot] # "down" /\ pc'[Boot] # "down"
  <2>1. AfterFlush(p) # "down" BY DEF AfterFlush
  <2>2. PICK l : Goto(p, l) /\ l # "down" /\ pc[p] \notin {"idle", "down"}
    BY <1>2, <2>1 DEF Flush, FlushLock, FlushAll, FlushSave, FlushSaveFails, FlushRaws,
      FlushSaveRaws, FlushSwap, FlushAgain
  <2> QED BY <1>0, <2>2
<1>3. ASSUME NEW p \in Procs, Decay(p) PROVE pc[Boot] # "down" /\ pc'[Boot] # "down"
  <2>1. AfterDecay(p) # "down" BY DEF AfterDecay
  <2>2. PICK l : Goto(p, l) /\ l # "down" /\ pc[p] \notin {"idle", "down"}
    BY <1>3, <2>1 DEF Decay, DecayLock, DecayGraph, DecayRaws, DecayPrune
  <2> QED BY <1>0, <2>2
<1>4. CASE FlushLoop \/ DecayLoop
  BY <1>0, <1>4 DEF FlushLoop, LoopDone, LoopToken, LoopTick, LoopsRun, DecayLoop, SweepDone, SweepTick
<1>5. CASE Start \/ Shutdown
  BY <1>0, <1>5 DEF Start, BootSeed, BootPredictor, BootListen, Shutdown, StopListener, StopCloseDb, Exit
<1>6. CASE Age
  BY <1>6 DEF Age, DownOK, Known, Empty
<1>7. CASE Cancel \/ Crash BY <1>7 DEF Cancel, Crash
<1> QED BY <1>1, <1>2, <1>3, <1>4, <1>5, <1>6, <1>7 DEF Next

LEMMA DownVanish == ASSUME TypeOK, Vanish PROVE DownOK'
BY ProcsDiffer DEF Vanish, DownOK, TypeOK, DataOK

LEMMA DownStep == TypeOK /\ DownOK /\ [Next]_vars => DownOK'
<1> SUFFICES ASSUME TypeOK, DownOK, [Next]_vars PROVE DownOK'
  OBVIOUS
<1>1. CASE Vanish BY <1>1, DownVanish
<1>2. CASE BootLoad
  <2>1. pc'[Boot] # "down"
    BY <1>2, ProcsDiffer DEF BootLoad, Goto, TypeOK, PlaceOK
  <2> QED BY <2>1 DEF DownOK
<1>3. CASE Next /\ ~BootLoad /\ ~Vanish
  BY <1>3, UpDuring DEF DownOK
<1>4. CASE UNCHANGED vars
  BY <1>4 DEF vars, memory, ptrs, disk, DownOK
<1> QED BY <1>1, <1>2, <1>3, <1>4

-----------------------------------------------------------------------------
(* What is due while the mutex is held. *)

DuePC == {"reset_pred", "reset_clear", "decay_raws", "decay_prune"}

LEMMA DueEmpty == ASSUME \A q \in Procs : pc[q] \notin DuePC PROVE Due = {}
BY ProcsDiffer DEF Due, DuePC

LEMMA DueEmptyHeld ==
  ASSUME MutexOK, NEW p \in Procs, pc[p] \in Critical, pc[p] \notin DuePC
  PROVE  Due = {}
<1>1. \A q \in Procs : pc[q] \notin DuePC
  BY OneHolder DEF DuePC, Critical, ResetPC, DecayPC
<1> QED BY <1>1, DueEmpty

LEMMA DueReset ==
  ASSUME NEW h \in Conns, pc[h] \in {"reset_pred", "reset_clear"} PROVE Due = Keys
BY DEF Due

LEMMA DueDecay ==
  ASSUME TypeOK, MutexOK, NEW p \in {Boot, Sweep}, pc[p] \in {"decay_raws", "decay_prune"}
  PROVE  Due = pruned
<1>1. \A h \in Conns : pc[h] \notin {"reset_pred", "reset_clear"}
  BY OneHolder, ProcsDiffer DEF Critical, ResetPC, DecayPC
<1> QED BY <1>1 DEF Due

LEMMA DueSame ==
  ASSUME TypeOK, NEW p \in Procs, NEW l, Goto(p, l), pc[p] \notin DuePC, l \notin DuePC, pruned' = pruned
  PROVE  Due' = Due
<1>1. \A q \in Procs : \A m \in DuePC : pc'[q] = m <=> pc[q] = m
  BY DEF Goto, TypeOK, PlaceOK
<1>2. (\E h \in Conns : pc'[h] \in {"reset_pred", "reset_clear"})
        <=> (\E h \in Conns : pc[h] \in {"reset_pred", "reset_clear"})
  BY <1>1, ProcsDiffer DEF DuePC
<1>3. (\E q \in {Boot, Sweep} : pc'[q] \in {"decay_raws", "decay_prune"})
        <=> (\E q \in {Boot, Sweep} : pc[q] \in {"decay_raws", "decay_prune"})
  BY <1>1, ProcsDiffer DEF DuePC
<1> QED BY <1>2, <1>3 DEF Due

(* The holder leaves: nothing is due any more. *)
LEMMA DueAfter ==
  ASSUME TypeOK, MutexOK, NEW p \in Procs, pc[p] \in Critical, NEW l, Goto(p, l), l \notin DuePC
  PROVE  Due' = {}
<1>1. \A q \in Procs : pc'[q] \notin DuePC
  BY OneHolder DEF DuePC, Critical, ResetPC, DecayPC, Goto, TypeOK, PlaceOK
<1> QED BY <1>1, ProcsDiffer DEF Due, DuePC

-----------------------------------------------------------------------------
(* What each step does to the cache.  Most leave the database alone and take
   nothing from the graph. *)

Cache == WB!Learn \/ WB!Erase \/ WB!GiveUp \/ \E K \in SUBSET Keys : WB!Forget(K) \/ WB!Save(K)

Growing ==
  /\ g' = g /\ heap'[g] \in Count /\ \A k \in Keys : heap[g][k] <= heap'[g][k]
  /\ db' = db /\ residue' = residue /\ Due' = Due

LEMMA Learns == Growing => Cache
BY DEF Growing, Cache, WB!Learn, WB!Counts, Count

LEMMA Quiet ==
  ASSUME TypeOK, UNCHANGED <<heap, g, db, residue>>, Due' = Due
  PROVE  Growing
<1>1. heap[g] \in Count BY DEF TypeOK, DataOK
<1>2. \A k \in Keys : heap[g][k] <= heap[g][k] BY <1>1 DEF Count
<1> QED BY <1>1, <1>2 DEF Growing

(* A step of one goroutine outside the deletions. *)
LEMMA QuietMove ==
  ASSUME TypeOK, NEW p \in Procs, NEW l, Goto(p, l), pc[p] \notin DuePC, l \notin DuePC,
         UNCHANGED <<heap, g, db, residue, pruned>>
  PROVE  Growing
BY DueSame, Quiet

LEMMA GrowRecord ==
  ASSUME TypeOK, NEW h \in Conns,
         \/ AcceptRecord(h) \/ RecordLoad(h) \/ RecordObs(h) \/ RecordRaw(h)
         \/ RecordDirty(h) \/ RecordSignal(h) \/ RecordRaws(h)
  PROVE  Growing
<1> USE ProcsDiffer DEF Step, DuePC, memory, ptrs, disk, decayV
<1>1. CASE AcceptRecord(h) BY <1>1, QuietMove DEF AcceptRecord
<1>2. CASE RecordLoad(h) BY <1>2, QuietMove DEF RecordLoad
<1>3. CASE RecordObs(h)
  <2>1. PICK l \in {"graph", "raws"} : Goto(h, l)
    BY <1>3 DEF RecordObs, NextState
  <2>2. Due' = Due
    BY <1>3, <2>1, DueSame DEF RecordObs
  <2>3. heap \in [Graphs -> Count] /\ g \in Graphs
    BY DEF TypeOK, DataOK
  <2>4. req[h][ix[h]] \in Keys /\ hg[h] \in Graphs
    BY <1>3 DEF RecordObs, TypeOK, LocalsOK
  <2>5. heap' = [heap EXCEPT ![hg[h]] = [heap[hg[h]] EXCEPT ![req[h][ix[h]]] = @ + 1]]
    BY <1>3 DEF RecordObs
  <2>6. heap'[g] = IF hg[h] = g THEN [heap[g] EXCEPT ![req[h][ix[h]]] = @ + 1] ELSE heap[g]
    BY <2>3, <2>4, <2>5
  <2>7. heap'[g] \in Count /\ \A k \in Keys : heap[g][k] <= heap'[g][k]
    BY <2>3, <2>4, <2>6 DEF Count
  <2> QED BY <1>3, <2>2, <2>7 DEF Growing, RecordObs
<1>4. CASE RecordRaw(h)
  <2>1. PICK l \in {"raws", "dirty"} : Goto(h, l)
    BY <1>4 DEF RecordRaw, NextState
  <2> QED BY <1>4, <2>1, QuietMove DEF RecordRaw
<1>5. CASE RecordDirty(h) BY <1>5, QuietMove DEF RecordDirty
<1>6. CASE RecordSignal(h) BY <1>6, QuietMove DEF RecordSignal
<1>7. CASE RecordRaws(h)
  BY <1>7, Quiet DEF RecordRaws, Due
<1> QED BY <1>1, <1>2, <1>3, <1>4, <1>5, <1>6, <1>7

LEMMA MergeGrows ==
  ASSUME NEW c \in Count, NEW s \in Seeds
  PROVE  \A k \in Keys : c[k] <= Merge(c, s)[k]
BY DaemonAssumption DEF Merge, Max2, Count

LEMMA GrowImport ==
  ASSUME TypeOK, NEW h \in Conns,
         \/ AcceptImport(h) \/ ImportLoad(h) \/ ImportMerge(h)
         \/ ImportNewPredictor(h) \/ ImportStorePredictor(h)
  PROVE  Growing
<1> USE ProcsDiffer DEF Step, DuePC, memory, ptrs, disk, decayV
<1>1. CASE AcceptImport(h) BY <1>1, QuietMove DEF AcceptImport
<1>2. CASE ImportLoad(h) BY <1>2, QuietMove DEF ImportLoad
<1>3. CASE ImportMerge(h)
  <2>1. PICK s \in Seeds : heap' = [heap EXCEPT ![hg[h]] = Merge(heap[hg[h]], s)]
    BY <1>3 DEF ImportMerge
  <2>2. heap \in [Graphs -> Count] /\ g \in Graphs
    BY DEF TypeOK, DataOK
  <2>3. hg[h] \in Graphs BY <1>3 DEF ImportMerge, TypeOK, LocalsOK
  <2>4. heap'[g] = IF hg[h] = g THEN Merge(heap[g], s) ELSE heap[g]
    BY <2>1, <2>2, <2>3
  <2>5. heap'[g] \in Count /\ \A k \in Keys : heap[g][k] <= heap'[g][k]
    <3>1. CASE hg[h] = g BY <2>2, <2>4, <3>1, MergeGrows, MergeType
    <3>2. CASE hg[h] # g BY <2>2, <2>4, <3>2 DEF Count
    <3> QED BY <3>1, <3>2
  <2>6. Due' = Due BY <1>3, DueSame DEF ImportMerge
  <2> QED BY <1>3, <2>5, <2>6 DEF Growing, ImportMerge
<1>4. CASE ImportNewPredictor(h) BY <1>4, QuietMove DEF ImportNewPredictor
<1>5. CASE ImportStorePredictor(h) BY <1>5, QuietMove DEF ImportStorePredictor
<1> QED BY <1>1, <1>2, <1>3, <1>4, <1>5

LEMMA CacheReset ==
  ASSUME TypeOK, MutexOK, NEW h \in Conns,
         \/ AcceptReset(h) \/ ResetLock(h) \/ ResetGraph(h) \/ ResetPred(h)
         \/ ResetClear(h) \/ ResetClearRaws(h) \/ ResetRaws(h) \/ ResetDirty(h)
  PROVE  Cache
<1> USE ProcsDiffer DEF Step, DuePC, memory, ptrs, disk, decayV
<1>0. DOMAIN pc = Procs /\ h \in Procs /\ residue \subseteq Keys
  BY DEF TypeOK, PlaceOK, DataOK
<1>1. CASE AcceptReset(h) BY <1>1, QuietMove, Learns DEF AcceptReset
<1>2. CASE ResetLock(h) BY <1>2, QuietMove, Learns DEF ResetLock
<1>3. CASE ResetGraph(h)
  <2>1. Due = {}
    BY <1>0, <1>3, DueEmptyHeld DEF ResetGraph, Critical, ResetPC
  <2>2. pc'[h] = "reset_pred" BY <1>0, <1>3 DEF ResetGraph, Goto
  <2>3. Due' = Keys BY <2>2 DEF Due
  <2>4. heap'[g'] = WB!Without(heap[g], Keys)
    BY <1>3 DEF ResetGraph, Empty, WB!Without, TypeOK, DataOK
  <2>5. WB!Forget(Keys) BY <1>3, <2>1, <2>3, <2>4 DEF ResetGraph, WB!Forget
  <2> QED BY <2>5 DEF Cache
<1>4. CASE ResetPred(h)
  <2>1. pc[h] = "reset_pred" /\ pc'[h] = "reset_clear" BY <1>0, <1>4 DEF ResetPred, Goto
  <2>2. Due = Keys /\ Due' = Keys BY <2>1 DEF Due
  <2> QED BY <1>4, <2>2, Quiet, Learns DEF ResetPred
<1>5. CASE ResetClear(h)
  <2>1. PICK l \in {"reset_clear_raws", "reset_raws"} : Goto(h, l)
    BY <1>5 DEF ResetClear
  <2>2. Due' = {} BY <1>0, <1>5, <2>1, DueAfter DEF ResetClear, Critical, ResetPC
  <2>3. Due = Keys BY <1>5, DueReset DEF ResetClear
  <2>4. CASE db' = Empty /\ residue' = {}
    <3>1. db' = WB!Without(db, Keys) BY <2>4 DEF Empty, WB!Without
    <3>2. WB!Erase BY <1>0, <1>5, <2>2, <2>3, <2>4, <3>1 DEF ResetClear, WB!Erase
    <3> QED BY <3>2 DEF Cache
  <2>5. CASE db' = db /\ residue' = Keys
    <3>1. WB!GiveUp BY <1>0, <1>5, <2>2, <2>3, <2>5 DEF ResetClear, WB!GiveUp
    <3> QED BY <3>1 DEF Cache
  <2> QED BY <1>5, <2>4, <2>5 DEF ResetClear
<1>6. CASE ResetClearRaws(h) BY <1>6, QuietMove, Learns DEF ResetClearRaws
<1>7. CASE ResetRaws(h) BY <1>7, QuietMove, Learns DEF ResetRaws
<1>8. CASE ResetDirty(h) BY <1>8, QuietMove, Learns DEF ResetDirty
<1> QED BY <1>1, <1>2, <1>3, <1>4, <1>5, <1>6, <1>7, <1>8

LEMMA CacheHandler ==
  ASSUME TypeOK, MutexOK, NEW h \in Conns, Handler(h)
  PROVE  Cache
BY GrowRecord, GrowImport, CacheReset, Learns DEF Handler

LEMMA CacheFlush ==
  ASSUME TypeOK, MutexOK, SnapshotOK, NEW p \in Procs, Flush(p)
  PROVE  Cache
<1> USE ProcsDiffer DEF Step, DuePC, memory, ptrs, disk, decayV
<1>0. AfterFlush(p) \notin DuePC BY DEF AfterFlush
<1>1. CASE FlushLock(p) BY <1>1, QuietMove, Learns DEF FlushLock
<1>2. CASE FlushAll(p) BY <1>2, QuietMove, Learns DEF FlushAll
<1>3. CASE FlushSave(p)
  <2>1. Due = {} BY <1>3, DueEmptyHeld DEF FlushSave, Critical, FlushPC
  <2>2. Due' = {} BY <1>3, DueAfter DEF FlushSave, Critical, FlushPC
  <2>3. db \in Count /\ all \in Count /\ heap[g] \in Count BY DEF TypeOK, DataOK
  <2>4. db' = [k \in Keys |-> IF all[k] > 0 THEN all[k] ELSE db[k]]
    BY <1>3 DEF FlushSave
  <2>5. db' \in WB!Counts BY <2>3, <2>4 DEF Count, WB!Counts
  <2>6. Known(all) \subseteq Keys BY DEF Known
  <2>7. \A k \in Keys \ Known(all) : db'[k] = db[k] BY <2>3, <2>4 DEF Known
  <2>8. \A k \in Known(all) : db'[k] <= heap[g][k] /\ (k \notin residue => db[k] <= db'[k])
    BY <1>3, <2>3, <2>4 DEF FlushSave, SnapshotOK, Known
  <2>9. WB!Save(Known(all))
    BY <1>3, <2>1, <2>2, <2>5, <2>7, <2>8 DEF FlushSave, WB!Save
  <2> QED BY <2>6, <2>9 DEF Cache
<1>4. CASE FlushSaveFails(p) BY <1>0, <1>4, QuietMove, Learns DEF FlushSaveFails
<1>5. CASE FlushRaws(p) BY <1>5, QuietMove, Learns DEF FlushRaws
<1>6. CASE FlushSaveRaws(p) BY <1>6, QuietMove, Learns DEF FlushSaveRaws
<1>7. CASE FlushSwap(p)
  <2>1. PICK l \in {"flush_again", AfterFlush(p)} : Goto(p, l) BY <1>7 DEF FlushSwap
  <2> QED BY <1>0, <1>7, <2>1, QuietMove, Learns DEF FlushSwap
<1>8. CASE FlushAgain(p) BY <1>0, <1>8, QuietMove, Learns DEF FlushAgain
<1> QED BY <1>1, <1>2, <1>3, <1>4, <1>5, <1>6, <1>7, <1>8 DEF Flush

LEMMA CacheDecay ==
  ASSUME TypeOK, MutexOK, NEW p \in Procs, Decay(p)
  PROVE  Cache
<1> USE ProcsDiffer DEF Step, memory, ptrs, disk, decayV
<1>0. AfterDecay(p) \notin DuePC /\ DOMAIN pc = Procs
  BY DEF AfterDecay, DuePC, TypeOK, PlaceOK
<1>1. CASE DecayLock(p) BY <1>1, QuietMove, Learns DEF DecayLock, DuePC
<1>2. p \in {Boot, Sweep} \/ pc[p] \notin DecayPC
  BY DEF TypeOK, PlaceOK, Procs, ConnPC, StopPC, LoopPC, FlushPC, ResetPC, DecayPC
<1>3. CASE DecayGraph(p)
  <2>1. Due = {} BY <1>3, DueEmptyHeld DEF DecayGraph, Critical, DecayPC, DuePC
  <2>2. heap \in [Graphs -> Count] /\ g \in Graphs /\ old \subseteq Keys
    BY DEF TypeOK, DataOK
  <2>3. heap'[g'] = WB!Without(heap[g], old)
    BY <1>3, <2>2 DEF DecayGraph, Without, WB!Without
  <2>4. Due' = old
    <3>1. CASE old = {}
      BY <1>0, <1>3, <3>1, DueAfter DEF DecayGraph, Critical, DecayPC
    <3>2. CASE old # {}
      <4>1. Goto(p, "decay_raws") /\ pruned' = old BY <1>3, <3>2 DEF DecayGraph
      <4>2. pc'[p] = "decay_raws" /\ p \in {Boot, Sweep}
        BY <1>0, <1>2, <1>3, <4>1 DEF Goto, DecayGraph, DecayPC
      <4>3. \A h \in Conns : pc'[h] \notin {"reset_pred", "reset_clear"}
        BY <1>0, <1>2, <1>3, <4>1, OneHolder DEF Goto, DecayGraph, Critical, ResetPC, DecayPC
      <4> QED BY <4>1, <4>2, <4>3 DEF Due
    <3> QED BY <3>1, <3>2
  <2>5. WB!Forget(old) BY <1>3, <2>1, <2>3, <2>4 DEF DecayGraph, WB!Forget
  <2> QED BY <2>2, <2>5 DEF Cache
<1>4. CASE DecayRaws(p)
  <2>1. p \in {Boot, Sweep} BY <1>2, <1>4 DEF DecayRaws, DecayPC
  <2>2. Due = pruned BY <1>4, <2>1, DueDecay DEF DecayRaws
  <2>3. pc'[p] = "decay_prune" BY <1>0, <1>4 DEF DecayRaws, Goto
  <2>4. \A h \in Conns : pc'[h] \notin {"reset_pred", "reset_clear"}
    BY <1>0, <1>4, OneHolder, <2>1 DEF DecayRaws, Goto, Critical, ResetPC, DecayPC
  <2>5. Due' = Due BY <1>4, <2>1, <2>2, <2>3, <2>4 DEF DecayRaws, Due
  <2> QED BY <1>4, <2>5, Quiet, Learns DEF DecayRaws
<1>5. CASE DecayPrune(p)
  <2>1. p \in {Boot, Sweep} BY <1>2, <1>5 DEF DecayPrune, DecayPC
  <2>2. Due = pruned BY <1>5, <2>1, DueDecay DEF DecayPrune
  <2>3. Due' = {} BY <1>0, <1>5, DueAfter DEF DecayPrune, Critical, DecayPC
  <2>4. CASE db' = Without(db, pruned) /\ residue' = residue \ pruned
    <3>1. WB!Erase
      BY <1>5, <2>2, <2>3, <2>4 DEF DecayPrune, WB!Erase, Without, WB!Without
    <3> QED BY <3>1 DEF Cache
  <2>5. CASE db' = db /\ residue' = residue \cup pruned
    <3>1. WB!GiveUp BY <1>5, <2>2, <2>3, <2>5 DEF DecayPrune, WB!GiveUp
    <3> QED BY <3>1 DEF Cache
  <2> QED BY <1>5, <2>4, <2>5 DEF DecayPrune
<1> QED BY <1>1, <1>3, <1>4, <1>5 DEF Decay

LEMMA GrowBootLoad ==
  ASSUME TypeOK, DownOK, BootLoad
  PROVE  Growing
<1> USE ProcsDiffer
<1>1. heap \in [Graphs -> Count] /\ g \in Graphs /\ db \in Count BY DEF TypeOK, DataOK
<1>2. PICK l \in {"pred", "seed"} : Goto(Boot, l) BY DEF BootLoad
<1>3. Due' = Due
  BY <1>2, DueSame DEF BootLoad, DuePC, decayV
<1>4. heap[g] = Empty /\ heap'[g] = db BY <1>1 DEF BootLoad, DownOK
<1>5. \A k \in Keys : heap[g][k] <= heap'[g][k] BY <1>1, <1>4 DEF Empty, Count
<1> QED BY <1>1, <1>3, <1>4, <1>5 DEF Growing, BootLoad, ptrs, disk

LEMMA GrowRest ==
  ASSUME TypeOK,
         \/ FlushLoop \/ DecayLoop \/ BootSeed \/ BootPredictor \/ BootListen
         \/ StopListener \/ StopCloseDb \/ Age \/ Cancel
  PROVE  Growing
<1> USE ProcsDiffer DEF Step, DuePC, memory, ptrs, disk, decayV
<1>1. CASE FlushLoop
  <2>1. PICK l \in {"done", "flush_lock"} : Goto(Loop, l) /\ pc[Loop] = "idle"
    BY <1>1 DEF FlushLoop, LoopDone, LoopToken, LoopTick
  <2> QED BY <1>1, <2>1, QuietMove DEF FlushLoop, LoopDone, LoopToken, LoopTick
<1>2. CASE DecayLoop
  <2>1. PICK l \in {"done", "decay_lock"} : Goto(Sweep, l) /\ pc[Sweep] = "idle"
    BY <1>2 DEF DecayLoop, SweepDone, SweepTick
  <2> QED BY <1>2, <2>1, QuietMove DEF DecayLoop, SweepDone, SweepTick
<1>3. CASE BootSeed
  <2>1. PICK s \in Seeds : heap' = [heap EXCEPT ![g] = Merge(heap[g], s)]
    BY <1>3 DEF BootSeed
  <2>2. heap \in [Graphs -> Count] /\ g \in Graphs BY DEF TypeOK, DataOK
  <2>3. heap'[g] = Merge(heap[g], s) BY <2>1, <2>2
  <2>4. heap'[g] \in Count /\ \A k \in Keys : heap[g][k] <= heap'[g][k]
    BY <2>2, <2>3, MergeGrows, MergeType
  <2>5. Due' = Due BY <1>3, DueSame DEF BootSeed
  <2> QED BY <1>3, <2>4, <2>5 DEF Growing, BootSeed
<1>4. CASE BootPredictor BY <1>4, QuietMove DEF BootPredictor
<1>5. CASE BootListen BY <1>5, QuietMove DEF BootListen
<1>6. CASE StopListener BY <1>6, QuietMove DEF StopListener
<1>7. CASE StopCloseDb BY <1>7, QuietMove DEF StopCloseDb
<1>8. CASE Age BY <1>8, Quiet DEF Age, Due
<1>9. CASE Cancel BY <1>9, Quiet DEF Cancel, Due
<1> QED BY <1>1, <1>2, <1>3, <1>4, <1>5, <1>6, <1>7, <1>8, <1>9

(* A step that does not end the process is a step of the cache. *)
LEMMA CacheStep ==
  ASSUME TypeOK, MutexOK, DownOK, SnapshotOK, Next, ~Vanish
  PROVE  Cache
BY CacheHandler, CacheFlush, CacheDecay, GrowBootLoad, GrowRest, Learns
   DEF Next, Start, Shutdown, Exit, Crash

(* One that does loses what memory had. *)
LEMMA CacheLost ==
  ASSUME TypeOK, Vanish
  PROVE  WB!Lose
<1>1. \A q \in Procs : pc'[q] \notin DuePC BY DEF Vanish, DuePC
<1>2. Due' = {} BY <1>1, ProcsDiffer DEF Due, DuePC
<1>3. heap'[g'] = WB!Nothing BY DEF Vanish, TypeOK, DataOK, Empty, WB!Nothing
<1> QED BY <1>2, <1>3 DEF Vanish, WB!Lose

-----------------------------------------------------------------------------
(* The snapshot of a flush.  Whoever else moves meanwhile only adds to the
   graph, because everything that takes from it needs flushMu. *)

LEMMA SnapshotGrows ==
  ASSUME TypeOK, SnapshotOK, Growing, all' = all,
         \A p \in Procs : pc'[p] = "flush_save" => pc[p] = "flush_save"
  PROVE  SnapshotOK'
<1> SUFFICES ASSUME NEW p \in Procs, pc'[p] = "flush_save", NEW k \in Keys
             PROVE  all'[k] <= heap'[g'][k] /\ (k \notin residue' => db'[k] <= all'[k])
  BY DEF SnapshotOK
<1>1. all[k] \in Nat /\ heap[g][k] \in Nat /\ heap'[g][k] \in Nat
  BY DEF TypeOK, DataOK, Growing, Count
<1> QED BY <1>1 DEF SnapshotOK, Growing

LEMMA SnapshotMove ==
  ASSUME TypeOK, SnapshotOK, NEW q \in Procs, NEW l, Goto(q, l), l # "flush_save",
         Growing, all' = all
  PROVE  SnapshotOK'
<1>1. \A p \in Procs : pc'[p] = "flush_save" => pc[p] = "flush_save"
  BY DEF Goto, TypeOK, PlaceOK
<1> QED BY <1>1, SnapshotGrows

(* The holder of flushMu moves on from elsewhere: nobody is about to save. *)
LEMMA SnapshotNone ==
  ASSUME TypeOK, MutexOK, NEW q \in Procs, pc[q] \in Critical, NEW l, Goto(q, l), l # "flush_save"
  PROVE  SnapshotOK'
<1>1. \A p \in Procs : pc'[p] # "flush_save"
  BY OneHolder DEF Critical, FlushPC, Goto, TypeOK, PlaceOK
<1> QED BY <1>1 DEF SnapshotOK

LEMMA SnapshotTaken ==
  ASSUME TypeOK, MutexOK, DownOK, StoreBehindGraph, NEW p \in Procs, FlushAll(p)
  PROVE  SnapshotOK'
<1>1. pc[p] = "flush_all" /\ all' = heap[g] /\ UNCHANGED <<heap, g, db, residue>>
  BY DEF FlushAll, Step, memory, ptrs, disk
<1>2. Due = {} BY <1>1, DueEmptyHeld DEF Critical, FlushPC, DuePC
<1>3. pc[Boot] # "down" BY <1>1, ProcsDiffer DEF DownOK
<1>4. \A k \in Keys : heap[g][k] \in Nat BY DEF TypeOK, DataOK, Count
<1> QED BY <1>1, <1>2, <1>3, <1>4 DEF StoreBehindGraph, SnapshotOK

LEMMA SnapshotHandler ==
  ASSUME TypeOK, MutexOK, SnapshotOK, NEW h \in Conns, Handler(h)
  PROVE  SnapshotOK'
<1> USE ProcsDiffer DEF Step, flushV
<1>1. CASE RecordRaws(h)
  <2>1. Growing BY <1>1, GrowRecord
  <2> QED BY <1>1, <2>1, SnapshotGrows DEF RecordRaws
<1>2. CASE \/ AcceptRecord(h) \/ RecordLoad(h) \/ RecordObs(h) \/ RecordRaw(h)
           \/ RecordDirty(h) \/ RecordSignal(h)
  <2>1. PICK l \in {"load", "graph", "raws", "dirty", "signal", "idle"} : Goto(h, l) /\ all' = all
    BY <1>2 DEF AcceptRecord, RecordLoad, RecordObs, RecordRaw, RecordDirty, RecordSignal, NextState
  <2>2. Growing BY <1>2, GrowRecord
  <2> QED BY <2>1, <2>2, SnapshotMove
<1>3. CASE AcceptImport(h) \/ ImportLoad(h) \/ ImportMerge(h) \/ ImportNewPredictor(h) \/ ImportStorePredictor(h)
  <2>1. PICK l \in {"idle", "import_load", "import_merge", "flush_lock", "import_new", "import_pred"} :
          Goto(h, l) /\ all' = all
    BY <1>3 DEF AcceptImport, ImportLoad, ImportMerge, ImportNewPredictor, ImportStorePredictor
  <2>2. Growing BY <1>3, GrowImport
  <2> QED BY <2>1, <2>2, SnapshotMove
<1>4. CASE AcceptReset(h) \/ ResetLock(h)
  <2>1. PICK l \in {"reset_lock", "reset_graph"} : Goto(h, l) /\ all' = all
    BY <1>4 DEF AcceptReset, ResetLock
  <2>2. Growing
    BY <1>4, QuietMove DEF AcceptReset, ResetLock, DuePC, memory, ptrs, disk, decayV
  <2> QED BY <2>1, <2>2, SnapshotMove
<1>5. CASE \/ ResetGraph(h) \/ ResetPred(h) \/ ResetClear(h) \/ ResetClearRaws(h)
           \/ ResetRaws(h) \/ ResetDirty(h)
  <2>1. PICK l \in ResetPC \cup {"idle"} : Goto(h, l) /\ pc[h] \in ResetPC
    BY <1>5 DEF ResetGraph, ResetPred, ResetClear, ResetClearRaws, ResetRaws, ResetDirty, ResetPC
  <2> QED BY <2>1, SnapshotNone DEF Critical, ResetPC
<1> QED BY <1>1, <1>2, <1>3, <1>4, <1>5 DEF Handler

LEMMA SnapshotFlushDecay ==
  ASSUME TypeOK, MutexOK, DownOK, SnapshotOK, StoreBehindGraph, NEW p \in Procs, Flush(p) \/ Decay(p)
  PROVE  SnapshotOK'
<1> USE ProcsDiffer DEF Step, flushV
<1>1. CASE FlushLock(p) \/ DecayLock(p)
  <2>1. PICK l \in {"flush_all", "decay_graph"} : Goto(p, l) /\ all' = all
    BY <1>1 DEF FlushLock, DecayLock
  <2>2. Growing
    BY <1>1, QuietMove DEF FlushLock, DecayLock, DuePC, memory, ptrs, disk, decayV
  <2> QED BY <2>1, <2>2, SnapshotMove
<1>2. CASE FlushAll(p) BY <1>2, SnapshotTaken
<1>3. CASE \/ FlushSave(p) \/ FlushSaveFails(p) \/ FlushRaws(p) \/ FlushSaveRaws(p)
           \/ FlushSwap(p) \/ FlushAgain(p)
  <2>1. PICK l \in (FlushPC \ {"flush_save"}) \cup {AfterFlush(p)} : Goto(p, l) /\ pc[p] \in FlushPC
    BY <1>3 DEF FlushSave, FlushSaveFails, FlushRaws, FlushSaveRaws, FlushSwap, FlushAgain, FlushPC
  <2>2. l # "flush_save" BY DEF AfterFlush
  <2> QED BY <2>1, <2>2, SnapshotNone DEF Critical
<1>4. CASE DecayGraph(p) \/ DecayRaws(p) \/ DecayPrune(p)
  <2>1. PICK l \in DecayPC \cup {AfterDecay(p)} : Goto(p, l) /\ pc[p] \in DecayPC
    BY <1>4 DEF DecayGraph, DecayRaws, DecayPrune, DecayPC
  <2>2. l # "flush_save" BY DEF AfterDecay, DecayPC
  <2> QED BY <2>1, <2>2, SnapshotNone DEF Critical
<1> QED BY <1>1, <1>2, <1>3, <1>4 DEF Flush, Decay

LEMMA SnapshotRest ==
  ASSUME TypeOK, SnapshotOK,
         \/ FlushLoop \/ DecayLoop \/ BootSeed \/ BootPredictor \/ BootListen
         \/ StopListener \/ StopCloseDb \/ Age \/ Cancel
  PROVE  SnapshotOK'
<1> USE ProcsDiffer DEF Step, flushV
<1>0. Growing BY GrowRest
<1>1. CASE FlushLoop \/ DecayLoop
  <2>1. PICK p \in {Loop, Sweep}, l \in {"done", "flush_lock", "decay_lock"} : Goto(p, l) /\ all' = all
    BY <1>1 DEF FlushLoop, LoopDone, LoopToken, LoopTick, DecayLoop, SweepDone, SweepTick
  <2> QED BY <1>0, <2>1, SnapshotMove
<1>2. CASE BootSeed \/ BootPredictor \/ BootListen
  <2>1. PICK l \in {"flush_lock", "decay_lock", "up"} : Goto(Boot, l) /\ all' = all
    BY <1>2 DEF BootSeed, BootPredictor, BootListen
  <2> QED BY <1>0, <2>1, SnapshotMove
<1>3. CASE StopListener \/ StopCloseDb
  <2>1. PICK l \in {"flush_lock", "exit"} : Goto(Stop, l) /\ all' = all
    BY <1>3 DEF StopListener, StopCloseDb
  <2> QED BY <1>0, <2>1, SnapshotMove
<1>4. CASE Age \/ Cancel
  BY <1>0, <1>4, SnapshotGrows DEF Age, Cancel
<1> QED BY <1>1, <1>2, <1>3, <1>4

LEMMA SnapshotVanish == ASSUME TypeOK, Vanish PROVE SnapshotOK'
BY DEF Vanish, SnapshotOK

LEMMA SnapshotStep ==
  ASSUME TypeOK, MutexOK, DownOK, SnapshotOK, StoreBehindGraph, Next
  PROVE  SnapshotOK'
<1>1. CASE BootLoad
  <2>1. PICK l \in {"pred", "seed"} : Goto(Boot, l) /\ all' = all
    BY <1>1 DEF BootLoad, flushV
  <2> QED BY <1>1, <2>1, GrowBootLoad, SnapshotMove, ProcsDiffer
<1> QED BY <1>1, SnapshotHandler, SnapshotFlushDecay, SnapshotRest, SnapshotVanish
        DEF Next, Start, Shutdown, Exit, Crash

-----------------------------------------------------------------------------
(* The rows of a running daemon. *)

Behind == \A k \in Keys \ (residue \cup Due) : db[k] <= heap[g][k]

(* The cache keeps disk behind memory, as long as the process lives. *)
LEMMA CacheBehind ==
  ASSUME TypeOK, TypeOK', Behind, Cache
  PROVE  Behind'
<1>0. /\ \A k \in Keys : heap[g][k] \in Nat /\ heap'[g'][k] \in Nat
      /\ \A k \in Keys : db[k] \in Nat /\ db'[k] \in Nat
  BY DEF TypeOK, DataOK, Count
<1>1. CASE WB!Learn BY <1>0, <1>1 DEF WB!Learn, Behind
<1>2. CASE WB!Erase BY <1>0, <1>2 DEF WB!Erase, WB!Without, Behind
<1>3. CASE WB!GiveUp BY <1>3 DEF WB!GiveUp, Behind
<1>4. ASSUME NEW K \in SUBSET Keys, WB!Forget(K) PROVE Behind'
  BY <1>0, <1>4 DEF WB!Forget, WB!Without, Behind
<1>5. ASSUME NEW K \in SUBSET Keys, WB!Save(K) PROVE Behind'
  BY <1>0, <1>5 DEF WB!Save, Behind
<1> QED BY <1>1, <1>2, <1>3, <1>4, <1>5 DEF Cache

LEMMA BehindStep ==
  ASSUME TypeOK, TypeOK', MutexOK, DownOK, SnapshotOK, StoreBehindGraph, Next
  PROVE  StoreBehindGraph'
<1>1. CASE Vanish
  <2>1. pc'[Boot] = "down" BY <1>1, ProcsDiffer DEF Vanish
  <2> QED BY <2>1 DEF StoreBehindGraph
<1>2. CASE BootLoad
  <2>1. heap'[g'] = db'
    BY <1>2 DEF BootLoad, ptrs, disk, TypeOK, DataOK
  <2>2. \A k \in Keys : db'[k] \in Nat BY DEF TypeOK, DataOK, Count
  <2> QED BY <2>1, <2>2 DEF StoreBehindGraph
<1>3. CASE ~BootLoad /\ ~Vanish
  <2>1. pc[Boot] # "down" BY <1>3, UpDuring
  <2>2. Behind BY <2>1 DEF StoreBehindGraph, Behind
  <2>3. Cache BY <1>3, CacheStep
  <2>4. Behind' BY <2>2, <2>3, CacheBehind
  <2> QED BY <2>4 DEF StoreBehindGraph, Behind
<1> QED BY <1>1, <1>2, <1>3

LEMMA InvInit == Init => IInv
<1> SUFFICES ASSUME Init PROVE IInv
  OBVIOUS
<1>1. TypeOK /\ MutexOK BY TypeInit, MutexInit
<1>2. pc[Boot] = "down" /\ \A p \in Procs : pc[p] \in {"idle", "down"}
  BY ProcsDiffer DEF Init
<1>3. DownOK BY <1>1, ProcsDiffer DEF Init, DownOK, TypeOK, DataOK
<1>4. SnapshotOK BY <1>2 DEF SnapshotOK
<1> QED BY <1>1, <1>2, <1>3, <1>4 DEF IInv, StoreBehindGraph

LEMMA InvStep == IInv /\ [Next]_vars => IInv'
<1> SUFFICES ASSUME IInv, [Next]_vars PROVE IInv'
  OBVIOUS
<1>1. TypeOK' /\ MutexOK' /\ DownOK'
  BY TypeStep, MutexStep, DownStep DEF IInv
<1>2. CASE Next
  BY <1>1, <1>2, SnapshotStep, BehindStep DEF IInv
<1>3. CASE UNCHANGED vars
  <2>1. SnapshotOK' /\ StoreBehindGraph'
    BY <1>3 DEF vars, memory, ptrs, flushV, decayV, disk, IInv, SnapshotOK, StoreBehindGraph, Due
  <2> QED BY <1>1, <2>1 DEF IInv
<1> QED BY <1>2, <1>3

(* The conjunction of all of the above is inductive. *)
THEOREM DaemonInvariant == Spec => []IInv
BY InvInit, InvStep, PTL DEF Spec

(* A running daemon never has more on disk than in memory: nothing a reset or a
   decay has removed comes back, unless the database refused to delete it. *)
THEOREM StoreBehindGraphTheorem == Spec => []StoreBehindGraph
<1>1. IInv => StoreBehindGraph BY DEF IInv
<1> QED BY <1>1, DaemonInvariant, PTL

(* The goroutines, their locks and the database implement the write-back cache. *)
THEOREM Refinement == Spec => ImplementsWriteBack
<1>1. Init => WB!Init
  <2> SUFFICES ASSUME Init PROVE WB!Init
    OBVIOUS
  <2>1. \A q \in Procs : pc[q] \notin DuePC BY DEF Init, DuePC
  <2>2. Due = {} BY <2>1, DueEmpty
  <2>3. g \in Graphs BY TypeInit DEF TypeOK, DataOK
  <2> QED BY <2>2, <2>3 DEF Init, WB!Init, WB!Nothing, Empty
<1>2. IInv /\ [Next]_vars => [WB!Next]_(WB!wbVars)
  <2> SUFFICES ASSUME IInv, [Next]_vars PROVE [WB!Next]_(WB!wbVars)
    OBVIOUS
  <2>1. CASE Next /\ ~Vanish BY <2>1, CacheStep DEF IInv, Cache, WB!Next
  <2>2. CASE Vanish BY <2>2, CacheLost DEF IInv, WB!Next
  <2>3. CASE UNCHANGED vars
    BY <2>3 DEF vars, memory, ptrs, decayV, disk, WB!wbVars, Due
  <2> QED BY <2>1, <2>2, <2>3
<1> QED BY <1>1, <1>2, DaemonInvariant, PTL DEF Spec, ImplementsWriteBack, WB!Spec

(* What has been saved is kept: whatever crashes, fails or overlaps, a count in
   the database only goes down where a reset or decay that is running deletes it
   (handleReset, decay), or where a deletion failed and a later save overwrites
   what was left; and a daemon that starts knows all that the database has. *)
THEOREM DurabilityTheorem ==
  Spec => [][/\ \A k \in Keys : db'[k] < db[k] => k \in Due \cup residue
             /\ pc[Boot] = "down" /\ pc'[Boot] # "down" => heap'[g'] = db']_vars
<1>1. ASSUME IInv, Next
      PROVE  /\ \A k \in Keys : db'[k] < db[k] => k \in Due \cup residue
             /\ pc[Boot] = "down" /\ pc'[Boot] # "down" => heap'[g'] = db'
  <2>1. db \in Count BY <1>1 DEF IInv, TypeOK, DataOK
  <2>2. db' = db => \A k \in Keys : ~(db'[k] < db[k]) BY <2>1 DEF Count
  <2>3. ASSUME ~Vanish, NEW k \in Keys, db'[k] < db[k] PROVE k \in Due \cup residue
    <3>1. Cache BY <1>1, <2>3, CacheStep DEF IInv
    <3>2. CASE WB!Erase
      <4>1. db' = [i \in Keys |-> IF i \in Due THEN 0 ELSE db[i]] BY <3>2 DEF WB!Erase, WB!Without
      <4> QED BY <2>1, <2>3, <4>1 DEF Count
    <3>3. ASSUME NEW K \in SUBSET Keys, WB!Save(K) PROVE k \in residue
      <4>1. /\ \A i \in Keys \ K : db'[i] = db[i]
            /\ \A i \in K : i \notin residue => db[i] <= db'[i]
            /\ db' \in Count
        BY <3>3 DEF WB!Save, WB!Counts, Count
      <4> QED BY <2>1, <2>3, <4>1 DEF Count
    <3>4. CASE WB!Learn \/ WB!GiveUp \/ (\E K \in SUBSET Keys : WB!Forget(K)) \/ UNCHANGED WB!wbVars
      <4>1. db' = db BY <3>4 DEF WB!Learn, WB!GiveUp, WB!Forget, WB!wbVars
      <4> QED BY <2>2, <2>3, <4>1
    <3> QED BY <3>1, <3>2, <3>3, <3>4 DEF Cache
  <2>4. Vanish => db' = db /\ pc'[Boot] = "down" BY DEF Vanish, Procs
  <2>5. ASSUME pc[Boot] = "down", pc'[Boot] # "down" PROVE heap'[g'] = db'
    <3>1. ~Vanish BY <2>4, <2>5
    <3>2. BootLoad BY <1>1, <2>5, <3>1, UpDuring DEF IInv
    <3>3. heap'[g] = db /\ g' = g /\ db' = db BY <1>1, <3>2 DEF BootLoad, ptrs, disk, IInv, TypeOK, DataOK
    <3> QED BY <3>3
  <2> QED BY <2>2, <2>3, <2>4, <2>5
<1> QED BY <1>1, DaemonInvariant, PTL DEF Spec

-----------------------------------------------------------------------------
(* Without resets, or without imports, no handler is ever inside one. *)
ResetFree == \A h \in Conns : pc[h] \notin {"reset_lock"} \cup ResetPC

ImportPC == {"import_load", "import_merge", "flush_lock", "import_new", "import_pred"} \cup FlushPC
ImportFree == \A h \in Conns : pc[h] \notin ImportPC

(* Where a step of a handler, or of a flush or decay for it, takes a connection. *)
LEMMA ConnMove ==
  ASSUME TypeOK, Next, NEW h \in Conns, pc'[h] # pc[h]
  PROVE  \/ pc'[h] = "idle"
         \/ AcceptRecord(h) \/ AcceptImport(h) \/ AcceptReset(h)
         \/ pc[h] \in {"load", "graph", "raws", "dirty"} /\ pc'[h] \in {"graph", "raws", "dirty", "signal"}
         \/ pc[h] \in ImportPC /\ pc'[h] \in ImportPC
         \/ pc[h] \in {"reset_lock"} \cup ResetPC /\ pc'[h] \in ResetPC
<1> USE ProcsDiffer DEF Step, Goto
<1>0. DOMAIN pc = Procs /\ pc[h] \in ConnPC
  BY DEF TypeOK, PlaceOK
<1>1. ASSUME NEW c \in Conns, Handler(c) PROVE c = h
  BY <1>0, <1>1 DEF Handler, AcceptRecord, RecordLoad, RecordObs, RecordRaw, RecordDirty, RecordSignal,
    RecordRaws, AcceptImport, ImportLoad, ImportMerge, ImportNewPredictor, ImportStorePredictor,
    AcceptReset, ResetLock, ResetGraph, ResetPred, ResetClear, ResetClearRaws, ResetRaws, ResetDirty, NextState
<1>2. CASE Handler(h)
  <2>1. CASE \/ AcceptRecord(h) \/ RecordLoad(h) \/ RecordObs(h) \/ RecordRaw(h)
             \/ RecordDirty(h) \/ RecordSignal(h) \/ RecordRaws(h)
    BY <1>0, <2>1 DEF RecordLoad, RecordObs, RecordRaw, RecordDirty, RecordSignal, RecordRaws, NextState
  <2>2. CASE \/ AcceptImport(h) \/ ImportLoad(h) \/ ImportMerge(h)
             \/ ImportNewPredictor(h) \/ ImportStorePredictor(h)
    BY <1>0, <2>2 DEF ImportLoad, ImportMerge, ImportNewPredictor, ImportStorePredictor, ImportPC
  <2>3. CASE \/ AcceptReset(h) \/ ResetLock(h) \/ ResetGraph(h) \/ ResetPred(h)
             \/ ResetClear(h) \/ ResetClearRaws(h) \/ ResetRaws(h) \/ ResetDirty(h)
    BY <1>0, <2>3 DEF ResetLock, ResetGraph, ResetPred, ResetClear, ResetClearRaws, ResetRaws, ResetDirty, ResetPC
  <2> QED BY <1>2, <2>1, <2>2, <2>3 DEF Handler
<1>3. ASSUME NEW p \in Procs, Flush(p) PROVE p = h /\ pc[h] \in ImportPC /\ pc'[h] \in ImportPC
  <2>1. PICK l \in FlushPC \cup {AfterFlush(p)} : Goto(p, l) /\ pc[p] \in {"flush_lock"} \cup FlushPC
    BY <1>3 DEF Flush, FlushLock, FlushAll, FlushSave, FlushSaveFails, FlushRaws, FlushSaveRaws,
      FlushSwap, FlushAgain, FlushPC
  <2>2. p = h BY <1>0, <2>1
  <2>3. AfterFlush(p) = "import_new" BY <2>2 DEF AfterFlush
  <2> QED BY <1>0, <2>1, <2>2, <2>3 DEF ImportPC
<1>4. ASSUME NEW p \in Procs, Decay(p) PROVE FALSE
  <2>1. PICK l : Goto(p, l) /\ pc[p] \in {"decay_lock"} \cup DecayPC
    BY <1>4 DEF Decay, DecayLock, DecayGraph, DecayRaws, DecayPrune, DecayPC
  <2>2. p = h BY <1>0, <2>1
  <2> QED BY <1>0, <2>1, <2>2 DEF ConnPC, DecayPC, FlushPC, ResetPC
<1>5. CASE FlushLoop \/ DecayLoop \/ Start \/ StopListener \/ StopCloseDb \/ Age \/ Cancel
  BY <1>0, <1>5 DEF FlushLoop, LoopDone, LoopToken, LoopTick, DecayLoop, SweepDone, SweepTick,
    Start, BootLoad, BootSeed, BootPredictor, BootListen, StopListener, StopCloseDb, Age, Cancel
<1>6. CASE Vanish
  BY <1>6 DEF Vanish
<1> QED BY <1>1, <1>2, <1>3, <1>4, <1>5, <1>6 DEF Next, Shutdown, Exit, Crash

(* A bound of 0 keeps a kind of request out. *)
LEMMA ResetFreeStep ==
  ASSUME MaxResets = 0, TypeOK, ResetFree, [Next]_vars
  PROVE  ResetFree'
<1>1. \A h \in Conns : ~AcceptReset(h)
  BY DEF AcceptReset, TypeOK, DataOK, Bounds
<1>2. SUFFICES ASSUME NEW h \in Conns, pc'[h] # pc[h] PROVE pc'[h] \notin {"reset_lock"} \cup ResetPC
  BY DEF ResetFree
<1>3. Next
  BY <1>2 DEF vars
<1>4. AcceptRecord(h) \/ AcceptImport(h) => pc'[h] \in {"load", "import_load"}
  BY ProcsDiffer DEF AcceptRecord, AcceptImport, Step, Goto, TypeOK, PlaceOK
<1> QED BY <1>1, <1>2, <1>3, <1>4, ConnMove DEF ResetFree, ResetPC, ImportPC, FlushPC

LEMMA ImportFreeStep ==
  ASSUME MaxImports = 0, TypeOK, ImportFree, [Next]_vars
  PROVE  ImportFree'
<1>1. \A h \in Conns : ~AcceptImport(h)
  BY DEF AcceptImport, TypeOK, DataOK, Bounds
<1>2. SUFFICES ASSUME NEW h \in Conns, pc'[h] # pc[h] PROVE pc'[h] \notin ImportPC
  BY DEF ImportFree
<1>3. Next
  BY <1>2 DEF vars
<1>4. AcceptRecord(h) \/ AcceptReset(h) => pc'[h] \in {"load", "reset_lock"}
  BY ProcsDiffer DEF AcceptRecord, AcceptReset, Step, Goto, TypeOK, PlaceOK
<1> QED BY <1>1, <1>2, <1>3, <1>4, ConnMove DEF ImportFree, ResetPC, ImportPC, FlushPC

-----------------------------------------------------------------------------
(* The predictor.  From the time start() has made it, it reads the graph, except
   inside a reset; and an import is about to put the graph there. *)
Serving == {"decay_lock", "listen", "up"} \cup DecayPC
ServedInv ==
  /\ pc[Boot] \in Serving /\ (\A h \in Conns : pc[h] # "reset_pred") => pred = g
  /\ \A h \in Conns : pc[h] = "import_pred" => hg[h] = g

LEMMA ServedMove ==
  ASSUME TypeOK, ServedInv, NEW p \in Procs, NEW l, Goto(p, l), UNCHANGED <<g, pred>>,
         \A h \in Conns : h # p => hg'[h] = hg[h],
         pc[p] # "reset_pred", l # "import_pred", p = Boot /\ l \in Serving => pc[Boot] \in Serving
  PROVE  ServedInv'
<1>1. \A q \in Procs : pc'[q] = IF q = p THEN l ELSE pc[q]
  BY DEF Goto, TypeOK, PlaceOK
<1>2. \A h \in Conns : pc[h] = "reset_pred" => pc'[h] = "reset_pred"
  BY <1>1, ProcsDiffer
<1>3. pc'[Boot] \in Serving => pc[Boot] \in Serving
  BY <1>1, ProcsDiffer
<1>4. \A h \in Conns : pc'[h] = "import_pred" => hg'[h] = g
  BY <1>1, ProcsDiffer DEF ServedInv
<1> QED BY <1>2, <1>3, <1>4 DEF ServedInv

LEMMA ServedHandler ==
  ASSUME TypeOK, MutexOK, ServedInv, ResetFree \/ ImportFree, NEW h \in Conns, Handler(h)
  PROVE  ServedInv'
<1> USE ProcsDiffer DEF Step, ptrs, conns
<1>0. hg \in [Conns -> Graphs \cup {Nil}] BY DEF TypeOK, LocalsOK
<1>1. CASE \/ AcceptRecord(h) \/ RecordLoad(h) \/ RecordObs(h) \/ RecordRaw(h)
           \/ RecordDirty(h) \/ RecordSignal(h)
  <2>1. PICK l \in {"load", "graph", "raws", "dirty", "signal", "idle"} : Goto(h, l) /\ pc[h] # "reset_pred"
    BY <1>1 DEF AcceptRecord, RecordLoad, RecordObs, RecordRaw, RecordDirty, RecordSignal, NextState
  <2>2. UNCHANGED <<g, pred>> /\ \A c \in Conns : c # h => hg'[c] = hg[c]
    BY <1>0, <1>1 DEF AcceptRecord, RecordLoad, RecordObs, RecordRaw, RecordDirty, RecordSignal, HandlerReturns
  <2> QED BY <2>1, <2>2, ServedMove
<1>2. CASE RecordRaws(h)
  BY <1>2 DEF RecordRaws, ServedInv
<1>3. CASE AcceptImport(h) \/ ImportLoad(h) \/ ImportMerge(h)
  <2>1. PICK l \in {"import_load", "import_merge", "flush_lock"} : Goto(h, l) /\ pc[h] # "reset_pred"
    BY <1>3 DEF AcceptImport, ImportLoad, ImportMerge
  <2>2. UNCHANGED <<g, pred>> /\ \A c \in Conns : c # h => hg'[c] = hg[c]
    BY <1>0, <1>3 DEF AcceptImport, ImportLoad, ImportMerge, HandlerReturns
  <2> QED BY <2>1, <2>2, ServedMove
<1>4. CASE ImportNewPredictor(h)
  <2>1. \A c \in Conns : pc'[c] = IF c = h THEN "import_pred" ELSE pc[c]
    BY <1>4 DEF ImportNewPredictor, Goto, TypeOK, PlaceOK
  <2>2. pc'[Boot] = pc[Boot] /\ UNCHANGED <<g, pred>> /\ hg' = [hg EXCEPT ![h] = g]
    BY <1>4 DEF ImportNewPredictor, Goto, TypeOK, PlaceOK
  <2>3. pc[h] = "import_new" BY <1>4 DEF ImportNewPredictor
  <2> QED BY <1>0, <2>1, <2>2, <2>3 DEF ServedInv
<1>5. CASE ImportStorePredictor(h)
  <2>1. \A c \in Conns : pc'[c] = IF c = h THEN "idle" ELSE pc[c]
    BY <1>5 DEF ImportStorePredictor, Goto, TypeOK, PlaceOK
  <2>2. pred' = g /\ g' = g
    BY <1>5 DEF ImportStorePredictor, ServedInv
  <2>3. \A c \in Conns : c # h => hg'[c] = hg[c]
    BY <1>0, <1>5 DEF ImportStorePredictor, HandlerReturns
  <2> QED BY <2>1, <2>2, <2>3 DEF ServedInv
<1>6. CASE ResetGraph(h)
  <2>1. pc'[h] = "reset_pred"
    BY <1>6 DEF ResetGraph, Goto, TypeOK, PlaceOK
  <2>2. \A c \in Conns : pc'[c] # "import_pred"
    BY <1>6 DEF ResetGraph, Goto, TypeOK, PlaceOK, ResetFree, ImportFree, ImportPC, ResetPC
  <2> QED BY <2>1, <2>2 DEF ServedInv
<1>7. CASE ResetPred(h)
  <2>1. pred' = g /\ g' = g /\ hg' = hg BY <1>7 DEF ResetPred
  <2>2. \A c \in Conns : pc'[c] = "import_pred" => pc[c] = "import_pred"
    BY <1>7 DEF ResetPred, Goto, TypeOK, PlaceOK
  <2> QED BY <2>1, <2>2 DEF ServedInv
<1>8. CASE \/ AcceptReset(h) \/ ResetLock(h) \/ ResetClear(h) \/ ResetClearRaws(h)
           \/ ResetRaws(h) \/ ResetDirty(h)
  <2>1. PICK l \in {"reset_lock", "reset_graph", "reset_clear_raws", "reset_raws", "reset_dirty", "idle"} :
          Goto(h, l) /\ pc[h] # "reset_pred"
    BY <1>8 DEF AcceptReset, ResetLock, ResetClear, ResetClearRaws, ResetRaws, ResetDirty
  <2>2. UNCHANGED <<g, pred, hg>>
    BY <1>8 DEF AcceptReset, ResetLock, ResetClear, ResetClearRaws, ResetRaws, ResetDirty
  <2> QED BY <2>1, <2>2, ServedMove
<1> QED BY <1>1, <1>2, <1>3, <1>4, <1>5, <1>6, <1>7, <1>8 DEF Handler

LEMMA ServedRest ==
  ASSUME TypeOK, ServedInv, Next, ~\E h \in Conns : Handler(h)
  PROVE  ServedInv'
<1> USE ProcsDiffer DEF Step, ptrs, conns
<1>1. ASSUME NEW p \in Procs, Flush(p) PROVE ServedInv'
  <2>1. PICK l \in FlushPC \cup {AfterFlush(p)} : Goto(p, l) /\ pc[p] \in {"flush_lock"} \cup FlushPC
    BY <1>1 DEF Flush, FlushLock, FlushAll, FlushSave, FlushSaveFails, FlushRaws, FlushSaveRaws,
      FlushSwap, FlushAgain, FlushPC
  <2>2. UNCHANGED <<g, pred, hg>>
    BY <1>1 DEF Flush, FlushLock, FlushAll, FlushSave, FlushSaveFails, FlushRaws, FlushSaveRaws,
      FlushSwap, FlushAgain
  <2>3. AfterFlush(p) # "import_pred" /\ (p = Boot => AfterFlush(p) = "pred")
    BY DEF AfterFlush
  <2> QED BY <2>1, <2>2, <2>3, ServedMove DEF Serving, FlushPC, DecayPC
<1>2. ASSUME NEW p \in Procs, Decay(p) PROVE ServedInv'
  <2>1. PICK l \in DecayPC \cup {AfterDecay(p)} : Goto(p, l) /\ pc[p] \in {"decay_lock"} \cup DecayPC
    BY <1>2 DEF Decay, DecayLock, DecayGraph, DecayRaws, DecayPrune, DecayPC
  <2>2. UNCHANGED <<g, pred, hg>>
    BY <1>2 DEF Decay, DecayLock, DecayGraph, DecayRaws, DecayPrune
  <2>3. AfterDecay(p) # "import_pred" BY DEF AfterDecay
  <2> QED BY <2>1, <2>2, <2>3, ServedMove DEF Serving, DecayPC
<1>3. CASE FlushLoop \/ DecayLoop \/ StopListener \/ StopCloseDb
  <2>1. PICK p \in {Loop, Sweep, Stop}, l \in {"done", "flush_lock", "decay_lock", "exit"} :
          Goto(p, l) /\ pc[p] \in {"idle", "close_db"}
    BY <1>3 DEF FlushLoop, LoopDone, LoopToken, LoopTick, DecayLoop, SweepDone, SweepTick,
      StopListener, StopCloseDb
  <2>2. UNCHANGED <<g, pred, hg>>
    BY <1>3 DEF FlushLoop, LoopDone, LoopToken, LoopTick, DecayLoop, SweepDone, SweepTick,
      StopListener, StopCloseDb
  <2> QED BY <2>1, <2>2, ServedMove
<1>4. CASE BootLoad \/ BootSeed \/ BootListen
  <2>1. PICK l \in {"pred", "seed", "flush_lock", "up"} :
          Goto(Boot, l) /\ pc[Boot] \in {"down", "seed", "listen"} /\ (l = "up" => pc[Boot] = "listen")
    BY <1>4 DEF BootLoad, BootSeed, BootListen
  <2>2. UNCHANGED <<g, pred, hg>>
    BY <1>4 DEF BootLoad, BootSeed, BootListen
  <2> QED BY <2>1, <2>2, ServedMove DEF Serving, DecayPC
<1>5. CASE BootPredictor
  <2>1. \A h \in Conns : pc'[h] = pc[h]
    BY <1>5 DEF BootPredictor, Goto, TypeOK, PlaceOK
  <2>2. pred' = g /\ g' = g /\ hg' = hg BY <1>5 DEF BootPredictor
  <2> QED BY <2>1, <2>2 DEF ServedInv
<1>6. CASE Age \/ Cancel
  BY <1>6 DEF Age, Cancel, ServedInv
<1>7. CASE Vanish
  BY <1>7 DEF Vanish, ServedInv, Serving, DecayPC
<1> QED BY <1>1, <1>2, <1>3, <1>4, <1>5, <1>6, <1>7 DEF Next, Start, Shutdown, Exit, Crash

(* Where resets and imports do not meet, predictions are made from the graph that
   records go to, however many requests and restarts there are. *)
THEOREM PredictorTheorem ==
  ASSUME MaxResets = 0 \/ MaxImports = 0 PROVE Spec => []PredictorServesGraph
<1> DEFINE Inv == IInv /\ ServedInv /\ (MaxResets = 0 => ResetFree) /\ (MaxImports = 0 => ImportFree)
<1>1. Init => Inv
  <2> SUFFICES ASSUME Init PROVE Inv
    OBVIOUS
  <2>1. \A h \in Conns : pc[h] = "idle" BY ProcsDiffer DEF Init
  <2>2. pc[Boot] = "down" BY ProcsDiffer DEF Init
  <2> QED BY <2>1, <2>2, InvInit DEF ServedInv, Serving, DecayPC, ResetFree, ImportFree, ResetPC, ImportPC, FlushPC
<1>2. Inv /\ [Next]_vars => Inv'
  <2> SUFFICES ASSUME Inv, [Next]_vars PROVE Inv'
    OBVIOUS
  <2>1. IInv' BY InvStep
  <2>2. (MaxResets = 0 => ResetFree') /\ (MaxImports = 0 => ImportFree')
    BY ResetFreeStep, ImportFreeStep DEF IInv
  <2>3. ServedInv'
    <3>1. CASE \E h \in Conns : Handler(h)
      BY <3>1, ServedHandler DEF IInv
    <3>2. CASE Next /\ ~\E h \in Conns : Handler(h)
      BY <3>2, ServedRest DEF IInv
    <3>3. CASE UNCHANGED vars
      BY <3>3 DEF vars, ptrs, conns, ServedInv
    <3> QED BY <3>1, <3>2, <3>3
  <2> QED BY <2>1, <2>2, <2>3
<1>3. Inv => PredictorServesGraph
  BY DEF ServedInv, Serving, PredictorServesGraph
<1> QED BY <1>1, <1>2, <1>3, PTL DEF Spec

-----------------------------------------------------------------------------
(* The bookkeeping of unsaved work.  UnsavedIsTracked is not inductive where a
   decay is about to delete, or has failed to delete, the row of a transition that
   has been learned again: the row is then taken for missing. *)
Pending(k) == (IF k \in Due \cup residue THEN 0 ELSE db[k]) < heap[g][k]
TrackedInv == pc[Stop] # "exit" => \A k \in Keys : Pending(k) => Tracked(k)

Reckons == {"graph", "raws", "dirty", "seed", "flush_lock", "flush_all", "flush_again", "flush_save"}

LEMMA CountsAreNat ==
  ASSUME TypeOK PROVE \A k \in Keys : heap[g][k] \in Nat /\ db[k] \in Nat /\ all[k] \in Nat
BY DEF TypeOK, DataOK, Count

(* One that says that everything is. *)
LEMMA TrackedAll ==
  ASSUME \/ dirty' > 0 \/ flushCh'
         \/ pc'[Boot] = "seed"
         \/ \E p \in Procs : pc'[p] \in {"flush_lock", "flush_all", "flush_again"}
  PROVE  TrackedInv'
BY DEF TrackedInv, Tracked

(* A goroutine that no unsaved entry relies on moves on, and data stay. *)
LEMMA TrackedMove ==
  ASSUME TypeOK, TrackedInv, NEW p \in Procs, NEW l, Goto(p, l),
         pc[p] \notin Reckons \cup DuePC \cup {"exit"}, l \notin DuePC,
         UNCHANGED <<heap, g, db, residue, pruned, dirty, flushCh>>,
         \A q \in Procs : pc[q] = "flush_save" => all' = all,
         \A h \in Conns : h # p => hg'[h] = hg[h]
  PROVE  TrackedInv'
<1>1. Due' = Due BY DueSame
<1>2. \A q \in Procs : pc'[q] = IF q = p THEN l ELSE pc[q]
  BY DEF Goto, TypeOK, PlaceOK
<1>3. SUFFICES ASSUME pc'[Stop] # "exit", NEW k \in Keys, Pending(k)' PROVE Tracked(k)'
  BY DEF TrackedInv
<1>4. pc[Stop] # "exit" BY <1>2, <1>3, ProcsDiffer
<1>5. Pending(k) BY <1>1, <1>3 DEF Pending
<1>6. Tracked(k) BY <1>4, <1>5 DEF TrackedInv
<1>7. CASE dirty > 0 \/ flushCh BY <1>7 DEF Tracked
<1>8. CASE \E h \in Conns : pc[h] \in {"graph", "raws", "dirty"} /\ hg[h] = g
  <2>1. PICK h \in Conns : pc[h] \in {"graph", "raws", "dirty"} /\ hg[h] = g BY <1>8
  <2>2. h # p BY <2>1 DEF Reckons
  <2> QED BY <1>2, <2>1, <2>2, ProcsDiffer DEF Tracked
<1>9. CASE \E q \in Procs : pc[q] = "flush_save" /\ all[k] = heap[g][k]
  BY <1>2, <1>9 DEF Tracked, Reckons
<1>10. CASE pc[Boot] = "seed" \/ \E q \in Procs : pc[q] \in {"flush_lock", "flush_all", "flush_again"}
  BY <1>2, <1>10, ProcsDiffer DEF Tracked, Reckons
<1> QED BY <1>6, <1>7, <1>8, <1>9, <1>10 DEF Tracked

LEMMA TrackedRecord ==
  ASSUME TypeOK, TrackedInv, NEW h \in Conns,
         \/ AcceptRecord(h) \/ RecordLoad(h) \/ RecordObs(h) \/ RecordRaw(h)
         \/ RecordDirty(h) \/ RecordSignal(h) \/ RecordRaws(h)
  PROVE  TrackedInv'
<1> USE ProcsDiffer DEF Step, memory, ptrs, sched, flushV, decayV, disk, conns
<1>0. /\ hg \in [Conns -> Graphs \cup {Nil}] /\ heap \in [Graphs -> Count] /\ g \in Graphs
      /\ dirty \in Nat
  BY DEF TypeOK, LocalsOK, DataOK
<1>1. CASE AcceptRecord(h) \/ RecordLoad(h)
  <2>1. PICK l \in {"load", "graph"} : Goto(h, l) /\ pc[h] \in {"idle", "load"}
    BY <1>1 DEF AcceptRecord, RecordLoad
  <2>2. /\ UNCHANGED <<heap, g, db, residue, pruned, dirty, flushCh, all>>
        /\ \A c \in Conns : c # h => hg'[c] = hg[c]
    BY <1>0, <1>1 DEF AcceptRecord, RecordLoad
  <2> QED BY <2>1, <2>2, TrackedMove DEF Reckons, DuePC
<1>2. CASE RecordObs(h) /\ hg[h] = g
  <2>1. hg'[h] = g' /\ pc'[h] \in {"graph", "raws"}
    BY <1>2 DEF RecordObs, NextState, Goto, TypeOK, PlaceOK
  <2> QED BY <2>1 DEF TrackedInv, Tracked
<1>3. CASE RecordObs(h) /\ hg[h] # g
  <2>1. PICK l \in {"graph", "raws"} : Goto(h, l) BY <1>3 DEF RecordObs, NextState
  <2>2. pc[h] = "graph" /\ UNCHANGED <<g, db, residue, pruned, dirty, flushCh, all, hg>>
    BY <1>3 DEF RecordObs
  <2>3. heap'[g] = heap[g] BY <1>0, <1>3 DEF RecordObs
  <2>4. Due' = Due BY <2>1, <2>2, DueSame DEF DuePC
  <2>5. \A q \in Procs : pc'[q] = IF q = h THEN l ELSE pc[q]
    BY <2>1 DEF Goto, TypeOK, PlaceOK
  <2>6. SUFFICES ASSUME pc'[Stop] # "exit", NEW k \in Keys, Pending(k)' PROVE Tracked(k)'
    BY DEF TrackedInv
  <2>7. Tracked(k)
    BY <2>2, <2>3, <2>4, <2>5, <2>6 DEF TrackedInv, Pending
  <2> QED BY <1>3, <2>1, <2>2, <2>3, <2>5, <2>7 DEF Tracked
<1>4. CASE RecordRaw(h)
  <2>1. PICK l \in {"raws", "dirty"} : Goto(h, l) BY <1>4 DEF RecordRaw, NextState
  <2>2. pc[h] = "raws" /\ UNCHANGED <<heap, g, db, residue, pruned, dirty, flushCh, all, hg>>
    BY <1>4 DEF RecordRaw
  <2>3. Due' = Due BY <2>1, <2>2, DueSame DEF DuePC
  <2>4. \A q \in Procs : pc'[q] = IF q = h THEN l ELSE pc[q]
    BY <2>1 DEF Goto, TypeOK, PlaceOK
  <2>5. SUFFICES ASSUME pc'[Stop] # "exit", NEW k \in Keys, Pending(k)' PROVE Tracked(k)'
    BY DEF TrackedInv
  <2>6. Tracked(k)
    BY <2>2, <2>3, <2>4, <2>5 DEF TrackedInv, Pending
  <2> QED BY <2>1, <2>2, <2>4, <2>6 DEF Tracked
<1>5. CASE RecordDirty(h)
  <2>1. dirty' > 0 BY <1>0, <1>5 DEF RecordDirty
  <2> QED BY <2>1, TrackedAll
<1>6. CASE RecordSignal(h)
  BY <1>6, TrackedAll DEF RecordSignal
<1>7. CASE RecordRaws(h)
  BY <1>7 DEF RecordRaws, TrackedInv, Pending, Due, Tracked
<1> QED BY <1>1, <1>2, <1>3, <1>4, <1>5, <1>6, <1>7

LEMMA TrackedImport ==
  ASSUME TypeOK, TrackedInv, NEW h \in Conns,
         \/ AcceptImport(h) \/ ImportLoad(h) \/ ImportMerge(h)
         \/ ImportNewPredictor(h) \/ ImportStorePredictor(h)
  PROVE  TrackedInv'
<1> USE ProcsDiffer DEF Step, memory, ptrs, sched, flushV, decayV, disk, conns
<1>1. CASE ImportMerge(h)
  <2>1. pc'[h] = "flush_lock" BY <1>1 DEF ImportMerge, Goto, TypeOK, PlaceOK
  <2> QED BY <2>1, TrackedAll
<1>2. CASE AcceptImport(h) \/ ImportLoad(h) \/ ImportNewPredictor(h) \/ ImportStorePredictor(h)
  <2>1. PICK l \in {"import_load", "import_merge", "import_pred", "idle"} :
          Goto(h, l) /\ pc[h] \in {"idle", "import_load", "import_new", "import_pred"}
    BY <1>2 DEF AcceptImport, ImportLoad, ImportNewPredictor, ImportStorePredictor
  <2>2. /\ UNCHANGED <<heap, g, db, residue, pruned, dirty, flushCh, all>>
        /\ \A c \in Conns : c # h => hg'[c] = hg[c]
    BY <1>2 DEF AcceptImport, ImportLoad, ImportNewPredictor, ImportStorePredictor, HandlerReturns,
      TypeOK, LocalsOK
  <2> QED BY <2>1, <2>2, TrackedMove DEF Reckons, DuePC
<1> QED BY <1>1, <1>2

(* A save: what it wrote is saved, what it did not has been learned since. *)
LEMMA TrackedSave ==
  ASSUME TypeOK, MutexOK, SnapshotOK, TrackedInv, NEW p \in Procs, FlushSave(p)
  PROVE  TrackedInv'
<1> USE ProcsDiffer DEF Step
<1>1. /\ pc[p] = "flush_save" /\ Goto(p, "flush_raws")
      /\ db' = [k \in Keys |-> IF all[k] > 0 THEN all[k] ELSE db[k]]
      /\ residue' = residue \ Known(all)
      /\ UNCHANGED <<heap, g, pruned, dirty, flushCh, all, hg>>
  BY DEF FlushSave, memory, ptrs, sched, conns, flushV, decayV
<1>2. \A q \in Procs : pc'[q] = IF q = p THEN "flush_raws" ELSE pc[q]
  BY <1>1 DEF Goto, TypeOK, PlaceOK
<1>3. Due = {} /\ Due' = {}
  BY <1>1, DueEmptyHeld, DueAfter DEF Critical, FlushPC, DuePC
<1>4. SUFFICES ASSUME pc'[Stop] # "exit", NEW k \in Keys, Pending(k)' PROVE Tracked(k)'
  BY DEF TrackedInv
<1>5. pc[Stop] # "exit" BY <1>1, <1>2, <1>4
<1>6. heap[g][k] \in Nat /\ db[k] \in Nat /\ all[k] \in Nat
  BY CountsAreNat
<1>7. db'[k] = IF all[k] > 0 THEN all[k] ELSE db[k]
  BY <1>1
<1>8. Pending(k) /\ all[k] # heap[g][k]
  <2>1. (k \in residue' <=> k \in residue /\ ~(all[k] > 0))
    BY <1>1 DEF Known
  <2>2. k \notin residue => db[k] <= all[k]
    BY <1>1 DEF SnapshotOK
  <2>3. (IF k \in residue' THEN 0 ELSE db'[k]) < heap[g][k]
    BY <1>1, <1>3, <1>4 DEF Pending
  <2>4. (IF k \in residue THEN 0 ELSE db[k]) < heap[g][k] /\ all[k] # heap[g][k]
    BY <1>6, <1>7, <2>1, <2>2, <2>3
  <2> QED BY <1>3, <2>4 DEF Pending
<1>9. Tracked(k) BY <1>5, <1>8 DEF TrackedInv
<1> QED BY <1>1, <1>2, <1>8, <1>9 DEF Tracked

LEMMA TrackedFlush ==
  ASSUME TypeOK, MutexOK, SnapshotOK, TrackedInv, "save" \notin Faults, NEW p \in Procs, Flush(p)
  PROVE  TrackedInv'
<1> USE ProcsDiffer DEF Step, memory, ptrs, sched, flushV, decayV, disk, conns
<1>1. CASE FlushLock(p)
  <2>1. pc'[p] = "flush_all" BY <1>1 DEF FlushLock, Goto, TypeOK, PlaceOK
  <2> QED BY <2>1, TrackedAll
<1>2. CASE FlushAll(p)
  <2>1. pc'[p] = "flush_save" /\ all' = heap'[g']
    BY <1>2 DEF FlushAll, Goto, TypeOK, PlaceOK
  <2> QED BY <2>1 DEF TrackedInv, Tracked
<1>3. CASE FlushSave(p) BY <1>3, TrackedSave
<1>4. CASE FlushSaveFails(p)
  <2>1. pc[Stop] = "exit" /\ pc[p] = "flush_save" /\ Goto(p, AfterFlush(p))
    BY <1>4 DEF FlushSaveFails, MayFail
  <2>2. pc'[Stop] = "exit" BY <2>1 DEF Goto, TypeOK, PlaceOK
  <2> QED BY <2>2 DEF TrackedInv
<1>5. CASE FlushRaws(p) \/ FlushSaveRaws(p)
  <2>1. PICK l \in {"flush_save_raws", "flush_swap"} : Goto(p, l) /\ pc[p] \in {"flush_raws", "flush_save_raws"}
    BY <1>5 DEF FlushRaws, FlushSaveRaws
  <2>2. UNCHANGED <<heap, g, db, residue, pruned, dirty, flushCh, all, hg>>
    BY <1>5 DEF FlushRaws, FlushSaveRaws
  <2> QED BY <2>1, <2>2, TrackedMove DEF Reckons, DuePC
<1>6. CASE FlushSwap(p) /\ dirty > 0
  <2>1. pc'[p] = "flush_again" BY <1>6 DEF FlushSwap, Goto, TypeOK, PlaceOK
  <2> QED BY <2>1, TrackedAll
<1>7. CASE FlushSwap(p) /\ ~(dirty > 0)
  <2>1. pc[p] = "flush_swap" /\ Goto(p, AfterFlush(p)) /\ dirty' = 0 /\ dirty = 0
    BY <1>7 DEF FlushSwap, TypeOK, DataOK
  <2>2. UNCHANGED <<heap, g, db, residue, pruned, flushCh, hg>>
    BY <1>7 DEF FlushSwap
  <2>3. \A q \in Procs : pc[q] # "flush_save"
    BY <2>1, OneHolder DEF Critical, FlushPC
  <2>4. AfterFlush(p) \notin DuePC BY DEF AfterFlush, DuePC
  <2> QED BY <2>1, <2>2, <2>3, <2>4, TrackedMove DEF Reckons, DuePC
<1>8. CASE FlushAgain(p) BY <1>8, TrackedAll DEF FlushAgain
<1> QED BY <1>1, <1>2, <1>3, <1>4, <1>5, <1>6, <1>7, <1>8 DEF Flush

(* A decay: what it removes from the graph is not missed in the database, and what
   is learned again before the rows go is. *)
LEMMA TrackedDecay ==
  ASSUME TypeOK, MutexOK, TrackedInv, NEW p \in Procs, Decay(p)
  PROVE  TrackedInv'
<1> USE ProcsDiffer DEF Step, memory, ptrs, sched, flushV, decayV, disk, conns
<1>1. CASE DecayLock(p)
  <2>1. Goto(p, "decay_graph") /\ pc[p] = "decay_lock"
    BY <1>1 DEF DecayLock
  <2>2. UNCHANGED <<heap, g, db, residue, pruned, dirty, flushCh, all, hg>>
    BY <1>1 DEF DecayLock
  <2> QED BY <2>1, <2>2, TrackedMove DEF Reckons, DuePC
<1>2. CASE DecayGraph(p) \/ DecayRaws(p) \/ DecayPrune(p)
  <2>0. p \in {Boot, Sweep}
    BY <1>2 DEF DecayGraph, DecayRaws, DecayPrune, TypeOK, PlaceOK, ConnPC, StopPC, LoopPC,
      FlushPC, ResetPC, Procs
  <2>1. PICK l \in {"decay_raws", "decay_prune", AfterDecay(p)} :
          Goto(p, l) /\ pc[p] \in DecayPC
    BY <1>2 DEF DecayGraph, DecayRaws, DecayPrune, DecayPC
  <2>2. UNCHANGED <<g, dirty, flushCh, all, hg>>
    BY <1>2 DEF DecayGraph, DecayRaws, DecayPrune
  <2>3. \A q \in Procs : pc'[q] = IF q = p THEN l ELSE pc[q]
    BY <2>1 DEF Goto, TypeOK, PlaceOK
  <2>4. \A q \in Procs : pc[q] # "flush_save"
    BY <2>1, OneHolder DEF Critical, FlushPC, DecayPC
  <2>5. SUFFICES ASSUME pc'[Stop] # "exit", NEW k \in Keys, Pending(k)' PROVE Tracked(k)'
    BY DEF TrackedInv
  <2>6. AfterDecay(p) \notin DuePC \cup {"exit"} BY DEF AfterDecay, DuePC
  <2>7. pc[Stop] # "exit" BY <2>1, <2>3, <2>5 DEF DecayPC
  <2>8. heap[g][k] \in Nat /\ db[k] \in Nat /\ heap \in [Graphs -> Count] /\ g \in Graphs
    BY CountsAreNat DEF TypeOK, DataOK
  <2>9. pc'[p] \in {"decay_raws", "decay_prune"} => Due' = pruned'
    <3>1. \A h \in Conns : pc'[h] \notin {"reset_pred", "reset_clear"}
      BY <2>0, <2>1, <2>3, OneHolder DEF Critical, ResetPC, DecayPC
    <3> QED BY <2>0, <3>1 DEF Due
  <2>10. Pending(k)
    <3>1. CASE DecayGraph(p)
      <4>1. Due = {} BY <3>1, DueEmptyHeld DEF DecayGraph, Critical, DecayPC, DuePC
      <4>2. heap'[g'] = Without(heap[g], old) /\ db' = db /\ residue' = residue
        BY <2>8, <3>1 DEF DecayGraph
      <4>3. CASE old = {}
        <5>1. Due' = {}
          BY <2>6, <3>1, <4>3, DueAfter DEF DecayGraph, Critical, DecayPC
        <5> QED BY <2>5, <2>8, <4>1, <4>2, <4>3, <5>1 DEF Pending, Without
      <4>4. CASE old # {}
        <5>1. pc'[p] = "decay_raws" /\ pruned' = old
          BY <2>3, <3>1, <4>4 DEF DecayGraph, Goto, TypeOK, PlaceOK
        <5>2. Due' = old BY <2>9, <5>1
        <5> QED BY <2>5, <2>8, <4>1, <4>2, <5>2 DEF Pending, Without
      <4> QED BY <4>3, <4>4
    <3>2. CASE DecayRaws(p)
      <4>1. pc'[p] = "decay_prune" /\ pc[p] = "decay_raws" /\ UNCHANGED <<heap, g, db, residue, pruned>>
        BY <3>2 DEF DecayRaws, Goto, TypeOK, PlaceOK
      <4>2. Due' = pruned' /\ Due = pruned BY <2>0, <2>9, <4>1, DueDecay
      <4> QED BY <2>5, <4>1, <4>2 DEF Pending
    <3>3. CASE DecayPrune(p)
      <4>1. Due = pruned BY <2>0, <3>3, DueDecay DEF DecayPrune
      <4>2. Due' = {}
        BY <2>6, <3>3, DueAfter DEF DecayPrune, Critical, DecayPC
      <4>3. heap' = heap /\ g' = g BY <3>3 DEF DecayPrune
      <4>4. \/ db' = Without(db, pruned) /\ residue' = residue \ pruned
            \/ db' = db /\ residue' = residue \cup pruned
        BY <3>3 DEF DecayPrune
      <4> QED BY <2>5, <2>8, <4>1, <4>2, <4>3, <4>4 DEF Pending, Without
    <3> QED BY <1>2, <3>1, <3>2, <3>3
  <2>11. Tracked(k) BY <2>7, <2>10 DEF TrackedInv
  <2> QED BY <2>1, <2>2, <2>3, <2>4, <2>11 DEF Tracked, DecayPC
<1> QED BY <1>1, <1>2 DEF Decay

LEMMA TrackedRest ==
  ASSUME TypeOK, DownOK, TrackedInv,
         FlushLoop \/ DecayLoop \/ Start \/ StopListener \/ StopCloseDb \/ Age \/ Cancel \/ Vanish
  PROVE  TrackedInv'
<1> USE ProcsDiffer DEF Step, memory, ptrs, sched, flushV, decayV, disk, conns
<1>1. CASE LoopToken \/ LoopTick \/ BootSeed \/ StopListener
  <2>1. PICK p \in {Loop, Boot, Stop} : pc'[p] = "flush_lock"
    BY <1>1 DEF LoopToken, LoopTick, BootSeed, StopListener, Goto, TypeOK, PlaceOK
  <2> QED BY <2>1, TrackedAll
<1>2. CASE LoopDone \/ DecayLoop \/ BootPredictor \/ BootListen \/ StopCloseDb
  <2>1. PICK p \in {Loop, Sweep, Boot, Stop}, l \in {"done", "decay_lock", "up", "exit"} :
          Goto(p, l) /\ pc[p] \in {"idle", "pred", "listen", "close_db"}
    BY <1>2 DEF LoopDone, DecayLoop, SweepDone, SweepTick, BootPredictor, BootListen, StopCloseDb
  <2>2. UNCHANGED <<heap, g, db, residue, pruned, dirty, flushCh, all, hg>>
    BY <1>2 DEF LoopDone, DecayLoop, SweepDone, SweepTick, BootPredictor, BootListen, StopCloseDb
  <2> QED BY <2>1, <2>2, TrackedMove DEF Reckons, DuePC
<1>3. CASE BootLoad
  <2>1. residue = {} /\ \A p \in Procs \ {Boot} : pc[p] = "idle"
    BY <1>3 DEF BootLoad, DownOK
  <2>2. PICK l \in {"pred", "seed"} : Goto(Boot, l) BY <1>3 DEF BootLoad
  <2>3. \A q \in Procs : pc'[q] \notin DuePC
    BY <2>1, <2>2 DEF Goto, TypeOK, PlaceOK, DuePC
  <2>4. Due' = {} BY <2>3 DEF Due, DuePC
  <2>5. heap'[g'] = db' /\ residue' = {}
    BY <1>3, <2>1 DEF BootLoad, TypeOK, DataOK
  <2>6. \A k \in Keys : db'[k] \in Nat BY <1>3, CountsAreNat DEF BootLoad
  <2> QED BY <2>4, <2>5, <2>6 DEF TrackedInv, Pending
<1>4. CASE Age \/ Cancel
  BY <1>4 DEF Age, Cancel, TrackedInv, Pending, Due, Tracked
<1>5. CASE Vanish
  <2>1. \A k \in Keys : heap'[g'][k] = 0 /\ db'[k] \in Nat
    BY <1>5, CountsAreNat DEF Vanish, TypeOK, DataOK, Empty
  <2> QED BY <2>1 DEF TrackedInv, Pending
<1> QED BY <1>1, <1>2, <1>3, <1>4, <1>5 DEF FlushLoop, Start

LEMMA TrackedStep ==
  ASSUME IInv, TrackedInv, ResetFree, "save" \notin Faults, [Next]_vars
  PROVE  TrackedInv'
<1>1. CASE \E h \in Conns : Handler(h)
  <2>1. PICK h \in Conns : Handler(h) BY <1>1
  <2>2. CASE AcceptReset(h)
    <3>1. Goto(h, "reset_lock") /\ pc[h] = "idle" BY <2>2 DEF AcceptReset, Step
    <3>2. UNCHANGED <<heap, g, db, residue, pruned, dirty, flushCh, all, hg>>
      BY <2>2 DEF AcceptReset, memory, ptrs, sched, flushV, decayV, disk, conns
    <3> QED BY <3>1, <3>2, TrackedMove, ProcsDiffer DEF IInv, Reckons, DuePC
  <2>3. ~(\/ ResetLock(h) \/ ResetGraph(h) \/ ResetPred(h) \/ ResetClear(h) \/ ResetClearRaws(h)
          \/ ResetRaws(h) \/ ResetDirty(h))
    BY DEF ResetFree, ResetLock, ResetGraph, ResetPred, ResetClear, ResetClearRaws, ResetRaws,
      ResetDirty, Step, ResetPC
  <2> QED BY <2>1, <2>2, <2>3, TrackedRecord, TrackedImport DEF IInv, Handler
<1>2. CASE \E p \in Procs : Flush(p) \/ Decay(p)
  BY <1>2, InvStep, TrackedFlush, TrackedDecay DEF IInv
<1>3. CASE FlushLoop \/ DecayLoop \/ Start \/ Shutdown \/ Age \/ Cancel \/ Crash
  BY <1>3, TrackedRest DEF IInv, Shutdown, Exit, Crash
<1>4. CASE UNCHANGED vars
  BY <1>4 DEF vars, memory, ptrs, sched, flushV, decayV, disk, conns, TrackedInv, Pending, Due, Tracked
<1> QED BY <1>1, <1>2, <1>3, <1>4 DEF Next

(* As long as nothing is reset and saves succeed, whatever is in the graph and not in
   the database is on its way there: through any number of records, imports,
   decays, crashes and stops, until the database is closed. *)
THEOREM TrackingTheorem ==
  ASSUME MaxResets = 0, "save" \notin Faults PROVE Spec => []UnsavedIsTracked
<1> DEFINE Inv == IInv /\ TrackedInv /\ ResetFree
<1>1. Init => Inv
  <2> SUFFICES ASSUME Init PROVE Inv
    OBVIOUS
  <2>1. \A h \in Conns : pc[h] = "idle" BY ProcsDiffer DEF Init
  <2>2. ResetFree BY <2>1 DEF ResetFree, ResetPC
  <2>3. IInv BY InvInit
  <2>4. \A k \in Keys : heap[g][k] = 0 /\ db[k] \in Nat
    BY <2>3, CountsAreNat DEF Init, IInv, TypeOK, DataOK, Empty
  <2>5. TrackedInv BY <2>4 DEF TrackedInv, Pending
  <2> QED BY <2>2, <2>3, <2>5
<1>2. Inv /\ [Next]_vars => Inv'
  BY InvStep, ResetFreeStep, TrackedStep DEF IInv
<1>3. Inv => UnsavedIsTracked
  <2> SUFFICES ASSUME Inv, pc[Stop] # "exit", NEW k \in Unsaved PROVE Tracked(k)
    BY DEF UnsavedIsTracked
  <2>1. k \in Keys /\ db[k] < heap[g][k] /\ db[k] \in Nat /\ heap[g][k] \in Nat
    BY CountsAreNat DEF Unsaved, IInv
  <2>2. Pending(k) BY <2>1 DEF Pending
  <2> QED BY <2>1, <2>2 DEF TrackedInv
<1> QED BY <1>1, <1>2, <1>3, PTL DEF Spec

-----------------------------------------------------------------------------
(* After the listener is closed: no handler steps, and flushes and decays are those of
   the three goroutines that are left. *)
Ended == {"close_db", "exit"}
Saved == {"flush_raws", "flush_save_raws", "flush_swap", "flush_again", "close_db", "exit"}
FinalPC == {"flush_lock", "flush_all", "flush_save"} \cup Saved

LEMMA FinalPlaces ==
  ASSUME TypeOK, pc[Stop] # "idle", FinalInv
  PROVE  /\ pc[Stop] \in FinalPC
         /\ \A h \in Conns : ~Handler(h)
         /\ \A p \in Procs : Flush(p) => p \in {Stop, Loop}
         /\ \A p \in Procs : Decay(p) => p = Sweep
<1>1. pc[Stop] \in FinalPC
  BY DEF TypeOK, PlaceOK, StopPC, FlushPC, FinalPC, Saved
<1>2. \A h \in Conns : ~Handler(h)
  <2> SUFFICES ASSUME NEW h \in Conns, Handler(h) PROVE FALSE OBVIOUS
  <2>1. pc[h] = "idle" /\ ~Listening BY DEF FinalInv, Listening
  <2> QED
    BY <2>1 DEF Handler, Step, AcceptRecord, RecordLoad, RecordObs, RecordRaw, RecordDirty, RecordSignal,
       RecordRaws, AcceptImport, ImportLoad, ImportMerge, ImportNewPredictor, ImportStorePredictor,
       AcceptReset, ResetLock, ResetGraph, ResetPred, ResetClear, ResetClearRaws, ResetRaws, ResetDirty
<1>3. ASSUME NEW p \in Procs, Flush(p) PROVE p \in {Stop, Loop}
  <2>1. pc[p] \in FlushPC \cup {"flush_lock"}
    BY <1>3 DEF Flush, Step, FlushPC, FlushLock, FlushAll, FlushSave, FlushSaveFails, FlushRaws, FlushSaveRaws,
       FlushSwap, FlushAgain
  <2>2. pc[p] # "idle" /\ pc[p] # "up" BY <2>1 DEF FlushPC
  <2>3. p # Sweep BY <2>1 DEF TypeOK, PlaceOK, SweepPC, DecayPC, FlushPC
  <2> QED BY <2>2, <2>3 DEF FinalInv, Procs
<1>4. ASSUME NEW p \in Procs, Decay(p) PROVE p = Sweep
  <2>1. pc[p] \in DecayPC \cup {"decay_lock"}
    BY <1>4 DEF Decay, Step, DecayPC, DecayLock, DecayGraph, DecayRaws, DecayPrune
  <2>2. pc[p] # "idle" /\ pc[p] # "up" BY <2>1 DEF DecayPC
  <2>3. p # Stop /\ p # Loop BY <2>1 DEF TypeOK, PlaceOK, StopPC, LoopPC, FlushPC, DecayPC
  <2> QED BY <2>2, <2>3 DEF FinalInv, Procs
<1> QED BY <1>1, <1>2, <1>3, <1>4

(* A step that changes nothing a flush saves, and takes nobody into a flush or decay. *)
LEMMA FinalMove ==
  ASSUME TypeOK, pc[Stop] # "idle", FinalInv, NEW p \in {Loop, Sweep}, NEW l,
         l \notin {"flush_save", "decay_raws", "decay_prune"}, Goto(p, l),
         UNCHANGED <<heap, g, raws, db, dbRaws, all, rawAll, pruned, orphaned>>
  PROVE  FinalInv'
<1>1. /\ pc'[Stop] = pc[Stop] /\ pc'[Boot] = pc[Boot] /\ \A h \in Conns : pc'[h] = pc[h]
      /\ pc'[Loop] = "flush_save" => pc[Loop] = "flush_save"
      /\ \A m \in {"decay_raws", "decay_prune"} : pc'[Sweep] = m => pc[Sweep] = m
  BY ProcsDiffer DEF TypeOK, PlaceOK, Goto
<1> QED BY <1>1 DEF FinalInv

LEMMA FinalStopFlush ==
  ASSUME IInv, pc[Stop] # "idle", FinalInv, Flush(Stop), OrderlyStop
  PROVE  FinalInv'
<1> USE DEF Step, memory, ptrs, disk, decayV, flushV
<1>0. TypeOK /\ MutexOK BY DEF IInv
<1>1. ASSUME NEW l, Goto(Stop, l)
      PROVE  /\ pc'[Stop] = l
             /\ pc'[Boot] = pc[Boot] /\ pc'[Loop] = pc[Loop] /\ pc'[Sweep] = pc[Sweep]
             /\ \A h \in Conns : pc'[h] = pc[h]
  BY <1>0, <1>1, ProcsDiffer DEF TypeOK, PlaceOK, Goto
<1>2. pc[Stop] \in Critical => pc[Loop] # "flush_save" /\ pc[Sweep] \notin {"decay_raws", "decay_prune"}
  BY <1>0, OneHolder, ProcsDiffer DEF Critical, FlushPC, DecayPC
<1>3. AfterFlush(Stop) = "close_db" BY ProcsDiffer DEF AfterFlush
<1>4. CASE FlushLock(Stop) BY <1>1, <1>4 DEF FlushLock, FinalInv
<1>5. CASE FlushAll(Stop)
  <2>1. pc'[Stop] = "flush_save" /\ all' = heap[g] /\ heap' = heap /\ g' = g BY <1>1, <1>5 DEF FlushAll
  <2> QED BY <1>1, <1>5, <2>1 DEF FlushAll, FinalInv
<1>6. CASE FlushSave(Stop)
  <2>1. /\ pc[Stop] = "flush_save" /\ pc'[Stop] = "flush_raws"
        /\ db' = [k \in Keys |-> IF all[k] > 0 THEN all[k] ELSE db[k]] /\ heap' = heap /\ g' = g
    BY <1>1, <1>6 DEF FlushSave
  <2>2. all = heap[g] BY <2>1 DEF FinalInv
  <2>3. \A k \in Keys : heap[g][k] <= db'[k]
    <3>1. \A k \in Keys : heap[g][k] \in Nat /\ db[k] \in Nat BY <1>0, CountsAreNat
    <3> QED BY <2>1, <2>2, <3>1
  <2> QED BY <1>1, <1>6, <2>1, <2>3 DEF FlushSave, FinalInv
<1>7. CASE FlushSaveFails(Stop) BY <1>7 DEF OrderlyStop
<1>8. CASE FlushRaws(Stop)
  <2>1. pc[Stop] = "flush_raws" /\ pc'[Stop] = "flush_save_raws" /\ rawAll' = raws /\ raws' = raws
    BY <1>1, <1>8 DEF FlushRaws
  <2> QED BY <1>1, <1>8, <2>1 DEF FlushRaws, FinalInv
<1>9. CASE FlushSaveRaws(Stop)
  <2>1. /\ pc[Stop] = "flush_save_raws" /\ pc'[Stop] = "flush_swap"
        /\ dbRaws' = dbRaws \cup rawAll /\ raws' = raws
    BY <1>1, <1>9 DEF FlushSaveRaws, OrderlyStop
  <2> QED BY <1>1, <1>9, <2>1 DEF FlushSaveRaws, FinalInv
<1>10. CASE FlushSwap(Stop)
  <2>1. /\ pc[Stop] = "flush_swap" /\ pc[Stop] \in Critical
        /\ UNCHANGED <<heap, g, raws, db, dbRaws, pruned, orphaned>>
        /\ \E l \in {"flush_again", "close_db"} : Goto(Stop, l)
    BY <1>3, <1>10 DEF FlushSwap, Critical, FlushPC
  <2>2. pc'[Stop] \in {"flush_again", "close_db"} BY <1>1, <2>1
  <2> QED BY <1>1, <1>2, <2>1, <2>2 DEF FinalInv
<1>11. CASE FlushAgain(Stop)
  <2>1. /\ pc[Stop] = "flush_again" /\ pc[Stop] \in Critical /\ pc'[Stop] = "close_db"
        /\ UNCHANGED <<heap, g, raws, db, dbRaws, pruned, orphaned>>
    BY <1>1, <1>3, <1>11 DEF FlushAgain, Critical, FlushPC
  <2> QED BY <1>1, <1>2, <1>11, <2>1 DEF FlushAgain, FinalInv
<1> QED BY <1>4, <1>5, <1>6, <1>7, <1>8, <1>9, <1>10, <1>11 DEF Flush

(* The loop's flush: only one that follows the final flush can have a snapshot. *)
LEMMA FinalLoopFlush ==
  ASSUME IInv, pc[Stop] # "idle", FinalInv, Flush(Loop)
  PROVE  FinalInv'
<1> USE DEF Step, memory, ptrs, disk, decayV, flushV
<1>0. TypeOK /\ MutexOK BY DEF IInv
<1>1. pc[Loop] \in Critical => pc[Stop] \in {"flush_lock", "close_db", "exit"}
  BY <1>0, OneHolder, ProcsDiffer, FinalPlaces DEF Critical, FlushPC, FinalPC, Saved
<1>2. AfterFlush(Loop) = "idle" BY ProcsDiffer DEF AfterFlush
<1>3. CASE FlushLock(Loop) BY <1>0, <1>3, FinalMove DEF FlushLock
<1>a. ASSUME pc[Loop] \in Critical, NEW l, Goto(Loop, l), l = "flush_save" => all' = heap'[g'],
             UNCHANGED <<heap, g, raws, pruned, orphaned>>,
             \A k \in Keys : heap[g][k] <= db[k] => heap[g][k] <= db'[k], dbRaws \subseteq dbRaws',
             pc[Loop] = "flush_save" => l # "flush_save"
      PROVE  FinalInv'
  <2>1. /\ pc'[Stop] = pc[Stop] /\ pc'[Boot] = pc[Boot] /\ pc'[Sweep] = pc[Sweep] /\ pc'[Loop] = l
        /\ \A h \in Conns : pc'[h] = pc[h]
    BY <1>0, <1>a, ProcsDiffer DEF TypeOK, PlaceOK, Goto
  <2> QED BY <1>1, <1>a, <2>1 DEF FinalInv
<1>4. CASE FlushAll(Loop) BY <1>4, <1>a DEF FlushAll, Critical, FlushPC
<1>5. CASE FlushSave(Loop)
  <2>1. /\ pc[Loop] = "flush_save" /\ pc[Loop] \in Critical /\ Goto(Loop, "flush_raws")
        /\ db' = [k \in Keys |-> IF all[k] > 0 THEN all[k] ELSE db[k]]
        /\ UNCHANGED <<heap, g, raws, pruned, orphaned, dbRaws>>
    BY <1>5 DEF FlushSave, Critical, FlushPC
  <2>2. CASE pc[Stop] = "flush_lock"
    <3>1. /\ pc'[Stop] = pc[Stop] /\ pc'[Boot] = pc[Boot] /\ \A h \in Conns : pc'[h] = pc[h]
      BY <1>0, <2>1, ProcsDiffer DEF TypeOK, PlaceOK, Goto
    <3> QED BY <2>2, <3>1 DEF FinalInv
  <2>3. CASE pc[Stop] \in Ended
    <3>1. all = heap[g] BY <2>1, <2>3 DEF FinalInv, Ended
    <3>2. \A k \in Keys : heap[g][k] \in Nat /\ db[k] \in Nat BY <1>0, CountsAreNat
    <3>3. \A k \in Keys : heap[g][k] <= db[k] => heap[g][k] <= db'[k] BY <2>1, <3>1, <3>2
    <3> QED BY <1>a, <2>1, <3>3
  <2> QED BY <1>1, <2>1, <2>2, <2>3 DEF Ended
<1>6. CASE FlushSaveFails(Loop) BY <1>2, <1>6, <1>a DEF FlushSaveFails, Critical, FlushPC
<1>7. CASE FlushRaws(Loop) BY <1>7, <1>a DEF FlushRaws, Critical, FlushPC
<1>8. CASE FlushSaveRaws(Loop) BY <1>8, <1>a DEF FlushSaveRaws, Critical, FlushPC
<1>9. CASE FlushSwap(Loop) BY <1>2, <1>9, <1>a DEF FlushSwap, Critical, FlushPC
<1>10. CASE FlushAgain(Loop) BY <1>2, <1>10, <1>a DEF FlushAgain, Critical, FlushPC
<1> QED BY <1>3, <1>4, <1>5, <1>6, <1>7, <1>8, <1>9, <1>10 DEF Flush

(* The daily decay: what it takes from the graph it has taken before it takes it from
   the database, and nothing can bring it back in between. *)
LEMMA FinalDecay ==
  ASSUME IInv, pc[Stop] # "idle", FinalInv, Decay(Sweep)
  PROVE  FinalInv'
<1> USE DEF Step, memory, ptrs, disk, decayV, flushV
<1>0. TypeOK /\ MutexOK BY DEF IInv
<1>1. pc[Sweep] \in Critical => pc[Stop] \in {"flush_lock", "close_db", "exit"} /\ pc[Loop] # "flush_save"
  BY <1>0, OneHolder, ProcsDiffer, FinalPlaces DEF Critical, FlushPC, DecayPC, FinalPC, Saved
<1>2. AfterDecay(Sweep) = "idle" BY ProcsDiffer DEF AfterDecay
<1>3. ASSUME NEW l, Goto(Sweep, l)
      PROVE  /\ pc'[Stop] = pc[Stop] /\ pc'[Boot] = pc[Boot] /\ pc'[Loop] = pc[Loop] /\ pc'[Sweep] = l
             /\ \A h \in Conns : pc'[h] = pc[h]
  BY <1>0, <1>3, ProcsDiffer DEF TypeOK, PlaceOK, Goto
<1>4. CASE DecayLock(Sweep) BY <1>0, <1>4, FinalMove DEF DecayLock
<1>5. CASE DecayGraph(Sweep)
  <2>1. /\ pc[Sweep] \in Critical /\ pruned' = old /\ heap' = [heap EXCEPT ![g] = Without(heap[g], old)]
        /\ UNCHANGED <<g, raws, db, dbRaws>>
        /\ \E l \in {"idle", "decay_raws"} : Goto(Sweep, l)
    BY <1>2, <1>5 DEF DecayGraph, Critical, DecayPC
  <2>2. heap'[g'] = Without(heap[g], old) BY <1>0, <2>1 DEF TypeOK, DataOK
  <2>3. \A k \in Keys : heap[g][k] \in Nat /\ db[k] \in Nat BY <1>0, CountsAreNat
  <2>4. /\ \A k \in Keys : heap[g][k] <= db[k] => heap'[g'][k] <= db'[k]
        /\ \A k \in pruned' : heap'[g'][k] = 0
    BY <1>0, <2>1, <2>2, <2>3 DEF Without, TypeOK, DataOK
  <2>5. /\ pc'[Stop] = pc[Stop] /\ pc'[Boot] = pc[Boot] /\ pc'[Loop] = pc[Loop]
        /\ pc'[Sweep] # "decay_prune" /\ \A h \in Conns : pc'[h] = pc[h]
    BY <1>3, <2>1
  <2> QED BY <1>1, <2>1, <2>4, <2>5 DEF FinalInv
<1>6. CASE DecayRaws(Sweep)
  <2>1. /\ pc[Sweep] = "decay_raws" /\ pc[Sweep] \in Critical /\ Goto(Sweep, "decay_prune") /\ raws' = raws \ orphaned
        /\ UNCHANGED <<heap, g, db, dbRaws, pruned, orphaned>>
    BY <1>6 DEF DecayRaws, Critical, DecayPC
  <2> QED BY <1>1, <1>3, <2>1 DEF FinalInv
<1>7. CASE DecayPrune(Sweep)
  <2>1. /\ pc[Sweep] = "decay_prune" /\ pc[Sweep] \in Critical /\ Goto(Sweep, "idle")
        /\ UNCHANGED <<heap, g, raws>>
        /\ \/ db' = Without(db, pruned) /\ dbRaws' = dbRaws \ orphaned
           \/ UNCHANGED <<db, dbRaws>>
    BY <1>2, <1>7 DEF DecayPrune, Critical, DecayPC
  <2>2. ASSUME pc[Stop] \in Ended
        PROVE  (\A k \in Keys : heap[g][k] <= db'[k]) /\ raws \subseteq dbRaws'
    <3>1. /\ \A k \in Keys : heap[g][k] <= db[k]
          /\ \A k \in pruned : heap[g][k] = 0
          /\ raws \subseteq dbRaws /\ raws \cap orphaned = {}
      BY <2>1, <2>2 DEF FinalInv, Ended
    <3>2. CASE UNCHANGED <<db, dbRaws>> BY <3>1, <3>2
    <3>3. CASE db' = Without(db, pruned) /\ dbRaws' = dbRaws \ orphaned
      <4>1. \A k \in Keys : heap[g][k] <= db'[k] BY <3>1, <3>3 DEF Without
      <4> QED BY <3>1, <3>3, <4>1
    <3> QED BY <2>1, <3>2, <3>3
  <2> QED BY <1>1, <1>3, <2>1, <2>2 DEF FinalInv, Ended
<1> QED BY <1>4, <1>5, <1>6, <1>7 DEF Decay

(* Only the closing of the listener begins a stop. *)
LEMMA StopStays ==
  ASSUME TypeOK, pc[Stop] = "idle", Next, ~Vanish, ~StopListener
  PROVE  pc'[Stop] = "idle"
<1> USE ProcsDiffer DEF Step, Goto
<1>0. /\ Stop \in Procs /\ pc \in [Procs -> ConnPC \cup BootPC \cup StopPC \cup LoopPC \cup SweepPC]
      /\ \A h \in Conns : h # Stop
  BY DEF TypeOK, PlaceOK
<1>1. CASE \E h \in Conns : Handler(h)
  <2> PICK h \in Conns : Handler(h) BY <1>1
  <2>1. pc' = pc \/ \E l : pc' = [pc EXCEPT ![h] = l]
    BY DEF Handler, NextState, sched, AcceptRecord, RecordLoad, RecordObs, RecordRaw, RecordDirty, RecordSignal,
       RecordRaws, AcceptImport, ImportLoad, ImportMerge, ImportNewPredictor, ImportStorePredictor,
       AcceptReset, ResetLock, ResetGraph, ResetPred, ResetClear, ResetClearRaws, ResetRaws, ResetDirty
  <2> QED BY <1>0, <2>1
<1>2. CASE \E p \in Procs : Flush(p) \/ Decay(p)
  <2> PICK p \in Procs : Flush(p) \/ Decay(p) BY <1>2
  <2>1. p # Stop
    BY DEF Flush, FlushLock, FlushAll, FlushSave, FlushSaveFails, FlushRaws, FlushSaveRaws, FlushSwap, FlushAgain,
       Decay, DecayLock, DecayGraph, DecayRaws, DecayPrune
  <2>2. \E l : pc' = [pc EXCEPT ![p] = l]
    BY DEF Flush, FlushLock, FlushAll, FlushSave, FlushSaveFails, FlushRaws, FlushSaveRaws, FlushSwap, FlushAgain,
       Decay, DecayLock, DecayGraph, DecayRaws, DecayPrune
  <2> QED BY <1>0, <2>1, <2>2
<1>3. CASE FlushLoop \/ DecayLoop
  BY <1>0, <1>3 DEF FlushLoop, LoopDone, LoopToken, LoopTick, DecayLoop, SweepDone, SweepTick
<1>4. CASE Start
  BY <1>0, <1>4 DEF Start, BootLoad, BootSeed, BootPredictor, BootListen
<1>5. CASE StopCloseDb \/ Age \/ Cancel
  BY <1>5 DEF StopCloseDb, Age, Cancel
<1> QED BY <1>1, <1>2, <1>3, <1>4, <1>5 DEF Next, Shutdown, Exit, Crash

LEMMA FinalStep ==
  ASSUME IInv, FinalInv, [Next]_vars, [OrderlyStop]_vars
  PROVE  FinalInv'
<1> USE DEF Step, memory, ptrs, disk, decayV, flushV
<1>0. TypeOK BY DEF IInv
<1>1. CASE Vanish BY <1>1, ProcsDiffer DEF Vanish, FinalInv
<1>2. CASE UNCHANGED vars BY <1>2 DEF vars, FinalInv
<1>3. CASE pc[Stop] = "idle" /\ pc'[Stop] = "idle" BY <1>3 DEF FinalInv
<1>4. CASE StopListener /\ OrderlyStop
  <2>1. /\ pc[Boot] = "up" /\ pc' = [pc EXCEPT ![Stop] = "flush_lock"] /\ \A h \in Conns : pc[h] = "idle"
    BY <1>4 DEF StopListener, OrderlyStop, Goto
  <2>2. pc'[Stop] = "flush_lock" /\ pc'[Boot] = "up" /\ \A h \in Conns : pc'[h] = "idle"
    BY <1>0, <2>1, ProcsDiffer DEF TypeOK, PlaceOK
  <2> QED BY <2>2 DEF FinalInv
<1>5. ASSUME pc[Stop] = "idle", Next, ~Vanish, ~StopListener PROVE pc'[Stop] = "idle"
  BY <1>0, <1>5, StopStays
<1>6. CASE pc[Stop] # "idle" /\ Next /\ OrderlyStop /\ ~Vanish
  <2>1. CASE \E p \in Procs : Flush(p) \/ Decay(p)
    BY <1>0, <1>6, <2>1, FinalPlaces, FinalStopFlush, FinalLoopFlush, FinalDecay
  <2>2. CASE FlushLoop BY <1>0, <1>6, <2>2, FinalMove DEF FlushLoop, LoopDone, LoopToken, LoopTick
  <2>3. CASE DecayLoop BY <1>0, <1>6, <2>3, FinalMove DEF DecayLoop, SweepDone, SweepTick
  <2>4. ~Start BY <1>6 DEF Start, BootLoad, BootSeed, BootPredictor, BootListen, FinalInv
  <2>5. CASE StopCloseDb
    <3>1. /\ pc'[Stop] = "exit" /\ pc[Stop] = "close_db"
          /\ pc'[Boot] = pc[Boot] /\ pc'[Loop] = pc[Loop] /\ pc'[Sweep] = pc[Sweep]
          /\ \A h \in Conns : pc'[h] = pc[h]
      BY <1>0, <2>5, ProcsDiffer DEF StopCloseDb, Goto, TypeOK, PlaceOK
    <3> QED BY <1>6, <2>5, <3>1 DEF StopCloseDb, FinalInv
  <2>6. CASE Age \/ Cancel BY <1>6, <2>6 DEF Age, Cancel, FinalInv
  <2>7. ~StopListener BY <1>6 DEF StopListener
  <2> QED BY <1>0, <1>6, <2>1, <2>2, <2>3, <2>4, <2>5, <2>6, <2>7, FinalPlaces DEF Next, Shutdown, Exit, Crash
<1> QED BY <1>1, <1>2, <1>3, <1>4, <1>5, <1>6

(* If no request is under way when the listener is closed and the final flush succeeds,
   the database that a stop closes has everything: the graph and the database agree,
   but for rows of a decay, and no raw example is missing.  Whatever else happened before,
   resets and failed saves included, and whatever flush and decay run beside the stop. *)
THEOREM StopTheorem == Spec /\ [][OrderlyStop]_vars => []StopSaves
<1> DEFINE Inv == IInv /\ FinalInv
<1>1. Init => Inv
  <2>1. Init => FinalInv BY ProcsDiffer DEF Init, FinalInv
  <2> QED BY <2>1, InvInit
<1>2. Inv /\ [Next]_vars /\ [OrderlyStop]_vars => Inv'
  BY InvStep, FinalStep
<1>3. Inv => StopSaves
  <2> SUFFICES ASSUME Inv, pc[Stop] \in Ended
               PROVE  /\ \A k \in Keys : heap[g][k] <= db[k] /\ (k \notin residue \cup Due => db[k] = heap[g][k])
                      /\ raws \subseteq dbRaws
    BY DEF StopSaves, Ended
  <2>1. pc[Boot] = "up" /\ raws \subseteq dbRaws /\ \A k \in Keys : heap[g][k] <= db[k]
    BY DEF FinalInv, Ended
  <2>2. \A k \in Keys \ (residue \cup Due) : db[k] <= heap[g][k]
    BY <2>1 DEF IInv, StoreBehindGraph
  <2>3. \A k \in Keys : heap[g][k] \in Nat /\ db[k] \in Nat
    BY CountsAreNat DEF IInv
  <2> QED BY <2>1, <2>2, <2>3
<1> QED BY <1>1, <1>2, <1>3, PTL DEF Spec
================================================================================
