---------------------------- MODULE EngineProofs ----------------------------
(***************************************************************************)
(* Proofs about the engine, for every set of batches and every bound.      *)
(***************************************************************************)
EXTENDS Engine, WalProofs

----------------------------------------------------------------------------
(* The log of the engine *)

\* What the engine does to its log, the log's own specification allows.
LEMMA EngineStepIsWalStep == [EngineNext]_vars => [Next]_walVars
<1> SUFFICES ASSUME [EngineNext]_vars PROVE Next \/ UNCHANGED walVars
  OBVIOUS
<1>1. CASE OpenEngine \/ OpenFails \/ CloseEngine \/ DropEngine \/ CrashEngine
  BY <1>1 DEF OpenEngine, OpenFails, CloseEngine, DropEngine, CrashEngine, Next, vars
<1>2. ASSUME NEW b \in Batch, BeginWrite(b) \/ RefuseWrite(b)
      PROVE  Next
  BY <1>2 DEF BeginWrite, RefuseWrite, Next
<1>3. CASE LogStep \/ EndWrite
  BY <1>3 DEF LogStep, EndWrite, Next
<1>4. CASE Flush(MaxSize) \/ Flush(1) \/ FlushLosesMem
  BY <1>4 DEF Flush, FlushLosesMem
<1>5. CASE Compact \/ CompactWriteFails \/ CompactRemoveFails
  BY <1>5 DEF Compact, CompactWriteFails, CompactRemoveFails
<1>6. ASSUME NEW s \in AllSeries, Delete(s) \/ DropSeries(s)
      PROVE  UNCHANGED walVars
  BY <1>6 DEF Delete, DropSeries
<1>7. CASE DropAllSeries
  BY <1>7 DEF DropAllSeries
<1>8. ASSUME NEW t \in measurements, DropMeasurement(t)
      PROVE  UNCHANGED walVars
  BY <1>8 DEF DropMeasurement
<1>9. CASE UNCHANGED vars
  BY <1>9 DEF vars
<1> QED
  BY <1>1, <1>2, <1>3, <1>4, <1>5, <1>6, <1>7, <1>8, <1>9 DEF EngineNext

\* The log inside the engine behaves as the log on its own, so what is proved
\* of Wal holds of the engine's (Engine::write, close, new).
THEOREM EngineRunsTheLog == EngineSpec => Spec
<1>1. EngineInit => Init
  BY DEF EngineInit
<1> QED
  BY <1>1, EngineStepIsWalStep, PTL DEF EngineSpec, Spec

\* No operation of the engine loses an acknowledged write from the log, if
\* writes are synced or the machine keeps its page cache (Engine::write).
THEOREM EngineKeepsAckedWrites ==
    ASSUME SyncEnabled \/ ~PowerLossPossible
    PROVE  EngineSpec => []AckedInWal
BY EngineRunsTheLog, AckedWritesSurvive, PTL

\* The log of the engine is an acknowledged log, whatever the engine does with
\* its memtable and its files.
THEOREM EngineKeepsThePromise ==
    ASSUME SyncEnabled \/ ~PowerLossPossible
    PROVE  EngineSpec => ImplementsAckedLog
BY EngineRunsTheLog, WalImplementsAckedLog, PTL

----------------------------------------------------------------------------
(* The index *)

\* IndexCoversMem, and the same of the batch on its way to the memtable.
IndexInv ==
    /\ IndexCoversMem
    /\ writing # None => SeriesOf(writing) \subseteq index

LEMMA SeriesOfKeys ==
    ASSUME NEW b, NEW k \in KeysOf(b)
    PROVE  [table |-> k.table, tags |-> k.tags] \in SeriesOf(b)
BY DEF SeriesOf

LEMMA IndexStep == IndexInv /\ WInv /\ [EngineNext]_vars => IndexInv'
<1> SUFFICES ASSUME IndexInv, WInv, [EngineNext]_vars PROVE IndexInv'
  OBVIOUS
<1>1. CASE mem' = <<>> /\ UNCHANGED <<index, keys, writing>>
  BY <1>1 DEF IndexInv, IndexCoversMem
<1>2. CASE UNCHANGED <<mem, index, keys>> /\ (writing' = None \/ writing' = writing)
  BY <1>2 DEF IndexInv, IndexCoversMem
<1>3. CASE OpenEngine
  <2>1. PICK rs \in Deliveries :
          /\ mem' = ReplayedMem(rs)
          /\ index' = ReplayedSeries(rs)
          /\ keys' = ReplayedSeries(rs)
    BY <1>3 DEF OpenEngine
  <2>3. writing' = None
    BY <1>3 DEF OpenEngine, Open, WInv, WriterInv
  <2>2. ASSUME NEW k \in DOMAIN mem'
        PROVE  [table |-> k.table, tags |-> k.tags] \in index'
    <3>1. PICK r \in rs : k \in KeysOf(BatchAt(r))
      BY <2>1 DEF ReplayedMem, LoggedKeys
    <3>2. [table |-> k.table, tags |-> k.tags] \in SeriesOf(BatchAt(r))
      BY <3>1, SeriesOfKeys
    <3> QED
      BY <2>1, <3>1, <3>2 DEF ReplayedSeries
  <2> QED
    BY <2>1, <2>2, <2>3 DEF IndexInv, IndexCoversMem
<1>4. CASE OpenFails
  BY <1>2, <1>4 DEF OpenFails, vars, engineVars, memVars, seriesVars, walVars
<1>5. CASE CloseEngine
  BY <1>1, <1>2, <1>5
     DEF CloseEngine, Close, Spill, engineVars, memVars, seriesVars
<1>6. CASE DropEngine \/ CrashEngine
  BY <1>6 DEF DropEngine, CrashEngine, Gone, Shutdown, Idle, Crash, IndexInv, IndexCoversMem
<1>7. ASSUME NEW b \in Batch, BeginWrite(b) \/ RefuseWrite(b)
      PROVE  IndexInv'
  <2>1. /\ index' = index \cup SeriesOf(b)
        /\ keys' = keys \cup (SeriesOf(b) \ index)
        /\ mem' = mem
    BY <1>7 DEF BeginWrite, RefuseWrite, Admit, memVars
  <2>2. writing' = b \/ writing' = writing
    BY <1>7 DEF BeginWrite, RefuseWrite, Write, WriteToNewFile, WriteToCurrentFile,
                CreateRefused, CreateFails, RecordFails, FirstRecordFails
  <2> QED
    BY <2>1, <2>2 DEF IndexInv, IndexCoversMem
<1>8. CASE LogStep
  <2>1. UNCHANGED <<mem, index, keys>>
    BY <1>8 DEF LogStep, engineVars, memVars, seriesVars
  <2>2. writing' = None \/ writing' = writing
    BY <1>8 DEF LogStep, FlushStep, FlushFails, SyncFails
  <2> QED
    BY <1>2, <2>1, <2>2
<1>9. CASE EndWrite
  <2>1. /\ writing # None
        /\ writing' = None
        /\ mem' = Inserted(mem, writing)
        /\ UNCHANGED <<index, keys>>
    BY <1>9 DEF EndWrite, WriteReturns, seriesVars
  <2>2. ASSUME NEW k \in DOMAIN mem'
        PROVE  [table |-> k.table, tags |-> k.tags] \in index
    <3>1. k \in DOMAIN mem \/ k \in KeysOf(writing)
      BY <2>1 DEF Inserted
    <3> QED
      BY <2>1, <3>1, SeriesOfKeys DEF IndexInv, IndexCoversMem
  <2> QED
    BY <2>1, <2>2 DEF IndexInv, IndexCoversMem
<1>10. CASE Flush(MaxSize) \/ Flush(1) \/ FlushLosesMem
  BY <1>1, <1>10 DEF Flush, Spill, FlushLosesMem, walVars, seriesVars
<1>11. CASE Compact \/ CompactWriteFails \/ CompactRemoveFails
  BY <1>2, <1>11
     DEF Compact, CompactWriteFails, CompactRemoveFails, walVars, memVars, seriesVars
<1>12. ASSUME NEW s \in AllSeries, Delete(s) \/ DropSeries(s)
       PROVE  IndexInv'
  <2>1. /\ mem' = <<>>
        /\ index' = index \/ index' = index \ {s}
        /\ UNCHANGED <<keys, writing>>
        /\ writing = None
    BY <1>12 DEF Delete, DropSeries, ClearMem, Dropping, Idle, walVars
  <2> QED
    BY <2>1 DEF IndexInv, IndexCoversMem
<1>13. CASE DropAllSeries
  BY <1>13 DEF DropAllSeries, ClearMem, Dropping, Idle, walVars, IndexInv, IndexCoversMem
<1>14. ASSUME NEW t \in measurements, DropMeasurement(t)
       PROVE  IndexInv'
  BY <1>2, <1>14 DEF DropMeasurement, walVars, memVars
<1>15. CASE UNCHANGED vars
  BY <1>2, <1>15 DEF vars, engineVars, memVars, seriesVars, walVars
<1> QED
  BY <1>3, <1>4, <1>5, <1>6, <1>7, <1>8, <1>9, <1>10, <1>11, <1>12, <1>13, <1>14, <1>15
     DEF EngineNext

\* Every series with rows in the memtable is in the index and reachable through
\* series_key_to_id, whatever was refused, dropped or replayed (write,
\* replay_wal, delete, drop_series).
THEOREM IndexCoversTheMemtable == EngineSpec => []IndexCoversMem
<1>1. EngineInit => IndexInv /\ WInv
  <2>1. EngineInit => WInv
    BY WriterInitially DEF EngineInit
  <2>2. EngineInit => IndexInv
    BY DEF EngineInit, Init, IndexInv, IndexCoversMem
  <2> QED
    BY <2>1, <2>2
<1>2. IndexInv /\ WInv /\ [EngineNext]_vars => (IndexInv /\ WInv)'
  BY IndexStep, WriterStep, EngineStepIsWalStep
<1>3. IndexInv => IndexCoversMem
  BY DEF IndexInv
<1> QED
  BY <1>1, <1>2, <1>3, PTL DEF EngineSpec
----------------------------------------------------------------------------
(* The TSSP files *)

\* The listed files exist under ids the counter has passed, once each.
FilesInv ==
    /\ nextTssp \in Nat
    /\ \E S : metas \in Seq(S)
    /\ \A i \in DOMAIN metas :
         /\ metas[i].id \in Nat
         /\ metas[i].id < nextTssp
         /\ metas[i].id \in DOMAIN tssp
    /\ \A i, j \in DOMAIN metas : metas[i].id = metas[j].id => i = j

\* The files listed before and after a step are the same files.
Intact == \A id \in MetaIds \cap MetaIds' : id \in DOMAIN tssp' /\ tssp'[id] = tssp[id]

LEMMA MetaIdsByPlace == MetaIds = {metas[i].id : i \in DOMAIN metas}
BY DEF MetaIds, ToSet

LEMMA FilesKept ==
    ASSUME FilesInv, UNCHANGED <<metas, tssp>>, nextTssp' \in Nat, nextTssp <= nextTssp'
    PROVE  FilesInv' /\ Intact
<1>1. FilesInv'
  BY DEF FilesInv
<1>2. Intact
  BY MetaIdsByPlace DEF FilesInv, Intact
<1> QED
  BY <1>1, <1>2

LEMMA FilesDropped ==
    ASSUME metas' = <<>>, nextTssp' \in Nat
    PROVE  FilesInv' /\ Intact
<1>1. DOMAIN metas' = {} /\ metas' \in Seq({})
  OBVIOUS
<1>2. FilesInv'
  BY <1>1 DEF FilesInv
<1>3. MetaIds' = {}
  BY <1>1 DEF MetaIds, ToSet
<1> QED
  BY <1>2, <1>3 DEF Intact

LEMMA FilesSpilled ==
    ASSUME FilesInv, Spill
    PROVE  FilesInv' /\ Intact
<1> DEFINE e == NewMeta(nextTssp, SortedRows)
           f == NewFile(SortedRows)
<1>1. /\ metas' = Append(metas, e)
      /\ tssp' = WithFile(nextTssp, f)
      /\ nextTssp' = nextTssp + 1
      /\ nextTssp \in Nat
  BY DEF Spill, FilesInv
<1>2. e.id = nextTssp
  BY DEF NewMeta
<1> HIDE DEF e, f
<1>3. /\ DOMAIN tssp' = DOMAIN tssp \cup {nextTssp}
      /\ \A i \in DOMAIN tssp : i # nextTssp => tssp'[i] = tssp[i]
  BY <1>1 DEF WithFile
<1>4. PICK S : metas \in Seq(S)
  BY DEF FilesInv
<1>5. /\ metas' \in Seq(S \cup {e})
      /\ DOMAIN metas' = 1..(Len(metas) + 1)
      /\ DOMAIN metas = 1..Len(metas)
      /\ Len(metas) \in Nat
      /\ metas'[Len(metas) + 1] = e
      /\ \A i \in 1..Len(metas) : metas'[i] = metas[i]
  BY <1>1, <1>4
<1>6. \A i \in 1..Len(metas) :
        metas[i].id \in Nat /\ metas[i].id < nextTssp /\ metas[i].id \in DOMAIN tssp
  BY <1>5 DEF FilesInv
<1>7. \A i \in DOMAIN metas' : i \in 1..Len(metas) \/ i = Len(metas) + 1
  BY <1>5
<1>8. FilesInv'
  <2>1. \A i \in DOMAIN metas' :
          /\ metas'[i].id \in Nat
          /\ metas'[i].id < nextTssp'
          /\ metas'[i].id \in DOMAIN tssp'
    BY <1>1, <1>2, <1>3, <1>5, <1>6, <1>7
  <2>2. \A i, j \in DOMAIN metas' : metas'[i].id = metas'[j].id => i = j
    <3>1. \A i, j \in 1..Len(metas) : metas[i].id = metas[j].id => i = j
      BY <1>5 DEF FilesInv
    <3>2. \A i \in 1..Len(metas) : metas[i].id # nextTssp
      BY <1>1, <1>6
    <3> QED
      BY <1>2, <1>5, <1>7, <3>1, <3>2
  <2>3. nextTssp' \in Nat
    BY <1>1
  <2> QED
    BY <1>5, <2>1, <2>2, <2>3 DEF FilesInv
<1>9. Intact
  <2> SUFFICES ASSUME NEW id \in MetaIds PROVE id \in DOMAIN tssp' /\ tssp'[id] = tssp[id]
    BY DEF Intact
  <2>1. PICK i \in 1..Len(metas) : id = metas[i].id
    BY <1>5, MetaIdsByPlace
  <2>2. id \in DOMAIN tssp /\ id # nextTssp
    BY <1>1, <1>6, <2>1
  <2> QED
    BY <1>3, <2>2
<1> QED
  BY <1>8, <1>9

LEMMA FilesCompacted ==
    ASSUME FilesInv, Compact
    PROVE  FilesInv' /\ Intact
<1>1. nextTssp \in Nat
  BY DEF FilesInv
<1>2. CASE UNCHANGED <<tssp, metas, nextTssp>>
  BY <1>1, <1>2, FilesKept
<1>3. ASSUME NEW e, NEW f,
             e.id = nextTssp,
             tssp' = WithoutFiles(WithFile(nextTssp, f), MetaIds),
             metas' = <<e>>,
             nextTssp' = nextTssp + 1
      PROVE  FilesInv' /\ Intact
  <2>1. nextTssp \notin MetaIds
    BY <1>1, MetaIdsByPlace DEF FilesInv
  <2>2. nextTssp \in DOMAIN tssp'
    BY <1>3, <2>1 DEF WithoutFiles, WithFile
  <2>3. /\ metas' \in Seq({e})
        /\ DOMAIN metas' = {1}
        /\ metas'[1] = e
    BY <1>3
  <2>4. FilesInv'
    <3>1. nextTssp' \in Nat /\ nextTssp < nextTssp'
      BY <1>1, <1>3
    <3>2. \A i \in DOMAIN metas' : i = 1 /\ metas'[i].id = nextTssp
      BY <1>3, <2>3
    <3>3. \A i \in DOMAIN metas' :
            /\ metas'[i].id \in Nat
            /\ metas'[i].id < nextTssp'
            /\ metas'[i].id \in DOMAIN tssp'
      BY <1>1, <2>2, <3>1, <3>2
    <3>4. \A i, j \in DOMAIN metas' : metas'[i].id = metas'[j].id => i = j
      BY <3>2
    <3> QED
      BY <2>3, <3>1, <3>3, <3>4 DEF FilesInv
  <2>5. MetaIds' = {nextTssp}
    BY <1>3, <2>3, MetaIdsByPlace DEF MetaIds, ToSet
  <2> QED
    BY <2>1, <2>4, <2>5 DEF Intact
<1>4. ASSUME NEW id, NEW rows PROVE NewMeta(id, rows).id = id
  BY DEF NewMeta
<1> QED
  BY <1>2, <1>3, <1>4 DEF Compact

LEMMA FilesHalfRemoved ==
    ASSUME FilesInv, CompactRemoveFails
    PROVE  FilesInv' /\ Intact
<1>1. PICK n \in DOMAIN metas :
        /\ tssp' = WithoutFiles(tssp, {metas[m].id : m \in 1..(n - 1)})
        /\ metas' = SubSeq(metas, n, Len(metas))
  BY DEF CompactRemoveFails
<1>2. nextTssp' = nextTssp + 1 /\ nextTssp \in Nat
  BY DEF CompactRemoveFails, FilesInv
<1>3. PICK S : metas \in Seq(S)
  BY DEF FilesInv
<1>4. /\ Len(metas) \in Nat
      /\ DOMAIN metas = 1..Len(metas)
      /\ n \in 1..Len(metas)
  BY <1>3
<1>5. /\ metas' \in Seq(S)
      /\ DOMAIN metas' = 1..(Len(metas) - n + 1)
      /\ \A i \in DOMAIN metas' : metas'[i] = metas[n + i - 1]
  BY <1>1, <1>3, <1>4
<1>6. \A i \in DOMAIN metas' : n + i - 1 \in DOMAIN metas /\ n + i - 1 \notin 1..(n - 1)
  BY <1>4, <1>5
<1>7. \A m \in 1..(n - 1) : m \in DOMAIN metas
  BY <1>4
<1>8. ASSUME NEW i \in DOMAIN metas'
      PROVE  /\ metas'[i].id \in Nat
             /\ metas'[i].id < nextTssp'
             /\ metas'[i].id \in DOMAIN tssp'
             /\ tssp'[metas'[i].id] = tssp[metas'[i].id]
  <2> DEFINE p == n + i - 1
  <2>1. p \in DOMAIN metas /\ p \notin 1..(n - 1) /\ metas'[i] = metas[p]
    BY <1>5, <1>6
  <2> HIDE DEF p
  <2>2. /\ metas[p].id \in Nat
        /\ metas[p].id < nextTssp
        /\ metas[p].id \in DOMAIN tssp
    BY <2>1 DEF FilesInv
  <2>3. metas[p].id \notin {metas[m].id : m \in 1..(n - 1)}
    BY <1>7, <2>1 DEF FilesInv
  <2>4. metas[p].id \in DOMAIN tssp' /\ tssp'[metas[p].id] = tssp[metas[p].id]
    BY <1>1, <2>2, <2>3 DEF WithoutFiles
  <2> QED
    BY <1>2, <2>1, <2>2, <2>4
<1>9. \A i, j \in DOMAIN metas' : metas'[i].id = metas'[j].id => i = j
  <2> SUFFICES ASSUME NEW i \in DOMAIN metas', NEW j \in DOMAIN metas',
                      metas'[i].id = metas'[j].id
               PROVE  i = j
    OBVIOUS
  <2>1. n + i - 1 = n + j - 1
    BY <1>5, <1>6 DEF FilesInv
  <2> QED
    BY <1>4, <1>5, <2>1
<1>10. FilesInv'
  <2>1. \E T : metas' \in Seq(T)
    BY <1>5
  <2>2. nextTssp' \in Nat
    BY <1>2
  <2> QED
    BY <1>8, <1>9, <2>1, <2>2 DEF FilesInv
<1>11. Intact
  <2>1. MetaIds' = {metas'[i].id : i \in DOMAIN metas'}
    BY DEF MetaIds, ToSet
  <2> QED
    BY <1>8, <2>1 DEF Intact
<1> QED
  BY <1>10, <1>11

LEMMA FilesStep == FilesInv /\ [EngineNext]_vars => FilesInv' /\ Intact
<1> SUFFICES ASSUME FilesInv, [EngineNext]_vars PROVE FilesInv' /\ Intact
  OBVIOUS
<1>1. nextTssp \in Nat
  BY DEF FilesInv
<1>2. CASE UNCHANGED tsspVars
  BY <1>1, <1>2, FilesKept DEF tsspVars
<1>3. CASE OpenEngine
  <2>1. metas' = <<>> /\ nextTssp' \in {nextTssp, 1}
    BY <1>3 DEF OpenEngine
  <2> QED
    BY <1>1, <2>1, FilesDropped
<1>4. CASE DropEngine \/ CrashEngine
  <2>1. metas' = <<>> /\ nextTssp' \in {nextTssp, 1}
    BY <1>4 DEF DropEngine, CrashEngine, Gone
  <2> QED
    BY <1>1, <2>1, FilesDropped
<1>5. CASE CloseEngine
  BY <1>2, <1>5, FilesSpilled DEF CloseEngine, engineVars
<1>6. CASE Flush(MaxSize) \/ Flush(1)
  BY <1>6, FilesSpilled DEF Flush
<1>7. CASE FlushLosesMem \/ CompactWriteFails
  <2>1. UNCHANGED <<metas, tssp>> /\ nextTssp' = nextTssp + 1
    BY <1>7 DEF FlushLosesMem, CompactWriteFails
  <2> QED
    BY <1>1, <2>1, FilesKept
<1>8. CASE Compact
  BY <1>8, FilesCompacted
<1>9. CASE CompactRemoveFails
  BY <1>9, FilesHalfRemoved
<1>10. ASSUME NEW b \in Batch, BeginWrite(b) \/ RefuseWrite(b)
       PROVE  UNCHANGED tsspVars
  BY <1>10 DEF BeginWrite, RefuseWrite, Admit
<1>11. CASE OpenFails \/ LogStep \/ EndWrite \/ UNCHANGED vars
  BY <1>2, <1>11 DEF OpenFails, LogStep, EndWrite, vars, engineVars
<1>12. ASSUME NEW s \in AllSeries, Delete(s) \/ DropSeries(s)
       PROVE  UNCHANGED tsspVars
  BY <1>12 DEF Delete, DropSeries
<1>13. CASE DropAllSeries
  BY <1>2, <1>13 DEF DropAllSeries
<1>14. ASSUME NEW t \in measurements, DropMeasurement(t)
       PROVE  UNCHANGED tsspVars
  BY <1>14 DEF DropMeasurement
<1> QED
  BY <1>2, <1>3, <1>4, <1>5, <1>6, <1>7, <1>8, <1>9, <1>10, <1>11, <1>12, <1>13, <1>14
     DEF EngineNext

\* A listed TSSP file is never written again: ids are not reused while a file
\* is in file_metas, and a compaction writes beside the files it merges
\* (TsspWriter::new, compact_files, remove_file).
THEOREM TsspFilesAreImmutable == EngineSpec => LiveFilesImmutable
<1>1. EngineInit => FilesInv
  <2> SUFFICES ASSUME EngineInit PROVE FilesInv
    OBVIOUS
  <2>1. metas = <<>> /\ nextTssp = 1
    BY DEF EngineInit
  <2>2. metas \in Seq({}) /\ DOMAIN metas = {}
    BY <2>1
  <2> QED
    BY <2>1, <2>2 DEF FilesInv
<1>2. FilesInv /\ [EngineNext]_vars => FilesInv'
  BY FilesStep
<1>3. FilesInv /\ [EngineNext]_vars => [Intact]_vars
  BY FilesStep
<1> QED
  BY <1>1, <1>2, <1>3, PTL DEF EngineSpec, LiveFilesImmutable, Intact

----------------------------------------------------------------------------
(* Orders *)

StrictOrder(S, less) ==
    /\ \A x \in S : <<x, x>> \notin less
    /\ \A x, y, z \in S : <<x, y>> \in less /\ <<y, z>> \in less => <<x, z>> \in less
    /\ \A x, y \in S : x = y \/ <<x, y>> \in less \/ <<y, x>> \in less

Below(S, less, x) == {y \in S : <<y, x>> \in less}

\* In a finite ordered set each element has a number of its own of elements
\* below it, and every number less than the size of the set occurs.
LEMMA Ranks ==
    ASSUME NEW S, IsFiniteSet(S), NEW less, StrictOrder(S, less)
    PROVE  /\ Cardinality(S) \in Nat
           /\ \A x \in S : Cardinality(Below(S, less, x)) \in 0..(Cardinality(S) - 1)
           /\ \A x, y \in S :
                Cardinality(Below(S, less, x)) = Cardinality(Below(S, less, y)) => x = y
           /\ \A n \in 0..(Cardinality(S) - 1) :
                \E x \in S : Cardinality(Below(S, less, x)) = n
<1> DEFINE c == Cardinality(S)
           T == 0..(c - 1)
           rank == [x \in S |-> Cardinality(Below(S, less, x))]
<1>1. c \in Nat
  BY FS_CardinalityType
<1>2. ASSUME NEW x \in S
      PROVE  /\ IsFiniteSet(Below(S, less, x))
             /\ Cardinality(Below(S, less, x)) \in T
  <2>1. Below(S, less, x) \in SUBSET (S \ {x})
    BY DEF Below, StrictOrder
  <2>2. IsFiniteSet(S \ {x}) /\ Cardinality(S \ {x}) = c - 1
    BY FS_RemoveElement
  <2>3. /\ IsFiniteSet(Below(S, less, x))
        /\ Cardinality(Below(S, less, x)) <= Cardinality(S \ {x})
    BY <2>1, <2>2, FS_Subset
  <2>4. Cardinality(Below(S, less, x)) \in Nat
    BY <2>3, FS_CardinalityType
  <2> HIDE DEF c
  <2> QED
    BY <1>1, <2>2, <2>3, <2>4
<1>3. ASSUME NEW x \in S, NEW y \in S, <<x, y>> \in less
      PROVE  Cardinality(Below(S, less, x)) # Cardinality(Below(S, less, y))
  <2>1. Below(S, less, x) \in SUBSET Below(S, less, y)
    BY <1>3 DEF Below, StrictOrder
  <2>2. x \in Below(S, less, y) /\ x \notin Below(S, less, x)
    BY <1>3 DEF Below, StrictOrder
  <2>3. IsFiniteSet(Below(S, less, y))
    BY <1>2
  <2>4. Below(S, less, x) # Below(S, less, y)
    BY <2>2
  <2> QED
    BY <2>1, <2>3, <2>4, FS_Subset
<1>4. \A x, y \in S : Cardinality(Below(S, less, x)) = Cardinality(Below(S, less, y)) => x = y
  BY <1>3 DEF StrictOrder
<1>5. IsFiniteSet(T) /\ Cardinality(T) = c
  <2>1. 0 \in Int /\ c - 1 \in Int /\ (IF 0 > c - 1 THEN 0 ELSE c - 1 - 0 + 1) = c
    <3> HIDE DEF c
    <3> QED
      BY <1>1
  <2> QED
    BY <2>1, FS_Interval, Zenon
<1>6. rank \in Injection(S, T)
  <2>1. rank \in [S -> T]
    BY <1>2
  <2>2. \A x, y \in S : rank[x] = rank[y] => x = y
    BY <1>4
  <2> HIDE DEF rank, T
  <2> QED
    BY <2>1, <2>2 DEF Injection, IsInjective
<1>7. rank \in Surjection(S, T)
  <2> HIDE DEF rank, T
  <2> QED
    BY <1>5, <1>6, FS_Injection
<1>8. \A n \in T : \E x \in S : rank[x] = n
  <2> HIDE DEF rank, T
  <2> QED
    BY <1>7 DEF Surjection
<1> QED
  BY <1>1, <1>2, <1>4, <1>8

\* InOrder lists the elements, each once.
LEMMA InOrderLists ==
    ASSUME NEW S, IsFiniteSet(S), NEW less, StrictOrder(S, less)
    PROVE  /\ Cardinality(S) \in Nat
           /\ InOrder(S, less) \in [1..Cardinality(S) -> S]
           /\ \A x \in S : \E n \in 1..Cardinality(S) : InOrder(S, less)[n] = x
<1> DEFINE c == Cardinality(S)
           Nth(n) == CHOOSE x \in S : Cardinality(Below(S, less, x)) = n - 1
<1>1. c \in Nat
  BY FS_CardinalityType
<1>2. InOrder(S, less) = [n \in 1..c |-> Nth(n)]
  BY DEF InOrder, Below
<1>3. ASSUME NEW n \in 1..c PROVE Nth(n) \in S
  <2>1. n - 1 \in 0..(c - 1)
    <3> HIDE DEF c
    <3> QED
      BY <1>1
  <2>2. \E x \in S : Cardinality(Below(S, less, x)) = n - 1
    BY <2>1, Ranks
  <2> QED
    BY <2>2
<1>4. ASSUME NEW x \in S PROVE \E n \in 1..c : Nth(n) = x
  <2> DEFINE m == Cardinality(Below(S, less, x))
  <2>1. m \in 0..(c - 1)
    BY Ranks
  <2>2. \E k \in 1..c : k - 1 = m
    <3> HIDE DEF c, m
    <3>1. m + 1 \in 1..c
      BY <1>1, <2>1
    <3>2. (m + 1) - 1 = m
      BY <1>1, <2>1
    <3> QED
      BY <3>1, <3>2, Zenon
  <2>3. \A y \in S : Cardinality(Below(S, less, y)) = m => y = x
    BY Ranks
  <2>4. PICK k \in 1..c : k - 1 = m
    BY <2>2
  <2>5. \A y \in S : Cardinality(Below(S, less, y)) = k - 1 <=> y = x
    BY <2>3, <2>4
  <2>6. Nth(k) = x
    BY <2>5
  <2> HIDE DEF Nth, c
  <2> QED
    BY <2>6
<1> HIDE DEF Nth, c
<1>5. InOrder(S, less) \in [1..c -> S] /\ \A x \in S : \E n \in 1..c : InOrder(S, less)[n] = x
  BY <1>2, <1>3, <1>4
<1> QED
  BY <1>1, <1>5 DEF c

\* A finite ordered set that is not empty has a last element.
LEMMA LastExists ==
    ASSUME NEW S, IsFiniteSet(S), S # {}, NEW less, StrictOrder(S, less)
    PROVE  \E x \in S : \A y \in S : y = x \/ <<y, x>> \in less
<1> DEFINE c == Cardinality(S)
<1>1. c \in Nat /\ c # 0
  BY FS_CardinalityType, FS_EmptySet
<1>2. c - 1 \in 0..(c - 1)
  <2> HIDE DEF c
  <2> QED
    BY <1>1
<1>3. PICK x \in S : Cardinality(Below(S, less, x)) = c - 1
  BY <1>2, Ranks
<1>4. Below(S, less, x) \in SUBSET (S \ {x})
  BY DEF Below, StrictOrder
<1>5. IsFiniteSet(S \ {x}) /\ Cardinality(S \ {x}) = c - 1
  BY FS_RemoveElement
<1>6. Below(S, less, x) = S \ {x}
  BY <1>3, <1>4, <1>5, FS_Subset
<1> QED
  BY <1>6 DEF Below

----------------------------------------------------------------------------
(* Finite sets of integers and sequences *)

LEMMA ImageFinite ==
    ASSUME NEW D, IsFiniteSet(D), NEW f
    PROVE  IsFiniteSet({f[x] : x \in D})
<1> DEFINE g == [x \in D |-> f[x]]
           T == {f[x] : x \in D}
<1>1. g \in Surjection(D, T)
  BY DEF Surjection
<1> QED
  BY <1>1, FS_Surjection

\* The Min and Max of a finite set of integers that is not empty.
LEMMA MinMax ==
    ASSUME NEW S \in SUBSET Int, IsFiniteSet(S), S # {}
    PROVE  /\ Min(S) \in S /\ \A y \in S : Min(S) <= y
           /\ Max(S) \in S /\ \A y \in S : y <= Max(S)
<1> DEFINE rising  == {p \in S \X S : p[1] < p[2]}
           falling == {p \in S \X S : p[1] > p[2]}
<1>1. StrictOrder(S, rising) /\ StrictOrder(S, falling)
  BY DEF StrictOrder
<1>2. PICK x \in S : \A y \in S : y = x \/ <<y, x>> \in rising
  <2> HIDE DEF rising
  <2> QED
    BY <1>1, LastExists
<1>3. PICK z \in S : \A y \in S : y = z \/ <<y, z>> \in falling
  <2> HIDE DEF falling
  <2> QED
    BY <1>1, LastExists
<1>4. ASSUME NEW y \in S PROVE y <= x /\ z <= y /\ x >= y
  <2>1. y = x \/ <<y, x>> \in rising
    BY <1>2
  <2>2. y = z \/ <<y, z>> \in falling
    BY <1>3
  <2>3. y = x \/ y < x
    BY <2>1
  <2>4. y = z \/ y > z
    BY <2>2
  <2>5. x \in Int /\ y \in Int /\ z \in Int
    OBVIOUS
  <2> QED
    BY <2>3, <2>4, <2>5
<1>5. Max(S) \in S /\ \A y \in S : Max(S) >= y
  BY <1>4 DEF Max
<1>6. Min(S) \in S /\ \A y \in S : Min(S) <= y
  BY <1>4 DEF Min
<1> QED
  <2>1. Max(S) \in Int
    BY <1>5
  <2>2. \A y \in S : y <= Max(S)
    BY <1>5, <2>1
  <2> QED
    BY <1>5, <1>6, <2>2

\* The meta of a file with rows covers their times.
LEMMA FileTimes ==
    ASSUME NEW n \in Nat, NEW rows, DOMAIN rows = 1..n, n # 0,
           \A i \in 1..n : rows[i].ts \in Int, NEW id
    PROVE  /\ NewMeta(id, rows).id = id
           /\ \A i \in 1..n : /\ NewMeta(id, rows).min <= rows[i].ts
                              /\ rows[i].ts <= NewMeta(id, rows).max
           /\ NewMeta(id, rows).min \in Int /\ NewMeta(id, rows).max \in Int
<1> DEFINE f == [i \in 1..n |-> rows[i].ts]
           T == {r.ts : r \in ToSet(rows)}
<1>1. T = {f[i] : i \in 1..n}
  BY DEF ToSet
<1>2. IsFiniteSet(1..n)
  BY FS_Interval
<1>3. IsFiniteSet(T)
  <2> HIDE DEF f, T
  <2> QED
    BY <1>1, <1>2, ImageFinite
<1>4. T \in SUBSET Int
  BY <1>1
<1>5. \A i \in 1..n : rows[i].ts \in T
  BY <1>1
<1>6. T # {}
  <2>1. 1 \in 1..n
    OBVIOUS
  <2> QED
    BY <1>5, <2>1
<1> HIDE DEF T
<1>7. /\ Min(T) \in T /\ \A y \in T : Min(T) <= y
      /\ Max(T) \in T /\ \A y \in T : y <= Max(T)
  BY <1>3, <1>4, <1>6, MinMax
<1>8. NewMeta(id, rows) = [id |-> id, min |-> Min(T), max |-> Max(T)]
  BY DEF NewMeta, T
<1> DEFINE m == NewMeta(id, rows)
<1>9. m.id = id /\ m.min = Min(T) /\ m.max = Max(T)
  BY <1>8
<1>10. Min(T) \in Int /\ Max(T) \in Int
  BY <1>4, <1>7
<1>11. \A i \in 1..n : Min(T) <= rows[i].ts /\ rows[i].ts <= Max(T)
  BY <1>5, <1>7
<1> HIDE DEF m
<1>12. /\ m.id = id
       /\ \A i \in 1..n : m.min <= rows[i].ts /\ rows[i].ts <= m.max
       /\ m.min \in Int /\ m.max \in Int
  BY <1>9, <1>10, <1>11, Zenon
<1> QED
  BY <1>12 DEF m

----------------------------------------------------------------------------
(* The log under the engine, whose records stay *)

\* The steps of the log that the engine takes: it neither purges nor, in this
\* model, loses its page cache.
LogAction ==
    \/ Open \/ Close \/ Shutdown \/ Crash
    \/ CreateRefused \/ CreateFails \/ RecordFails \/ FirstRecordFails
    \/ \E b \in Batch : Write(b)
    \/ FlushStep \/ FlushFails \/ SyncFails \/ WriteReturns

LEMMA EngineLogActions == [EngineNext]_vars => [LogAction]_walVars
<1> SUFFICES ASSUME [EngineNext]_vars PROVE LogAction \/ UNCHANGED walVars
  OBVIOUS
<1>1. CASE OpenEngine \/ OpenFails \/ CloseEngine \/ DropEngine \/ CrashEngine
  BY <1>1 DEF OpenEngine, OpenFails, CloseEngine, DropEngine, CrashEngine, LogAction, vars
<1>2. ASSUME NEW b \in Batch, BeginWrite(b) \/ RefuseWrite(b)
      PROVE  LogAction
  BY <1>2 DEF BeginWrite, RefuseWrite, LogAction
<1>3. CASE LogStep \/ EndWrite
  BY <1>3 DEF LogStep, EndWrite, LogAction
<1>4. CASE Flush(MaxSize) \/ Flush(1) \/ FlushLosesMem
  BY <1>4 DEF Flush, FlushLosesMem
<1>5. CASE Compact \/ CompactWriteFails \/ CompactRemoveFails
  BY <1>5 DEF Compact, CompactWriteFails, CompactRemoveFails
<1>6. ASSUME NEW s \in AllSeries, Delete(s) \/ DropSeries(s)
      PROVE  UNCHANGED walVars
  BY <1>6 DEF Delete, DropSeries
<1>7. CASE DropAllSeries
  BY <1>7 DEF DropAllSeries
<1>8. ASSUME NEW t \in measurements, DropMeasurement(t)
      PROVE  UNCHANGED walVars
  BY <1>8 DEF DropMeasurement
<1>9. CASE UNCHANGED vars
  BY <1>9 DEF vars
<1> QED
  BY <1>1, <1>2, <1>3, <1>4, <1>5, <1>6, <1>7, <1>8, <1>9 DEF EngineNext

\* No step of the log but these makes a file, and only a new write does.
LEMMA FilesStay ==
    ASSUME WInv, [LogAction]_walVars
    PROVE  \/ DOMAIN files' = DOMAIN files
           \/ DOMAIN files' = DOMAIN files \cup {fileId}
<1>1. \A fs \in AfterDrop : DOMAIN fs = DOMAIN files
  BY DropExtends DEF Extends
<1>2. CASE Close
  BY <1>1, <1>2 DEF Close
<1>3. CASE Shutdown
  BY <1>1, <1>3 DEF Shutdown
<1>4. ASSUME NEW b \in Batch, Write(b)
      PROVE  \/ DOMAIN files' = DOMAIN files
             \/ DOMAIN files' = DOMAIN files \cup {fileId}
  BY <1>1, <1>4 DEF Write, WriteToNewFile, WriteToCurrentFile, WithNewFile
<1>5. CASE Open \/ Crash \/ CreateRefused \/ CreateFails \/ FlushFails \/ SyncFails
            \/ UNCHANGED walVars
  BY <1>5 DEF Open, Crash, CreateRefused, CreateFails, FlushFails, SyncFails, walVars
<1>6. CASE FlushStep \/ WriteReturns
  BY <1>6 DEF FlushStep, WriteReturns
<1>7. CASE RecordFails
  BY <1>7, RecordFailsIs
<1>8. CASE FirstRecordFails
  BY <1>8, FirstRecordFailsIs
<1> QED
  BY <1>2, <1>3, <1>4, <1>5, <1>6, <1>7, <1>8 DEF LogAction

LogKept == \A x \in Records : x \in Records' /\ BatchAt(x)' = BatchAt(x)

\* While the engine runs, what is in its log stays where it is.
LEMMA RecordsStay ==
    ASSUME WInv, [EngineNext]_vars, up'
    PROVE  LogKept
<1>1. [LogAction]_walVars /\ [Next]_walVars
  BY EngineLogActions, EngineStepIsWalStep
<1>2. WInv'
  BY <1>1, WriterStep
<1>3. ASSUME NEW x \in Records
      PROVE  x \in Records' /\ BatchAt(x)' = BatchAt(x)
  <2>1. PICK i \in DOMAIN files : x.id = i /\ x.pos \in DOMAIN files[i].recs
                                  /\ x = [id |-> i, pos |-> x.pos]
    BY DEF Records
  <2>2. i \in DOMAIN files'
    BY <1>1, FilesStay
  <2>3. AppendedTo(files, files', i)
    BY <1>1, <2>2, AppendStep
  <2>4. files[i].recs \in Seq(Batch) /\ files'[i].recs \in Seq(Batch)
    BY <1>2, <2>2 DEF WInv, TypeOK, FilesTyped, DiskFile
  <2>5. x.pos \in DOMAIN files'[i].recs /\ files'[i].recs[x.pos] = files[i].recs[x.pos]
    <3>1. CASE files'[i] = files[i]
      BY <2>1, <3>1
    <3>2. CASE files'[i] # files[i]
      <4> DEFINE s == files[i].recs
                 t == files'[i].recs
      <4>1. SubSeq(t, 1, Len(s)) = s
        BY <2>3, <3>2 DEF AppendedTo
      <4>2. x.pos \in 1..Len(s)
        BY <2>1, <2>4
      <4>3. s \in Seq(Batch) /\ t \in Seq(Batch)
        BY <2>4
      <4> HIDE DEF s, t
      <4>4. Len(s) <= Len(t)
        BY <2>3, <3>2 DEF AppendedTo, s, t
      <4>5. x.pos \in 1..Len(t) /\ t[x.pos] = s[x.pos]
        BY <4>1, <4>2, <4>3, <4>4
      <4>6. DOMAIN t = 1..Len(t)
        BY <4>3
      <4> QED
        BY <4>5, <4>6 DEF s, t
    <3> QED
      BY <3>1, <3>2
  <2>6. x \in Records'
    BY <2>1, <2>2, <2>5 DEF Records
  <2> QED
    BY <2>1, <2>5, <2>6 DEF BatchAt
<1> QED
  BY <1>3 DEF LogKept

\* The log has finitely many files, so the records are finitely many.
FiniteLog == IsFiniteSet(DOMAIN files)

LEMMA LogStaysFinite ==
    ASSUME WInv, FiniteLog, [EngineNext]_vars
    PROVE  FiniteLog'
<1>1. \/ DOMAIN files' = DOMAIN files
      \/ DOMAIN files' = DOMAIN files \cup {fileId}
  BY EngineLogActions, FilesStay
<1>2. IsFiniteSet(DOMAIN files \cup {fileId})
  BY FS_AddElement DEF FiniteLog
<1> QED
  BY <1>1, <1>2 DEF FiniteLog

LEMMA RecordsAreFinite ==
    ASSUME WInv, FiniteLog
    PROVE  /\ IsFiniteSet(Records)
           /\ \A x \in Records : x.id \in Nat /\ x.pos \in Nat /\ BatchAt(x) \in Batch
                                 /\ x = [id |-> x.id, pos |-> x.pos]
<1> DEFINE In(i) == {[id |-> i, pos |-> p] : p \in DOMAIN files[i].recs}
           T == {In(i) : i \in DOMAIN files}
<1>1. \A i \in DOMAIN files : i \in Nat /\ files[i].recs \in Seq(Batch)
  BY DEF WInv, TypeOK, FilesTyped, DiskFile
<1>2. ASSUME NEW i \in DOMAIN files PROVE IsFiniteSet(In(i))
  <2> DEFINE f == [p \in DOMAIN files[i].recs |-> [id |-> i, pos |-> p]]
  <2>1. DOMAIN files[i].recs = 1..Len(files[i].recs) /\ Len(files[i].recs) \in Nat
    BY <1>1
  <2>2. IsFiniteSet(DOMAIN files[i].recs)
    BY <2>1, FS_Interval
  <2>3. IsFiniteSet({f[p] : p \in DOMAIN files[i].recs})
    <3> HIDE DEF f
    <3> QED
      BY <2>2, ImageFinite
  <2>4. {f[p] : p \in DOMAIN files[i].recs} = In(i)
    OBVIOUS
  <2> QED
    BY <2>3, <2>4, Zenon
<1>3. IsFiniteSet(T)
  <2> DEFINE g == [i \in DOMAIN files |-> In(i)]
  <2>1. IsFiniteSet({g[i] : i \in DOMAIN files})
    <3> HIDE DEF g
    <3> QED
      BY ImageFinite DEF FiniteLog
  <2>2. {g[i] : i \in DOMAIN files} = T
    OBVIOUS
  <2> QED
    BY <2>1, <2>2, Zenon
<1>4. \A t \in T : IsFiniteSet(t)
  BY <1>2
<1>5. IsFiniteSet(UNION T)
  <2> HIDE DEF T
  <2> QED
    BY <1>3, <1>4, FS_UNION
<1>6. Records = UNION T
  BY DEF Records
<1>7. ASSUME NEW x \in Records
      PROVE  x.id \in Nat /\ x.pos \in Nat /\ BatchAt(x) \in Batch
             /\ x = [id |-> x.id, pos |-> x.pos]
  <2>1. PICK i \in DOMAIN files : \E p \in DOMAIN files[i].recs : x = [id |-> i, pos |-> p]
    BY DEF Records
  <2>2. PICK p \in DOMAIN files[i].recs : x = [id |-> i, pos |-> p]
    BY <2>1
  <2>3. p \in 1..Len(files[i].recs) /\ files[i].recs[p] \in Batch
    BY <1>1
  <2> QED
    BY <1>1, <2>2, <2>3 DEF BatchAt
<1> QED
  BY <1>5, <1>6, <1>7, Zenon

----------------------------------------------------------------------------
(* Batches *)

KeyType == [table : Nat, ts : Int, tags : Nat]

\* A batch is a sequence of rows, with finitely many keys; for each of its keys
\* it has a last row, whose fields FieldsAt gives.
LEMMA BatchRows ==
    ASSUME NEW b \in Batch
    PROVE  /\ Len(b.rows) \in Nat
           /\ DOMAIN b.rows = 1..Len(b.rows)
           /\ KeysOf(b) \subseteq KeyType
           /\ IsFiniteSet(KeysOf(b))
           /\ \A k \in KeysOf(b) : \E i \in DOMAIN b.rows :
                RowKey(b, i) = k /\ FieldsAt(b, k) = Json(b.rows[i].fields)
<1>1. /\ b.table \in Nat
      /\ b.rows \in Seq({b.rows[i] : i \in DOMAIN b.rows})
      /\ \A i \in DOMAIN b.rows : IsRow(b.rows[i])
  BY EngineAssumption
<1>2. Len(b.rows) \in Nat /\ DOMAIN b.rows = 1..Len(b.rows)
  BY <1>1
<1>3. IsFiniteSet(DOMAIN b.rows)
  BY <1>2, FS_Interval
<1>4. \A i \in DOMAIN b.rows : b.rows[i].ts \in Int /\ b.rows[i].tags \in Nat
  BY <1>1 DEF IsRow
<1>5. \A i \in DOMAIN b.rows : RowKey(b, i) \in KeyType
  BY <1>1, <1>4 DEF RowKey, KeyType
<1>6. IsFiniteSet(KeysOf(b))
  <2> DEFINE f == [i \in DOMAIN b.rows |-> RowKey(b, i)]
  <2>1. IsFiniteSet({f[i] : i \in DOMAIN b.rows})
    <3> HIDE DEF f
    <3> QED
      BY <1>3, ImageFinite
  <2>2. {f[i] : i \in DOMAIN b.rows} = KeysOf(b)
    BY DEF KeysOf
  <2> QED
    BY <2>1, <2>2, Zenon
<1>7. ASSUME NEW k \in KeysOf(b)
      PROVE  \E i \in DOMAIN b.rows :
                RowKey(b, i) = k /\ FieldsAt(b, k) = Json(b.rows[i].fields)
  <2> DEFINE S == {i \in DOMAIN b.rows : RowKey(b, i) = k}
             up0 == {p \in S \X S : p[1] < p[2]}
             Latest(i) == RowKey(b, i) = k /\ \A j \in DOMAIN b.rows : RowKey(b, j) = k => j <= i
  <2>1. IsFiniteSet(S) /\ S # {} /\ S \subseteq Int
    <3>1. S \subseteq DOMAIN b.rows
      OBVIOUS
    <3>2. IsFiniteSet(S)
      BY <1>3, <3>1, FS_Subset
    <3>3. S # {}
      BY DEF KeysOf
    <3> QED
      BY <1>2, <3>2, <3>3
  <2>2. StrictOrder(S, up0)
    <3> HIDE DEF S
    <3> QED
      BY <2>1 DEF StrictOrder
  <2>3. PICK i \in S : \A y \in S : y = i \/ <<y, i>> \in up0
    <3> HIDE DEF S, up0
    <3> QED
      BY <2>1, <2>2, LastExists
  <2>4. ASSUME NEW j \in S PROVE j <= i
    <3>1. j = i \/ j < i
      BY <2>3
    <3>2. j \in Int /\ i \in Int
      BY <2>1
    <3> QED
      BY <3>1, <3>2
  <2>5. i \in DOMAIN b.rows /\ Latest(i)
    BY <2>4
  <2>6. FieldsAt(b, k) = Json(b.rows[CHOOSE j \in DOMAIN b.rows : Latest(j)].fields)
    BY DEF FieldsAt
  <2> DEFINE c == CHOOSE j \in DOMAIN b.rows : Latest(j)
  <2>7. c \in DOMAIN b.rows /\ Latest(c)
    BY <2>5
  <2> HIDE DEF c
  <2> QED
    BY <2>6, <2>7 DEF c
<1> QED
  BY <1>2, <1>5, <1>6, <1>7 DEF KeysOf

\* Of the records that have a key one is the newest.
LEMMA NewestIs ==
    ASSUME WInv, FiniteLog, NEW rs \in SUBSET Records, NEW k \in LoggedKeys(rs)
    PROVE  /\ NewestRecord(rs, k) \in rs
           /\ k \in KeysOf(BatchAt(NewestRecord(rs, k)))
           /\ \A s \in rs : k \in KeysOf(BatchAt(s)) => ~Before(NewestRecord(rs, k), s)
<1> DEFINE S == {r \in rs : k \in KeysOf(BatchAt(r))}
           less == {p \in S \X S : Before(p[1], p[2])}
           Newest(r) == /\ k \in KeysOf(BatchAt(r))
                        /\ \A s \in rs : k \in KeysOf(BatchAt(s)) => s = r \/ Before(s, r)
<1>1. IsFiniteSet(Records) /\ \A x \in Records : x.id \in Nat /\ x.pos \in Nat
        /\ x = [id |-> x.id, pos |-> x.pos]
  BY RecordsAreFinite
<1>2. IsFiniteSet(S)
  <2>1. S \subseteq Records
    OBVIOUS
  <2> QED
    BY <1>1, <2>1, FS_Subset
<1>3. S # {}
  BY DEF LoggedKeys
<1>4. \A x \in S : x.id \in Nat /\ x.pos \in Nat /\ x = [id |-> x.id, pos |-> x.pos]
  BY <1>1
<1>5. StrictOrder(S, less)
  <2> HIDE DEF S
  <2>1. \A x \in S : ~Before(x, x)
    BY <1>4 DEF Before
  <2>2. \A x, y, z \in S : Before(x, y) /\ Before(y, z) => Before(x, z)
    BY <1>4 DEF Before
  <2>3. \A x, y \in S : x = y \/ Before(x, y) \/ Before(y, x)
    <3> SUFFICES ASSUME NEW x \in S, NEW y \in S, ~Before(x, y), ~Before(y, x)
                 PROVE  x = y
      OBVIOUS
    <3>1. x.id = y.id /\ x.pos = y.pos
      BY <1>4 DEF Before
    <3> QED
      BY <1>4, <3>1
  <2> QED
    BY <2>1, <2>2, <2>3 DEF StrictOrder
<1>6. PICK r \in S : \A y \in S : y = r \/ <<y, r>> \in less
  <2> HIDE DEF S, less
  <2> QED
    BY <1>2, <1>3, <1>5, LastExists
<1>7. r \in rs /\ Newest(r)
  BY <1>6
<1> DEFINE c == CHOOSE x \in rs : Newest(x)
<1>8. c \in rs /\ Newest(c)
  BY <1>7
<1>9. NewestRecord(rs, k) = c
  BY DEF NewestRecord
<1> HIDE DEF c
<1>10. \A s \in rs : k \in KeysOf(BatchAt(s)) => ~Before(c, s)
  BY <1>1, <1>8 DEF Before
<1> QED
  BY <1>8, <1>9, <1>10

----------------------------------------------------------------------------
(* The memtable *)

\* The memtable holds, under finitely many keys, fields that a record of the
\* log leaves at the key; with no keys it counts no rows.
MemInv ==
    /\ IsFiniteSet(DOMAIN mem)
    /\ DOMAIN mem = {} => memRows = 0
    /\ \A k \in DOMAIN mem : \E x \in Records :
         k \in KeysOf(BatchAt(x)) /\ mem[k] = FieldsAt(BatchAt(x), k)

LEMMA MemKeys ==
    ASSUME WInv, FiniteLog, MemInv
    PROVE  DOMAIN mem \subseteq KeyType
BY RecordsAreFinite, BatchRows DEF MemInv

LEMMA EmptiedMem ==
    ASSUME mem' = <<>>, memRows' = 0
    PROVE  MemInv'
<1>1. DOMAIN mem' = {}
  OBVIOUS
<1>2. IsFiniteSet(DOMAIN mem')
  BY <1>1, FS_EmptySet, Zenon
<1> QED
  BY <1>1, <1>2 DEF MemInv

LEMMA KeptMem ==
    ASSUME MemInv, LogKept, UNCHANGED <<mem, memRows>>
    PROVE  MemInv'
BY DEF MemInv, LogKept

LEMMA UnchangedLog ==
    ASSUME UNCHANGED files
    PROVE  LogKept /\ Records' = Records
BY DEF LogKept, Records, BatchAt

\* A write that has reached the file is the record at the writer's offset.
LEMMA WrittenRecord ==
    ASSUME WInv, writing # None, current.pend = <<>>,
           NEW x, x = [id |-> current.id, pos |-> current.offset]
    PROVE  x \in Records /\ BatchAt(x) = writing /\ writing \in Batch
<1>1. /\ current \in OpenFile
      /\ current.id \in DOMAIN files
      /\ current.offset = Len(files[current.id].recs) + Len(current.pend)
      /\ current.offset > 0
      /\ files[current.id].recs[current.offset] = writing
      /\ writing \in Batch
  BY DEF WInv, WriterInv, TypeOK
<1>2. files[current.id].recs \in Seq(Batch)
  BY <1>1 DEF WInv, TypeOK, FilesTyped, DiskFile
<1>3. current.offset \in DOMAIN files[current.id].recs
  <2> DEFINE s == files[current.id].recs
             n == current.offset
  <2>1. s \in Seq(Batch) /\ n = Len(s) + 0 /\ n > 0
    BY <1>1, <1>2
  <2> HIDE DEF s, n
  <2>2. n \in DOMAIN s
    BY <2>1
  <2> QED
    BY <2>2 DEF s, n
<1> QED
  BY <1>1, <1>3 DEF Records, BatchAt

LEMMA InsertedMem ==
    ASSUME WInv, MemInv, EndWrite, LogKept
    PROVE  MemInv'
<1>1. /\ writing # None /\ current.pend = <<>>
      /\ mem' = Inserted(mem, writing)
      /\ memRows' = memRows + Len(writing.rows)
  BY DEF EndWrite, WriteReturns
<1>2. PICK w \in Records : BatchAt(w) = writing /\ writing \in Batch
  <2> DEFINE w == [id |-> current.id, pos |-> current.offset]
  <2>1. w \in Records /\ BatchAt(w) = writing /\ writing \in Batch
    BY <1>1, WrittenRecord
  <2> HIDE DEF w
  <2> QED
    BY <2>1
<1>3. DOMAIN mem' = DOMAIN mem \cup KeysOf(writing)
  BY <1>1 DEF Inserted
<1>4. IsFiniteSet(DOMAIN mem')
  <2>1. IsFiniteSet(KeysOf(writing)) /\ IsFiniteSet(DOMAIN mem)
    BY <1>2, BatchRows DEF MemInv
  <2>2. IsFiniteSet(DOMAIN mem \cup KeysOf(writing))
    BY <2>1, FS_Union
  <2> QED
    BY <1>3, <2>2, Zenon
<1>5. DOMAIN mem' = {} => memRows' = 0
  <2> SUFFICES ASSUME DOMAIN mem' = {} PROVE memRows' = 0
    OBVIOUS
  <2>1. DOMAIN mem = {} /\ KeysOf(writing) = {}
    BY <1>3
  <2>2. DOMAIN writing.rows = {}
    BY <2>1 DEF KeysOf
  <2>3. Len(writing.rows) = 0
    <3> DEFINE n == Len(writing.rows)
    <3>1. n \in Nat /\ 1..n = {}
      BY <1>2, <2>2, BatchRows
    <3> HIDE DEF n
    <3>2. n = 0
      BY <3>1
    <3> QED
      BY <3>2 DEF n
  <2> QED
    BY <1>1, <2>1, <2>3 DEF MemInv
<1>6. ASSUME NEW k \in DOMAIN mem'
      PROVE  \E x \in Records' :
               k \in KeysOf(BatchAt(x)') /\ mem'[k] = FieldsAt(BatchAt(x)', k)
  <2>1. CASE k \in KeysOf(writing)
    <3>1. mem'[k] = FieldsAt(writing, k)
      BY <1>1, <1>3, <2>1 DEF Inserted
    <3>2. w \in Records' /\ BatchAt(w)' = writing
      BY <1>2 DEF LogKept
    <3> QED
      BY <2>1, <3>1, <3>2
  <2>2. CASE k \notin KeysOf(writing)
    <3>1. k \in DOMAIN mem /\ mem'[k] = mem[k]
      BY <1>1, <1>3, <2>2 DEF Inserted
    <3>2. PICK x \in Records : k \in KeysOf(BatchAt(x)) /\ mem[k] = FieldsAt(BatchAt(x), k)
      BY <3>1 DEF MemInv
    <3>3. x \in Records' /\ BatchAt(x)' = BatchAt(x)
      BY DEF LogKept
    <3> QED
      BY <3>1, <3>2, <3>3
  <2> QED
    BY <2>1, <2>2
<1> QED
  BY <1>4, <1>5, <1>6 DEF MemInv

LEMMA ReplayedMemIs ==
    ASSUME WInv, FiniteLog, OpenEngine
    PROVE  MemInv'
<1>1. PICK rs \in Deliveries : mem' = ReplayedMem(rs) /\ memRows' = ReplayedRows(rs)
  BY DEF OpenEngine
<1>0. rs \subseteq Records
  BY DEF Deliveries
<1>2. LogKept
  BY UnchangedLog DEF OpenEngine, Open
<1>3. DOMAIN mem' = LoggedKeys(rs)
  BY <1>1 DEF ReplayedMem
<1>9. IsFiniteSet(rs) /\ \A x \in rs : BatchAt(x) \in Batch
  BY <1>0, RecordsAreFinite, FS_Subset
<1>4. IsFiniteSet(LoggedKeys(rs))
  <2> DEFINE f == [x \in rs |-> KeysOf(BatchAt(x))]
             T == {f[x] : x \in rs}
  <2>1. IsFiniteSet(T)
    <3> HIDE DEF f
    <3> QED
      BY <1>9, ImageFinite
  <2>2. \A t \in T : IsFiniteSet(t)
    BY <1>9, BatchRows
  <2>3. LoggedKeys(rs) = UNION T
    BY DEF LoggedKeys
  <2> HIDE DEF T
  <2> QED
    BY <2>1, <2>2, <2>3, FS_UNION
<1>5. DOMAIN mem' = {} => memRows' = 0
  <2> SUFFICES ASSUME LoggedKeys(rs) = {} PROVE ReplayedRows(rs) = 0
    BY <1>1, <1>3
  <2>1. \A x \in rs : KeysOf(BatchAt(x)) = {}
    BY DEF LoggedKeys
  <2>2. \A x \in rs : DOMAIN BatchAt(x).rows = {}
    BY <2>1 DEF KeysOf
  <2>3. UNION {{r} \X DOMAIN BatchAt(r).rows : r \in rs} = {}
    BY <2>2
  <2> QED
    BY <2>3, FS_EmptySet, Zenon DEF ReplayedRows
<1>6. ASSUME NEW k \in LoggedKeys(rs)
      PROVE  \E x \in Records' :
               k \in KeysOf(BatchAt(x)') /\ mem'[k] = FieldsAt(BatchAt(x)', k)
  <2>1. PICK x \in Records : x = NewestRecord(rs, k) /\ k \in KeysOf(BatchAt(x))
    BY <1>0, NewestIs
  <2>2. mem'[k] = FieldsAt(BatchAt(x), k)
    BY <1>1, <2>1 DEF ReplayedMem
  <2> QED
    BY <1>2, <2>1, <2>2 DEF LogKept
<1>7. IsFiniteSet(DOMAIN mem')
  BY <1>3, <1>4, Zenon
<1> QED
  BY <1>3, <1>5, <1>6, <1>7 DEF MemInv

LEMMA MemStep ==
    ASSUME WInv, FiniteLog, MemInv, [EngineNext]_vars
    PROVE  MemInv'
<1>1. up' => LogKept
  BY RecordsStay
<1>2. UNCHANGED walVars => LogKept
  BY UnchangedLog DEF walVars
<1>3. CASE OpenEngine
  BY <1>3, ReplayedMemIs
<1>4. CASE OpenFails \/ UNCHANGED vars
  BY <1>2, <1>4, KeptMem DEF OpenFails, vars, engineVars, memVars
<1>5. CASE CloseEngine
  <2>1. up'
    BY <1>5 DEF CloseEngine, Close, Idle
  <2>2. \/ mem' = <<>> /\ memRows' = 0
        \/ UNCHANGED <<mem, memRows>>
    BY <1>5 DEF CloseEngine, Spill, engineVars, memVars
  <2> QED
    BY <1>1, <2>1, <2>2, EmptiedMem, KeptMem
<1>6. CASE DropEngine \/ CrashEngine
  BY <1>6, EmptiedMem DEF DropEngine, CrashEngine, Gone
<1>7. ASSUME NEW b \in Batch, BeginWrite(b) \/ RefuseWrite(b)
      PROVE  MemInv'
  <2>1. up' /\ UNCHANGED <<mem, memRows>>
    BY <1>7 DEF BeginWrite, RefuseWrite, Admit, memVars, Write, WriteToNewFile,
         WriteToCurrentFile, CreateRefused, CreateFails, RecordFails, FirstRecordFails, Idle
  <2> QED
    BY <1>1, <2>1, KeptMem
<1>8. CASE LogStep
  <2>1. up' /\ UNCHANGED <<mem, memRows>>
    BY <1>8 DEF LogStep, FlushStep, FlushFails, SyncFails, engineVars, memVars, WInv,
         WriterInv, TypeOK
  <2> QED
    BY <1>1, <2>1, KeptMem
<1>9. CASE EndWrite
  <2>1. up'
    BY <1>9 DEF EndWrite, WriteReturns, WInv, WriterInv, TypeOK
  <2> QED
    BY <1>1, <1>9, <2>1, InsertedMem
<1>10. CASE Flush(MaxSize) \/ Flush(1) \/ FlushLosesMem
  BY <1>10, EmptiedMem DEF Flush, Spill, FlushLosesMem
<1>11. CASE Compact \/ CompactWriteFails \/ CompactRemoveFails
  <2>1. UNCHANGED <<mem, memRows>> /\ UNCHANGED walVars
    BY <1>11 DEF Compact, CompactWriteFails, CompactRemoveFails, memVars
  <2> QED
    BY <1>2, <2>1, KeptMem
<1>12. ASSUME NEW s \in AllSeries, Delete(s) \/ DropSeries(s)
       PROVE  MemInv'
  BY <1>12, EmptiedMem DEF Delete, DropSeries, ClearMem
<1>13. CASE DropAllSeries
  BY <1>13, EmptiedMem DEF DropAllSeries, ClearMem
<1>14. ASSUME NEW t \in measurements, DropMeasurement(t)
       PROVE  MemInv'
  BY <1>2, <1>14, KeptMem DEF DropMeasurement, memVars
<1> QED
  BY <1>3, <1>4, <1>5, <1>6, <1>7, <1>8, <1>9, <1>10, <1>11, <1>12, <1>13, <1>14
     DEF EngineNext

----------------------------------------------------------------------------
(* What TSSP files hold *)

IsRowList(rows) ==
    /\ \E n \in Nat \ {0} : DOMAIN rows = 1..n
    /\ \A i \in DOMAIN rows : IsRow(rows[i])

\* A file with rows, whose times the meta e covers.
GoodFile(e, f) ==
    /\ IsRowList(f.rows)
    /\ f.cols \in Int
    /\ e.min \in Int /\ e.max \in Int
    /\ \A i \in DOMAIN f.rows : e.min <= f.rows[i].ts /\ f.rows[i].ts <= e.max

LEMMA NewFileIsGood ==
    ASSUME NEW rows, IsRowList(rows), NEW id
    PROVE  NewFile(rows).rows = rows /\ GoodFile(NewMeta(id, rows), NewFile(rows))
<1>1. PICK n \in Nat \ {0} : DOMAIN rows = 1..n
  BY DEF IsRowList
<1>2. \A i \in 1..n : rows[i].ts \in Int /\ IsFiniteSet(DOMAIN rows[i].fields)
  BY <1>1 DEF IsRowList, IsRow
<1> DEFINE e == NewMeta(id, rows)
           f == NewFile(rows)
<1>3. e.min \in Int /\ e.max \in Int /\ \A i \in 1..n : e.min <= rows[i].ts /\ rows[i].ts <= e.max
  BY <1>1, <1>2, FileTimes
<1>4. f.rows = rows
  BY DEF NewFile
<1>5. f.cols \in Int
  <2>1. Cardinality(DOMAIN rows[1].fields) \in Nat
    BY <1>2, FS_CardinalityType
  <2> DEFINE c == Cardinality(DOMAIN rows[1].fields)
  <2>2. f.cols = 1 + (IF rows[1].tags = NoTags THEN 0 ELSE 1) + c
    BY DEF NewFile
  <2> HIDE DEF c, f
  <2>3. c \in Nat
    BY <2>1 DEF c
  <2> QED
    BY <2>2, <2>3
<1> HIDE DEF e, f
<1>6. GoodFile(e, f)
  BY <1>1, <1>3, <1>4, <1>5 DEF GoodFile
<1> QED
  BY <1>4, <1>6 DEF e, f

\* Decoding keeps the time of a row, and all of it if it keeps its fields.
LEMMA DecodedRows ==
    ASSUME NEW f, IsRowList(f.rows), f.cols \in Int
    PROVE  /\ IsRowList(Decoded(f))
           /\ DOMAIN Decoded(f) = DOMAIN f.rows
           /\ \A i \in DOMAIN f.rows :
                /\ Decoded(f)[i].ts = f.rows[i].ts
                /\ Decoded(f)[i].fields # NoFields => 2 \in ColumnsRead(f)
                /\ 2 \in ColumnsRead(f) => Decoded(f)[i] = f.rows[i]
<1>1. DOMAIN Decoded(f) = DOMAIN f.rows
  BY DEF Decoded
<1>2. ASSUME NEW i \in DOMAIN f.rows
      PROVE  /\ IsRow(Decoded(f)[i])
             /\ Decoded(f)[i].ts = f.rows[i].ts
             /\ Decoded(f)[i].fields # NoFields => 2 \in ColumnsRead(f)
             /\ 2 \in ColumnsRead(f) => Decoded(f)[i] = f.rows[i]
  <2>1. IsRow(f.rows[i])
    BY DEF IsRowList
  <2>2. Decoded(f)[i] =
          [ts     |-> f.rows[i].ts,
           tags   |-> IF 1 \in ColumnsRead(f) THEN f.rows[i].tags ELSE NoTags,
           fields |-> IF 2 \in ColumnsRead(f) THEN f.rows[i].fields ELSE NoFields]
    BY DEF Decoded
  <2>3. 2 \in ColumnsRead(f) => 1 \in ColumnsRead(f)
    BY DEF ColumnsRead
  <2>4. IsFiniteSet(DOMAIN NoFields)
    <3>1. DOMAIN NoFields = {}
      BY DEF NoFields
    <3> QED
      BY <3>1, FS_EmptySet, Zenon
  <2>5. f.rows[i].ts \in Int /\ f.rows[i].tags \in Nat /\ IsFiniteSet(DOMAIN f.rows[i].fields)
        /\ f.rows[i] = [ts |-> f.rows[i].ts, tags |-> f.rows[i].tags, fields |-> f.rows[i].fields]
    BY <2>1 DEF IsRow
  <2>6. Decoded(f)[i].ts \in Int /\ Decoded(f)[i].tags \in Nat
        /\ IsFiniteSet(DOMAIN Decoded(f)[i].fields)
    BY <2>2, <2>4, <2>5 DEF NoTags
  <2>7. IsRow(Decoded(f)[i])
    BY <2>2, <2>6 DEF IsRow
  <2> QED
    BY <2>2, <2>3, <2>5, <2>7
<1> QED
  BY <1>1, <1>2 DEF IsRowList

----------------------------------------------------------------------------
(* What a flush writes *)

MemRow(k) == [ts |-> k.ts, tags |-> k.tags, fields |-> mem[k]]

\* The row r as JSON leaves it.
Stored(r) == [ts |-> r.ts, tags |-> r.tags, fields |-> Json(r.fields)]

InLog(r) == \E x \in Records : \E i \in DOMAIN BatchAt(x).rows : Stored(BatchAt(x).rows[i]) = r

LEMMA StoredIsRow ==
    ASSUME NEW r, IsRow(r)
    PROVE  IsRow(Stored(r)) /\ Stored(r) = [r EXCEPT !.fields = Json(@)]
<1>1. r.ts \in Int /\ r.tags \in Nat /\ IsFiniteSet(DOMAIN r.fields)
      /\ r = [ts |-> r.ts, tags |-> r.tags, fields |-> r.fields]
  BY DEF IsRow
<1>2. IsFiniteSet(DOMAIN NoFields)
  <2>1. DOMAIN NoFields = {}
    BY DEF NoFields
  <2> QED
    BY <2>1, FS_EmptySet, Zenon
<1> DEFINE v == Json(r.fields)
<1>3. v = NoFields \/ v = r.fields
  BY DEF Json
<1>4. [r EXCEPT !.fields = Json(@)] = [r EXCEPT !.fields = v]
  OBVIOUS
<1> HIDE DEF v
<1>5. IsFiniteSet(DOMAIN v)
  BY <1>1, <1>2, <1>3
<1>6. Stored(r) = [ts |-> r.ts, tags |-> r.tags, fields |-> v]
  BY DEF Stored, v
<1>7. [r EXCEPT !.fields = v] = [ts |-> r.ts, tags |-> r.tags, fields |-> v]
  BY <1>1
<1> QED
  BY <1>1, <1>4, <1>5, <1>6, <1>7 DEF IsRow

LEMMA MemRowsAreLogged ==
    ASSUME WInv, FiniteLog, MemInv, NEW k \in DOMAIN mem
    PROVE  IsRow(MemRow(k)) /\ InLog(MemRow(k))
<1>1. PICK x \in Records : k \in KeysOf(BatchAt(x)) /\ mem[k] = FieldsAt(BatchAt(x), k)
  BY DEF MemInv
<1>2. BatchAt(x) \in Batch
  BY RecordsAreFinite
<1>3. PICK i \in DOMAIN BatchAt(x).rows :
        RowKey(BatchAt(x), i) = k /\ FieldsAt(BatchAt(x), k) = Json(BatchAt(x).rows[i].fields)
  BY <1>1, <1>2, BatchRows
<1>4. IsRow(BatchAt(x).rows[i])
  BY <1>2, EngineAssumption
<1>5. Stored(BatchAt(x).rows[i]) = MemRow(k)
  BY <1>1, <1>3 DEF Stored, RowKey, MemRow
<1>6. IsRow(Stored(BatchAt(x).rows[i]))
  BY <1>4, StoredIsRow
<1> QED
  BY <1>5, <1>6 DEF InLog

LEMMA FlushedRows ==
    ASSUME WInv, FiniteLog, MemInv, DOMAIN mem # {}
    PROVE  /\ IsRowList(SortedRows)
           /\ \A i \in DOMAIN SortedRows : \E k \in DOMAIN mem : SortedRows[i] = MemRow(k)
           /\ \A k \in DOMAIN mem : \E i \in DOMAIN SortedRows : SortedRows[i] = MemRow(k)
<1> DEFINE D == DOMAIN mem
           less == {p \in D \X D : KeyLess(p[1], p[2])}
           n == Cardinality(D)
           ks == InOrder(D, less)
<1>1. IsFiniteSet(D) /\ D # {} /\ D \subseteq KeyType
  BY MemKeys DEF MemInv
<1>2. StrictOrder(D, less)
  <2> HIDE DEF D
  <2>1. \A x \in D : x.table \in Nat /\ x.ts \in Int /\ x.tags \in Nat
          /\ x = [table |-> x.table, ts |-> x.ts, tags |-> x.tags]
    BY <1>1 DEF KeyType
  <2>2. \A x \in D : ~KeyLess(x, x)
    BY <2>1 DEF KeyLess
  <2>3. \A x, y, z \in D : KeyLess(x, y) /\ KeyLess(y, z) => KeyLess(x, z)
    BY <2>1 DEF KeyLess
  <2>4. \A x, y \in D : x = y \/ KeyLess(x, y) \/ KeyLess(y, x)
    <3> SUFFICES ASSUME NEW x \in D, NEW y \in D, ~KeyLess(x, y), ~KeyLess(y, x)
                 PROVE  x = y
      OBVIOUS
    <3>1. x.table = y.table /\ x.ts = y.ts /\ x.tags = y.tags
      BY <2>1 DEF KeyLess
    <3> QED
      BY <2>1, <3>1
  <2> QED
    BY <2>2, <2>3, <2>4 DEF StrictOrder
<1>3. n \in Nat /\ ks \in [1..n -> D] /\ \A k \in D : \E i \in 1..n : ks[i] = k
  <2> HIDE DEF D, less
  <2> QED
    BY <1>1, <1>2, InOrderLists
<1>4. n # 0
  BY <1>1, FS_EmptySet
<1>5. SortedRows = [i \in DOMAIN ks |-> MemRow(ks[i])]
  BY DEF SortedRows, MemRow
<1>6. \A k \in D : IsRow(MemRow(k))
  BY MemRowsAreLogged
<1> HIDE DEF D, less, ks, n
<1>7. /\ DOMAIN SortedRows = 1..n
      /\ \A i \in 1..n : ks[i] \in D /\ SortedRows[i] = MemRow(ks[i])
  BY <1>3, <1>5
<1>8. IsRowList(SortedRows)
  BY <1>3, <1>4, <1>6, <1>7 DEF IsRowList
<1>9. \A k \in D : \E i \in 1..n : SortedRows[i] = MemRow(k)
  BY <1>3, <1>7
<1> QED
  BY <1>7, <1>8, <1>9 DEF D

----------------------------------------------------------------------------
(* What a compaction writes *)

FilesGood == \A m \in DOMAIN metas : GoodFile(metas[m], tssp[metas[m].id])

LEMMA CompactedRows ==
    ASSUME FilesInv, FilesGood, NEW unread \in SUBSET DOMAIN metas, unread # DOMAIN metas
    PROVE  /\ IsRowList(MergedRows(unread))
           /\ \A n \in DOMAIN MergedRows(unread) :
                \E m \in DOMAIN metas : \E i \in DOMAIN tssp[metas[m].id].rows :
                  MergedRows(unread)[n] = Decoded(tssp[metas[m].id])[i]
<1> DEFINE In(m) == {<<m, i>> : i \in DOMAIN tssp[metas[m].id].rows}
           M == DOMAIN metas \ unread
           T == {In(m) : m \in M}
           places == UNION T
           row(p) == Decoded(tssp[metas[p[1]].id])[p[2]]
           less(p, q) ==
             \/ row(p).ts < row(q).ts
             \/ row(p).ts = row(q).ts /\ p[1] < q[1]
             \/ row(p).ts = row(q).ts /\ p[1] = q[1] /\ p[2] < q[2]
           pairs == {pq \in places \X places : less(pq[1], pq[2])}
           sorted == InOrder(places, pairs)
           c == Cardinality(places)
<1>1. MergedRows(unread) = [n \in DOMAIN sorted |-> row(sorted[n])]
  BY DEF MergedRows
<1>2. PICK S : metas \in Seq(S)
  BY DEF FilesInv
<1>3. DOMAIN metas = 1..Len(metas) /\ Len(metas) \in Nat
  BY <1>2
<1>4. IsFiniteSet(M)
  <2>1. IsFiniteSet(DOMAIN metas)
    BY <1>3, FS_Interval
  <2>2. M \subseteq DOMAIN metas
    OBVIOUS
  <2> QED
    BY <2>1, <2>2, FS_Subset
<1>5. ASSUME NEW m \in M
      PROVE  /\ m \in Nat
             /\ \E n \in Nat \ {0} : DOMAIN tssp[metas[m].id].rows = 1..n
             /\ \A i \in DOMAIN tssp[metas[m].id].rows : IsRow(Decoded(tssp[metas[m].id])[i])
  BY <1>3, DecodedRows DEF FilesGood, GoodFile, IsRowList
<1>6. ASSUME NEW m \in M PROVE IsFiniteSet(In(m))
  <2> DEFINE D == DOMAIN tssp[metas[m].id].rows
             f == [i \in D |-> <<m, i>>]
  <2>1. IsFiniteSet(D)
    <3>1. PICK n \in Nat \ {0} : D = 1..n
      BY <1>5
    <3>2. IsFiniteSet(1..n)
      BY FS_Interval
    <3> QED
      BY <3>1, <3>2, Zenon
  <2>2. IsFiniteSet({f[i] : i \in D})
    <3> HIDE DEF f, D
    <3> QED
      BY <2>1, ImageFinite
  <2>3. {f[i] : i \in D} = In(m)
    OBVIOUS
  <2> QED
    BY <2>2, <2>3, Zenon
<1>7. IsFiniteSet(T)
  <2> DEFINE g == [m \in M |-> In(m)]
  <2>1. IsFiniteSet({g[m] : m \in M})
    <3> HIDE DEF g, M
    <3> QED
      BY <1>4, ImageFinite
  <2>2. {g[m] : m \in M} = T
    OBVIOUS
  <2> QED
    BY <2>1, <2>2, Zenon
<1>8. IsFiniteSet(places)
  <2>1. \A t \in T : IsFiniteSet(t)
    BY <1>6
  <2> HIDE DEF T
  <2> QED
    BY <1>7, <2>1, FS_UNION
<1>9. ASSUME NEW p \in places
      PROVE  /\ p = <<p[1], p[2]>>
             /\ p[1] \in M /\ p[2] \in DOMAIN tssp[metas[p[1]].id].rows
             /\ p[1] \in Nat /\ p[2] \in Nat
             /\ IsRow(row(p)) /\ row(p).ts \in Int
  <2>1. PICK m \in M : \E i \in DOMAIN tssp[metas[m].id].rows : p = <<m, i>>
    OBVIOUS
  <2>2. PICK i \in DOMAIN tssp[metas[m].id].rows : p = <<m, i>>
    BY <2>1
  <2>3. p[1] = m /\ p[2] = i
    BY <2>2
  <2>4. i \in Nat
    BY <1>5
  <2>5. IsRow(row(p))
    BY <1>5, <2>3
  <2>6. row(p).ts \in Int
    BY <2>5 DEF IsRow
  <2> QED
    BY <1>5, <2>2, <2>3, <2>4, <2>5, <2>6
<1> HIDE DEF places, row
<1>10. StrictOrder(places, pairs)
  <2>1. \A p \in places : ~less(p, p)
    BY <1>9
  <2>2. \A p, q, r \in places : less(p, q) /\ less(q, r) => less(p, r)
    BY <1>9
  <2>3. \A p, q \in places : p = q \/ less(p, q) \/ less(q, p)
    <3> SUFFICES ASSUME NEW p \in places, NEW q \in places, ~less(p, q), ~less(q, p)
                 PROVE  p = q
      OBVIOUS
    <3>1. p[1] = q[1] /\ p[2] = q[2]
      BY <1>9
    <3> QED
      BY <1>9, <3>1
  <2> HIDE DEF less
  <2> QED
    BY <2>1, <2>2, <2>3 DEF StrictOrder
<1>11. c \in Nat /\ sorted \in [1..c -> places]
  <2> HIDE DEF pairs
  <2> QED
    BY <1>8, <1>10, InOrderLists
<1>12. places # {}
  <2>1. PICK m \in M : TRUE
    OBVIOUS
  <2>2. PICK n \in Nat \ {0} : DOMAIN tssp[metas[m].id].rows = 1..n
    BY <1>5
  <2>3. 1 \in DOMAIN tssp[metas[m].id].rows
    BY <2>2
  <2>4. <<m, 1>> \in places
    BY <2>1, <2>3 DEF places
  <2> QED
    BY <2>4
<1>13. c # 0
  BY <1>8, <1>12, FS_EmptySet
<1> HIDE DEF sorted, c
<1>14. /\ DOMAIN MergedRows(unread) = 1..c
       /\ \A n \in 1..c : sorted[n] \in places /\ MergedRows(unread)[n] = row(sorted[n])
  BY <1>1, <1>11
<1>15. IsRowList(MergedRows(unread))
  BY <1>9, <1>11, <1>13, <1>14 DEF IsRowList
<1>16. ASSUME NEW n \in 1..c
       PROVE  \E m \in DOMAIN metas : \E i \in DOMAIN tssp[metas[m].id].rows :
                  MergedRows(unread)[n] = Decoded(tssp[metas[m].id])[i]
  <2> DEFINE p == sorted[n]
  <2>1. p \in places /\ MergedRows(unread)[n] = row(p)
    BY <1>14
  <2>2. p[1] \in DOMAIN metas /\ p[2] \in DOMAIN tssp[metas[p[1]].id].rows
    BY <1>9, <2>1
  <2>3. MergedRows(unread)[n] = Decoded(tssp[metas[p[1]].id])[p[2]]
    BY <2>1 DEF row
  <2> HIDE DEF p
  <2> QED
    BY <2>2, <2>3
<1> QED
  BY <1>14, <1>15, <1>16

----------------------------------------------------------------------------
(* The files that are listed, step by step *)

ListedBefore(n) ==
    \E m \in DOMAIN metas : metas'[n] = metas[m] /\ tssp'[metas[m].id] = tssp[metas[m].id]

Listed(n, rows) == metas'[n] = NewMeta(nextTssp, rows) /\ tssp'[nextTssp] = NewFile(rows)

\* What a flush or a compaction writes.
Written(rows) ==
    \/ rows = SortedRows /\ memRows # 0
    \/ \E unread \in SUBSET DOMAIN metas : unread # DOMAIN metas /\ rows = MergedRows(unread)

LEMMA SpillLists ==
    ASSUME FilesInv, Spill, memRows # 0, NEW n \in DOMAIN metas'
    PROVE  ListedBefore(n) \/ \E rows : Listed(n, rows) /\ Written(rows)
<1>1. /\ metas' = Append(metas, NewMeta(nextTssp, SortedRows))
      /\ tssp' = WithFile(nextTssp, NewFile(SortedRows))
  BY DEF Spill
<1>2. PICK S : metas \in Seq(S)
  BY DEF FilesInv
<1> DEFINE e == NewMeta(nextTssp, SortedRows)
           f == NewFile(SortedRows)
<1> HIDE DEF e, f
<1>3. metas' = Append(metas, e) /\ tssp' = WithFile(nextTssp, f)
  BY <1>1 DEF e, f
<1>4. /\ Len(metas) \in Nat /\ DOMAIN metas = 1..Len(metas)
      /\ DOMAIN metas' = 1..(Len(metas) + 1)
      /\ metas'[Len(metas) + 1] = e
      /\ \A i \in 1..Len(metas) : metas'[i] = metas[i]
  BY <1>2, <1>3
<1>5. CASE n \in DOMAIN metas
  <2>1. metas'[n] = metas[n]
    BY <1>4, <1>5
  <2>2. metas[n].id \in DOMAIN tssp /\ metas[n].id # nextTssp
    BY <1>5 DEF FilesInv
  <2>3. tssp'[metas[n].id] = tssp[metas[n].id]
    BY <1>3, <2>2 DEF WithFile
  <2> QED
    BY <1>5, <2>1, <2>3 DEF ListedBefore
<1>6. CASE n \notin DOMAIN metas
  <2>1. metas'[n] = e
    BY <1>4, <1>6
  <2>2. tssp'[nextTssp] = f
    BY <1>3 DEF WithFile
  <2>3. Listed(n, SortedRows)
    BY <2>1, <2>2 DEF Listed, e, f
  <2> QED
    BY <2>3 DEF Written
<1> QED
  BY <1>5, <1>6

LEMMA CompactLists ==
    ASSUME FilesInv, Compact, NEW n \in DOMAIN metas'
    PROVE  ListedBefore(n) \/ \E rows : Listed(n, rows) /\ Written(rows)
<1>1. CASE UNCHANGED <<metas, tssp>>
  BY <1>1 DEF ListedBefore
<1>2. ASSUME NEW unread \in SUBSET DOMAIN metas, unread # DOMAIN metas,
             tssp' = WithoutFiles(WithFile(nextTssp, NewFile(MergedRows(unread))), MetaIds),
             metas' = <<NewMeta(nextTssp, MergedRows(unread))>>
      PROVE  Listed(n, MergedRows(unread)) /\ Written(MergedRows(unread))
  <2> DEFINE e == NewMeta(nextTssp, MergedRows(unread))
             f == NewFile(MergedRows(unread))
  <2> HIDE DEF e, f
  <2>1. metas' = <<e>> /\ tssp' = WithoutFiles(WithFile(nextTssp, f), MetaIds)
    BY <1>2 DEF e, f
  <2>2. n = 1 /\ metas'[n] = e
    BY <2>1
  <2>3. nextTssp \notin MetaIds
    BY MetaIdsByPlace DEF FilesInv
  <2>4. tssp'[nextTssp] = f
    BY <2>1, <2>3 DEF WithoutFiles, WithFile
  <2>5. Listed(n, MergedRows(unread))
    BY <2>2, <2>4 DEF Listed, e, f
  <2> QED
    BY <1>2, <2>5 DEF Written
<1> QED
  BY <1>1, <1>2 DEF Compact

LEMMA RemovalLists ==
    ASSUME FilesInv, CompactRemoveFails, NEW n \in DOMAIN metas'
    PROVE  ListedBefore(n)
<1>1. PICK k \in DOMAIN metas : metas' = SubSeq(metas, k, Len(metas))
  BY DEF CompactRemoveFails
<1>2. PICK S : metas \in Seq(S)
  BY DEF FilesInv
<1>3. k + n - 1 \in DOMAIN metas /\ metas'[n] = metas[k + n - 1]
  BY <1>1, <1>2
<1>4. metas'[n].id \in MetaIds /\ metas'[n].id \in MetaIds'
  BY <1>3, MetaIdsByPlace DEF MetaIds, ToSet
<1>5. Intact
  BY FilesHalfRemoved
<1>6. tssp'[metas'[n].id] = tssp[metas'[n].id]
  BY <1>4, <1>5 DEF Intact
<1> DEFINE m == k + n - 1
<1>7. m \in DOMAIN metas /\ metas'[n] = metas[m] /\ tssp'[metas[m].id] = tssp[metas[m].id]
  BY <1>3, <1>6
<1> HIDE DEF m
<1> QED
  BY <1>7 DEF ListedBefore

LEMMA StepLists ==
    ASSUME FilesInv, [EngineNext]_vars, NEW n \in DOMAIN metas'
    PROVE  ListedBefore(n) \/ \E rows : Listed(n, rows) /\ Written(rows)
<1>1. CASE UNCHANGED <<metas, tssp>>
  BY <1>1 DEF ListedBefore
<1>2. CASE OpenEngine \/ DropEngine \/ CrashEngine
  BY <1>2 DEF OpenEngine, DropEngine, CrashEngine, Gone
<1>3. CASE CloseEngine
  BY <1>1, <1>3, SpillLists DEF CloseEngine, engineVars, tsspVars
<1>4. CASE Flush(MaxSize) \/ Flush(1)
  <2>1. memRows # 0
    BY <1>4, EngineAssumption DEF Flush
  <2> QED
    BY <1>4, <2>1, SpillLists DEF Flush
<1>5. CASE Compact
  BY <1>5, CompactLists
<1>6. CASE CompactRemoveFails
  BY <1>6, RemovalLists
<1>7. CASE FlushLosesMem \/ CompactWriteFails
  BY <1>1, <1>7 DEF FlushLosesMem, CompactWriteFails
<1>8. ASSUME NEW b \in Batch, BeginWrite(b) \/ RefuseWrite(b)
      PROVE  UNCHANGED <<metas, tssp>>
  BY <1>8 DEF BeginWrite, RefuseWrite, Admit, tsspVars
<1>9. CASE OpenFails \/ LogStep \/ EndWrite \/ UNCHANGED vars
  BY <1>1, <1>9 DEF OpenFails, LogStep, EndWrite, vars, engineVars, tsspVars
<1>10. ASSUME NEW s \in AllSeries, Delete(s) \/ DropSeries(s)
       PROVE  UNCHANGED <<metas, tssp>>
  BY <1>10 DEF Delete, DropSeries, tsspVars
<1>11. CASE DropAllSeries
  BY <1>1, <1>11 DEF DropAllSeries, tsspVars
<1>12. ASSUME NEW t \in measurements, DropMeasurement(t)
       PROVE  UNCHANGED <<metas, tssp>>
  BY <1>12 DEF DropMeasurement, tsspVars
<1> QED
  BY <1>1, <1>2, <1>3, <1>4, <1>5, <1>6, <1>7, <1>8, <1>9, <1>10, <1>11, <1>12
     DEF EngineNext

\* The engine goes on running, or nothing changes, or it is gone.
LEMMA RunningOrGone ==
    ASSUME WInv, [EngineNext]_vars
    PROVE  up' \/ UNCHANGED vars \/ metas' = <<>>
<1>1. CASE OpenEngine \/ CloseEngine
  BY <1>1 DEF OpenEngine, Open, CloseEngine, Close, Idle
<1>2. CASE DropEngine \/ CrashEngine
  BY <1>2 DEF DropEngine, CrashEngine, Gone
<1>3. CASE OpenFails
  BY <1>3 DEF OpenFails
<1>4. ASSUME NEW b \in Batch, BeginWrite(b) \/ RefuseWrite(b)
      PROVE  up'
  BY <1>4 DEF BeginWrite, RefuseWrite, Write, WriteToNewFile,
         WriteToCurrentFile, CreateRefused, CreateFails, RecordFails, FirstRecordFails, Idle
<1>5. CASE LogStep
  BY <1>5 DEF LogStep, FlushStep, FlushFails, SyncFails, WInv, WriterInv
<1>6. CASE EndWrite
  BY <1>6 DEF EndWrite, WriteReturns, WInv, WriterInv
<1>7. CASE Flush(MaxSize) \/ Flush(1) \/ FlushLosesMem
  BY <1>7 DEF Flush, FlushLosesMem, Idle, walVars
<1>8. CASE Compact \/ CompactWriteFails \/ CompactRemoveFails
  BY <1>8 DEF Compact, CompactWriteFails, CompactRemoveFails, Compactable, Idle, walVars
<1>9. ASSUME NEW s \in AllSeries, Delete(s) \/ DropSeries(s)
      PROVE  up'
  BY <1>9 DEF Delete, DropSeries, Dropping, Idle, walVars
<1>10. CASE DropAllSeries
  BY <1>10 DEF DropAllSeries, Dropping, Idle, walVars
<1>11. ASSUME NEW t \in measurements, DropMeasurement(t)
       PROVE  up'
  BY <1>11 DEF DropMeasurement, Dropping, Idle, walVars
<1> QED
  BY <1>1, <1>2, <1>3, <1>4, <1>5, <1>6, <1>7, <1>8, <1>9, <1>10, <1>11 DEF EngineNext

\* What the listed files hold, apart from rows that lost their fields, was
\* logged.
FilesLogged ==
    \A m \in DOMAIN metas : \A i \in DOMAIN tssp[metas[m].id].rows :
      tssp[metas[m].id].rows[i].fields # NoFields => InLog(tssp[metas[m].id].rows[i])

EngineInv == WInv /\ FiniteLog /\ MemInv /\ FilesInv /\ FilesGood /\ FilesLogged

LEMMA WrittenRows ==
    ASSUME EngineInv, NEW rows, Written(rows)
    PROVE  /\ IsRowList(rows)
           /\ \A i \in DOMAIN rows : rows[i].fields # NoFields => InLog(rows[i])
<1> USE DEF EngineInv
<1>1. CASE rows = SortedRows /\ memRows # 0
  <2>1. DOMAIN mem # {}
    BY <1>1 DEF MemInv
  <2> QED
    BY <1>1, <2>1, FlushedRows, MemRowsAreLogged
<1>2. ASSUME NEW unread \in SUBSET DOMAIN metas, unread # DOMAIN metas,
             rows = MergedRows(unread)
      PROVE  /\ IsRowList(rows)
             /\ \A i \in DOMAIN rows : rows[i].fields # NoFields => InLog(rows[i])
  <2>1. /\ IsRowList(rows)
        /\ \A n \in DOMAIN rows :
             \E m \in DOMAIN metas : \E i \in DOMAIN tssp[metas[m].id].rows :
               rows[n] = Decoded(tssp[metas[m].id])[i]
    BY <1>2, CompactedRows
  <2>2. ASSUME NEW n \in DOMAIN rows, rows[n].fields # NoFields PROVE InLog(rows[n])
    <3>1. PICK m \in DOMAIN metas : \E i \in DOMAIN tssp[metas[m].id].rows :
                                       rows[n] = Decoded(tssp[metas[m].id])[i]
      BY <2>1
    <3>2. PICK i \in DOMAIN tssp[metas[m].id].rows : rows[n] = Decoded(tssp[metas[m].id])[i]
      BY <3>1
    <3>3. rows[n] = tssp[metas[m].id].rows[i]
      BY <2>2, <3>2, DecodedRows DEF FilesGood, GoodFile
    <3> QED
      BY <2>2, <3>3 DEF FilesLogged
  <2> QED
    BY <2>1, <2>2
<1> QED
  BY <1>1, <1>2 DEF Written

LEMMA FilesGoodStep ==
    ASSUME EngineInv, [EngineNext]_vars
    PROVE  FilesGood' /\ FilesLogged'
<1> USE DEF EngineInv
<1>1. CASE metas' = <<>>
  BY <1>1 DEF FilesGood, FilesLogged
<1>2. CASE metas' # <<>>
  <2>1. LogKept
    BY <1>2, RunningOrGone, RecordsStay, UnchangedLog DEF vars, walVars
  <2>2. ASSUME NEW n \in DOMAIN metas'
        PROVE  /\ GoodFile(metas'[n], tssp'[metas'[n].id])
               /\ \A i \in DOMAIN tssp'[metas'[n].id].rows :
                    tssp'[metas'[n].id].rows[i].fields # NoFields
                      => InLog(tssp'[metas'[n].id].rows[i])
    <3>1. CASE ListedBefore(n)
      <4>1. PICK m \in DOMAIN metas : metas'[n] = metas[m]
                                      /\ tssp'[metas[m].id] = tssp[metas[m].id]
        BY <3>1 DEF ListedBefore
      <4> QED
        BY <4>1 DEF FilesGood, FilesLogged
    <3>2. ASSUME NEW rows, Listed(n, rows), Written(rows)
          PROVE  /\ GoodFile(metas'[n], tssp'[metas'[n].id])
                 /\ \A i \in DOMAIN tssp'[metas'[n].id].rows :
                      tssp'[metas'[n].id].rows[i].fields # NoFields
                        => InLog(tssp'[metas'[n].id].rows[i])
      <4>1. metas'[n].id = nextTssp
        BY <3>2 DEF Listed, NewMeta
      <4>2. metas'[n] = NewMeta(nextTssp, rows) /\ tssp'[metas'[n].id] = NewFile(rows)
        BY <3>2, <4>1 DEF Listed
      <4>3. /\ IsRowList(rows)
            /\ \A i \in DOMAIN rows : rows[i].fields # NoFields => InLog(rows[i])
        BY <3>2, WrittenRows
      <4>4. NewFile(rows).rows = rows /\ GoodFile(NewMeta(nextTssp, rows), NewFile(rows))
        BY <4>3, NewFileIsGood
      <4> QED
        BY <4>2, <4>3, <4>4
    <3> QED
      BY <3>1, <3>2, StepLists
  <2>3. ASSUME NEW r, InLog(r) PROVE InLog(r)'
    BY <2>1, <2>3 DEF InLog, LogKept
  <2> QED
    BY <2>2, <2>3 DEF FilesGood, FilesLogged
<1> QED
  BY <1>1, <1>2

LEMMA EngineInvStep == EngineInv /\ [EngineNext]_vars => EngineInv'
<1> SUFFICES ASSUME EngineInv, [EngineNext]_vars PROVE EngineInv'
  OBVIOUS
<1>1. WInv' /\ FiniteLog' /\ MemInv' /\ FilesInv'
  BY EngineStepIsWalStep, WriterStep, LogStaysFinite, MemStep, FilesStep DEF EngineInv
<1>2. FilesGood' /\ FilesLogged'
  BY FilesGoodStep
<1> QED
  BY <1>1, <1>2 DEF EngineInv

LEMMA EngineInvInit == EngineInit => EngineInv
<1> SUFFICES ASSUME EngineInit PROVE EngineInv
  OBVIOUS
<1>1. WInv
  BY WriterInitially DEF EngineInit
<1>2. /\ files = <<>> /\ mem = <<>> /\ memRows = 0
      /\ metas = <<>> /\ nextTssp = 1
  BY DEF EngineInit, Init
<1>3. DOMAIN files = {} /\ DOMAIN mem = {} /\ DOMAIN metas = {} /\ metas \in Seq({})
  BY <1>2
<1>4. FiniteLog /\ IsFiniteSet(DOMAIN mem)
  BY <1>3, FS_EmptySet, Zenon DEF FiniteLog
<1>5. MemInv
  BY <1>2, <1>3, <1>4 DEF MemInv
<1>6. FilesInv /\ FilesGood /\ FilesLogged
  BY <1>2, <1>3 DEF FilesInv, FilesGood, FilesLogged
<1> QED
  BY <1>1, <1>4, <1>5, <1>6 DEF EngineInv

LEMMA EngineInvariant == EngineSpec => []EngineInv
BY EngineInvInit, EngineInvStep, PTL DEF EngineSpec

\* Whatever the memtable and the listed files hold is in the log, as JSON leaves
\* it, so that a restart, which forgets the files, loses nothing that could be
\* read unless replay cannot reach the record behind what a failed write left: a
\* flush and a compaction write what was logged, an emptied memtable and a
\* failed compaction leave what was (write, flush, compact_files, Engine::new).
THEOREM MemoryWithinLog == EngineSpec => []NothingBeyondLog
<1>1. EngineInv => NothingBeyondLog
  <2> SUFFICES ASSUME EngineInv PROVE NothingBeyondLog
    OBVIOUS
  <2> DEFINE logged == UNION {{[table |-> BatchAt(x).table,
                                row |-> [BatchAt(x).rows[i] EXCEPT !.fields = Json(@)]] :
                                  i \in DOMAIN BatchAt(x).rows} : x \in Records}
  <2>0. ASSUME NEW x \in Records, NEW i \in DOMAIN BatchAt(x).rows
        PROVE  [table |-> BatchAt(x).table, row |-> Stored(BatchAt(x).rows[i])] \in logged
    <3>1. BatchAt(x) \in Batch
      BY RecordsAreFinite DEF EngineInv
    <3>2. IsRow(BatchAt(x).rows[i])
      BY <3>1, EngineAssumption
    <3>3. Stored(BatchAt(x).rows[i]) = [BatchAt(x).rows[i] EXCEPT !.fields = Json(@)]
      BY ONLY <3>2, StoredIsRow
    <3> QED
      BY <3>3
  <2>1. ASSUME NEW k \in DOMAIN mem
        PROVE  [table |-> k.table, row |-> MemRow(k)] \in logged
    <3>1. PICK x \in Records : k \in KeysOf(BatchAt(x)) /\ mem[k] = FieldsAt(BatchAt(x), k)
      BY DEF EngineInv, MemInv
    <3>2. BatchAt(x) \in Batch
      BY RecordsAreFinite DEF EngineInv
    <3>3. PICK i \in DOMAIN BatchAt(x).rows :
            RowKey(BatchAt(x), i) = k /\ FieldsAt(BatchAt(x), k) = Json(BatchAt(x).rows[i].fields)
      BY <3>1, <3>2, BatchRows
    <3>4. Stored(BatchAt(x).rows[i]) = MemRow(k) /\ BatchAt(x).table = k.table
      BY <3>1, <3>3 DEF Stored, RowKey, MemRow
    <3>5. [table |-> BatchAt(x).table, row |-> Stored(BatchAt(x).rows[i])] \in logged
      BY <2>0
    <3> HIDE DEF logged
    <3> QED
      BY <3>4, <3>5
  <2>2. ASSUME NEW m \in ToSet(metas), NEW r \in LiveRows(m), r.fields # NoFields
        PROVE  \E l \in logged : l.row = r
    <3>1. PICK n \in DOMAIN metas : m = metas[n]
      BY DEF ToSet
    <3>2. PICK i \in DOMAIN Decoded(tssp[m.id]) : r = Decoded(tssp[m.id])[i]
      BY DEF LiveRows, ToSet
    <3>3. IsRowList(tssp[m.id].rows) /\ tssp[m.id].cols \in Int
      BY <3>1 DEF EngineInv, FilesGood, GoodFile
    <3>4. i \in DOMAIN tssp[m.id].rows /\ r = tssp[m.id].rows[i]
      BY <2>2, <3>2, <3>3, DecodedRows
    <3>5. InLog(r)
      BY <2>2, <3>1, <3>4 DEF EngineInv, FilesLogged
    <3>6. PICK x \in Records : \E j \in DOMAIN BatchAt(x).rows : Stored(BatchAt(x).rows[j]) = r
      BY <3>5 DEF InLog
    <3>7. PICK j \in DOMAIN BatchAt(x).rows : Stored(BatchAt(x).rows[j]) = r
      BY <3>6
    <3>8. [table |-> BatchAt(x).table, row |-> Stored(BatchAt(x).rows[j])] \in logged
      BY <2>0
    <3> HIDE DEF logged
    <3>9. [table |-> BatchAt(x).table, row |-> r] \in logged
      BY <3>7, <3>8
    <3> QED
      BY <3>9
  <2> HIDE DEF logged
  <2>3. /\ \A k \in DOMAIN mem : [table |-> k.table, row |-> MemRow(k)] \in logged
        /\ \A m \in ToSet(metas) : \A r \in LiveRows(m) :
             r.fields # NoFields => \E l \in logged : l.row = r
    BY <2>1, <2>2
  <2> QED
    BY <2>3 DEF NothingBeyondLog, logged, MemRow
<1> QED
  BY <1>1, EngineInvariant, PTL

\* Every listed file exists, once, is not empty and holds rows only of the time
\* range its meta gives: no row is skipped by the range test of read_files
\* (TsspWriter, compact_files, remove_file).
THEOREM MetasAreAccurate == EngineSpec => []MetasAccurate
<1>1. EngineInv => MetasAccurate
  <2> SUFFICES ASSUME EngineInv PROVE MetasAccurate
    OBVIOUS
  <2> USE DEF EngineInv
  <2>1. PICK S : metas \in Seq(S)
    BY DEF FilesInv
  <2>2. Cardinality(MetaIds) = Len(metas)
    <3> DEFINE n == Len(metas)
               f == [i \in 1..n |-> metas[i].id]
    <3>1. n \in Nat /\ DOMAIN metas = 1..n
      BY <2>1
    <3>2. MetaIds = {metas[i].id : i \in 1..n}
      BY <3>1, MetaIdsByPlace
    <3>3. \A i, j \in 1..n : f[i] = f[j] => i = j
      BY <3>1 DEF FilesInv
    <3> HIDE DEF n
    <3>4. f \in [1..n -> MetaIds] /\ \A e \in MetaIds : \E i \in 1..n : f[i] = e
      BY <3>2
    <3> HIDE DEF f
    <3>5. f \in Bijection(1..n, MetaIds)
      <4>1. f \in {g \in [1..n -> MetaIds] : \A i, j \in 1..n : g[i] = g[j] => i = j}
        BY <3>3, <3>4, Zenon
      <4>2. f \in {g \in [1..n -> MetaIds] : \A e \in MetaIds : \E i \in 1..n : g[i] = e}
        BY <3>4, Zenon
      <4> QED
        BY <4>1, <4>2 DEF Bijection, Injection, IsInjective, Surjection
    <3>6. IsFiniteSet(1..n) /\ Cardinality(1..n) = n
      BY <3>1, FS_Interval
    <3>7. Cardinality(MetaIds) = Cardinality(1..n)
      BY <3>5, <3>6, FS_Bijection DEF ExistsBijection
    <3> QED
      BY <3>6, <3>7 DEF n
  <2>3. ASSUME NEW m \in ToSet(metas)
        PROVE  /\ m.id \in DOMAIN tssp
               /\ m.id < nextTssp
               /\ tssp[m.id].rows # <<>>
               /\ \A r \in ToSet(tssp[m.id].rows) : m.min <= r.ts /\ r.ts <= m.max
    <3>1. PICK n \in DOMAIN metas : m = metas[n]
      BY DEF ToSet
    <3>2. m.id \in DOMAIN tssp /\ m.id < nextTssp
      BY <3>1 DEF FilesInv
    <3>3. GoodFile(m, tssp[m.id])
      BY <3>1 DEF FilesGood
    <3>4. tssp[m.id].rows # <<>>
      <4>1. PICK c \in Nat \ {0} : DOMAIN tssp[m.id].rows = 1..c
        BY <3>3 DEF GoodFile, IsRowList
      <4>2. 1 \in DOMAIN tssp[m.id].rows /\ DOMAIN <<>> = {}
        BY <4>1
      <4> QED
        BY <4>2
    <3>5. \A r \in ToSet(tssp[m.id].rows) : m.min <= r.ts /\ r.ts <= m.max
      BY <3>3 DEF GoodFile, ToSet
    <3> QED
      BY <3>2, <3>4, <3>5
  <2> QED
    BY <2>2, <2>3 DEF MetasAccurate
<1> QED
  BY <1>1, EngineInvariant, PTL

----------------------------------------------------------------------------
(* Reading what was acknowledged *)

RowAt(k, v) == [ts |-> k.ts, tags |-> k.tags, fields |-> v]

\* The fields v are at the key k in a record not older than what the entry e
\* acknowledges.
NoOlder(e, k, v) ==
    \E x \in Records : ~Before(x, e) /\ k \in KeysOf(BatchAt(x)) /\ FieldsAt(BatchAt(x), k) = v

\* A listed file gives the row r back.
InFiles(r) == \E m \in DOMAIN metas : r \in ToSet(Decoded(tssp[metas[m].id]))

\* The memtable has such fields, or it has none and a listed file has.
Served(e, k) ==
    \E v : /\ NoOlder(e, k, v)
           /\ IF k \in DOMAIN mem THEN mem[k] = v ELSE InFiles(RowAt(k, v))

FreshInv == up /\ ~holed => \A e \in acked : \A k \in KeysOf(e.batch) \ hidden : Served(e, k)

LEMMA NoOlderStays ==
    ASSUME LogKept, NEW e, NEW k, NEW v, NoOlder(e, k, v)
    PROVE  NoOlder(e, k, v)'
BY DEF LogKept, NoOlder

\* What is served stays served when the memtable, the files and hidden stay.
LEMMA FreshKept ==
    ASSUME FreshInv, LogKept, UNCHANGED <<mem, hidden, metas, tssp, acked>>,
           up' => up, holed => holed'
    PROVE  FreshInv'
<1> SUFFICES ASSUME up', ~holed', NEW e \in acked', NEW k \in KeysOf(e.batch) \ hidden'
             PROVE  Served(e, k)'
  BY DEF FreshInv
<1>1. PICK v : /\ NoOlder(e, k, v)
               /\ IF k \in DOMAIN mem THEN mem[k] = v ELSE InFiles(RowAt(k, v))
  BY DEF FreshInv, Served
<1>2. NoOlder(e, k, v)'
  BY <1>1, NoOlderStays
<1>3. InFiles(RowAt(k, v))' <=> InFiles(RowAt(k, v))
  BY DEF InFiles, RowAt
<1> QED
  BY <1>1, <1>2, <1>3 DEF Served

\* The keys of an emptied memtable are hidden.
LEMMA FreshEmptied ==
    ASSUME FreshInv, LogKept, UNCHANGED <<metas, tssp, acked>>,
           mem' = <<>>, hidden' = hidden \cup DOMAIN mem,
           up' => up, holed => holed'
    PROVE  FreshInv'
<1> SUFFICES ASSUME up', ~holed', NEW e \in acked', NEW k \in KeysOf(e.batch) \ hidden'
             PROVE  Served(e, k)'
  BY DEF FreshInv
<1>1. PICK v : NoOlder(e, k, v) /\ InFiles(RowAt(k, v))
  BY DEF FreshInv, Served
<1>2. NoOlder(e, k, v)'
  BY <1>1, NoOlderStays
<1>3. InFiles(RowAt(k, v))'
  BY <1>1 DEF InFiles, RowAt
<1> QED
  BY <1>2, <1>3 DEF Served

LEMMA FreshSpilled ==
    ASSUME EngineInv, FreshInv, LogKept, Spill, DOMAIN mem # {}, UNCHANGED acked,
           up' => up, holed => holed'
    PROVE  FreshInv'
<1> DEFINE e0 == NewMeta(nextTssp, SortedRows)
           f0 == NewFile(SortedRows)
<1> USE DEF EngineInv
<1>1. /\ metas' = Append(metas, e0) /\ tssp' = WithFile(nextTssp, f0)
      /\ mem' = <<>>
      /\ hidden' = IF 2 \in ColumnsRead(f0) THEN hidden ELSE hidden \cup DOMAIN mem
  BY DEF Spill
<1>2. PICK S : metas \in Seq(S)
  BY DEF FilesInv
<1>3. /\ IsRowList(SortedRows)
      /\ \A k \in DOMAIN mem : \E i \in DOMAIN SortedRows : SortedRows[i] = MemRow(k)
  BY FlushedRows
<1>4. f0.rows = SortedRows
  BY <1>3, NewFileIsGood
<1>5. e0.id = nextTssp
  BY DEF NewMeta
<1> HIDE DEF e0, f0
<1>6. /\ Len(metas) \in Nat /\ DOMAIN metas = 1..Len(metas)
      /\ DOMAIN metas' = 1..(Len(metas) + 1)
      /\ metas'[Len(metas) + 1] = e0
      /\ \A i \in 1..Len(metas) : metas'[i] = metas[i]
  BY <1>1, <1>2
<1>7. ASSUME NEW r, InFiles(r) PROVE InFiles(r)'
  <2>1. PICK m \in DOMAIN metas : r \in ToSet(Decoded(tssp[metas[m].id]))
    BY <1>7 DEF InFiles
  <2>2. m \in DOMAIN metas' /\ metas'[m] = metas[m]
    BY <1>6
  <2>3. metas[m].id \in DOMAIN tssp /\ metas[m].id # nextTssp
    BY DEF FilesInv
  <2>4. tssp'[metas'[m].id] = tssp[metas[m].id]
    BY <1>1, <2>2, <2>3 DEF WithFile
  <2>5. r \in ToSet(Decoded(tssp'[metas'[m].id]))
    BY <2>1, <2>4
  <2> QED
    BY <2>2, <2>5 DEF InFiles, Decoded, ColumnsRead
<1>8. ASSUME NEW k \in DOMAIN mem, NEW r, r = MemRow(k), 2 \in ColumnsRead(f0)
      PROVE  InFiles(r)'
  <2>1. PICK i \in DOMAIN f0.rows : f0.rows[i] = r
    BY <1>3, <1>4, <1>8
  <2>2. PICK n \in DOMAIN metas' : metas'[n] = e0
    BY <1>6
  <2>3. tssp'[metas'[n].id] = f0
    BY <1>1, <1>5, <2>2 DEF WithFile
  <2>4. i \in DOMAIN Decoded(f0) /\ Decoded(f0)[i] = r
    <3>1. IsRowList(f0.rows) /\ f0.cols \in Int
      BY <1>3, <1>4, NewFileIsGood DEF GoodFile, f0
    <3> QED
      BY <1>8, <2>1, <3>1, DecodedRows
  <2>5. r \in ToSet(Decoded(tssp'[metas'[n].id]))
    BY <2>3, <2>4 DEF ToSet
  <2> QED
    BY <2>2, <2>5 DEF InFiles, Decoded, ColumnsRead
<1> SUFFICES ASSUME up', ~holed', NEW e \in acked', NEW k \in KeysOf(e.batch) \ hidden'
             PROVE  Served(e, k)'
  BY DEF FreshInv
<1>9. PICK v : /\ NoOlder(e, k, v)
               /\ IF k \in DOMAIN mem THEN mem[k] = v ELSE InFiles(RowAt(k, v))
  BY <1>1 DEF FreshInv, Served
<1>10. NoOlder(e, k, v)'
  BY <1>9, NoOlderStays
<1>11. k \in DOMAIN mem => 2 \in ColumnsRead(f0)
  BY <1>1
<1>12. InFiles(RowAt(k, v))'
  <2>1. CASE k \in DOMAIN mem
    <3>1. RowAt(k, v) = MemRow(k)
      BY <1>9, <2>1 DEF RowAt, MemRow
    <3> QED
      BY <1>8, <1>11, <2>1, <3>1
  <2>2. CASE k \notin DOMAIN mem
    BY <1>7, <1>9, <2>2
  <2> QED
    BY <2>1, <2>2
<1>13. DOMAIN mem' = {}
  BY <1>1
<1> QED
  BY <1>10, <1>12, <1>13 DEF Served

\* A compaction that hides the keys of the rows it does not give back: rs are
\* the rows that can be read from the files it leaves.
LEMMA FreshRewritten ==
    ASSUME EngineInv, FreshInv, UNCHANGED <<walVars, mem>>,
           NEW rs, hidden' = hidden \cup LostKeys(rs),
           \A r \in rs : InFiles(r)'
    PROVE  FreshInv'
<1> USE DEF EngineInv
<1>1. LogKept
  BY UnchangedLog DEF walVars
<1> SUFFICES ASSUME up', ~holed', NEW e \in acked', NEW k \in KeysOf(e.batch) \ hidden'
             PROVE  Served(e, k)'
  BY DEF FreshInv
<1>2. up /\ ~holed /\ e \in acked
  BY DEF walVars
<1>3. PICK v : /\ NoOlder(e, k, v)
               /\ IF k \in DOMAIN mem THEN mem[k] = v ELSE InFiles(RowAt(k, v))
  BY <1>2 DEF FreshInv, Served
<1>4. NoOlder(e, k, v)'
  BY <1>1, <1>3, NoOlderStays
<1>5. CASE k \in DOMAIN mem
  BY <1>3, <1>4, <1>5 DEF Served
<1>6. CASE k \notin DOMAIN mem
  <2> DEFINE r == RowAt(k, v)
  <2>1. r.ts = k.ts /\ r.tags = k.tags
    BY DEF RowAt
  <2>3. k \in AllKeys
    <3>1. e.batch \in Batch
      BY <1>2 DEF WInv, TypeOK, Entry
    <3> QED
      BY <3>1 DEF AllKeys
  <2>4. PICK m \in DOMAIN metas : r \in ToSet(Decoded(tssp[metas[m].id]))
    BY <1>3, <1>6 DEF InFiles
  <2> DEFINE readable == UNION {ToSet(Decoded(tssp[id])) : id \in MetaIds}
  <2>5. r \in readable
    <3>1. metas[m].id \in MetaIds
      BY MetaIdsByPlace
    <3> QED
      BY <2>4, <3>1
  <2>6. k \notin KeysLike(readable \ rs)
    BY <1>6 DEF LostKeys
  <2> HIDE DEF r, readable
  <2>7. r \in rs
    BY <2>1, <2>3, <2>5, <2>6 DEF KeysLike
  <2>8. InFiles(r)'
    BY <2>7
  <2> QED
    BY <1>4, <1>6, <2>8 DEF Served, r
<1> QED
  BY <1>5, <1>6

LEMMA FreshCompacted ==
    ASSUME EngineInv, FreshInv, Compact
    PROVE  FreshInv'
<1> USE DEF EngineInv
<1>1. UNCHANGED <<walVars, mem>>
  BY DEF Compact
<1>2. CASE UNCHANGED <<metas, tssp, hidden>>
  BY <1>1, <1>2, UnchangedLog, FreshKept DEF walVars
<1>3. ASSUME NEW unread \in SUBSET DOMAIN metas, unread # DOMAIN metas,
             NEW f, f = NewFile(MergedRows(unread)),
             NEW e, e = NewMeta(nextTssp, MergedRows(unread)),
             tssp' = WithoutFiles(WithFile(nextTssp, f), MetaIds),
             metas' = <<e>>,
             hidden' = hidden \cup LostKeys(ToSet(Decoded(f)))
      PROVE  FreshInv'
  <2>3. e.id = nextTssp
    BY <1>3 DEF NewMeta
  <2>4. nextTssp \notin MetaIds
    BY MetaIdsByPlace DEF FilesInv
  <2>5. 1 \in DOMAIN metas' /\ tssp'[metas'[1].id] = f
    BY <1>3, <2>3, <2>4 DEF WithoutFiles, WithFile
  <2>6. ASSUME NEW r \in ToSet(Decoded(f)) PROVE InFiles(r)'
    BY <2>5 DEF InFiles, Decoded, ColumnsRead
  <2> DEFINE rs == ToSet(Decoded(f))
  <2>7. hidden' = hidden \cup LostKeys(rs) /\ \A r \in rs : InFiles(r)'
    BY <1>3, <2>6
  <2> HIDE DEF rs
  <2> QED
    BY <1>1, <2>7, FreshRewritten
<1> QED
  BY <1>2, <1>3 DEF Compact

LEMMA FreshHalfRemoved ==
    ASSUME EngineInv, FreshInv, CompactRemoveFails
    PROVE  FreshInv'
<1> USE DEF EngineInv
<1>1. UNCHANGED <<walVars, mem>>
  BY DEF CompactRemoveFails
<1>2. hidden' = hidden \cup LostKeys(UNION {ToSet(Decoded(tssp[m.id])) : m \in ToSet(metas')})
  BY DEF CompactRemoveFails
<1> DEFINE rs == UNION {ToSet(Decoded(tssp[m.id])) : m \in ToSet(metas')}
<1>3. ASSUME NEW r \in rs PROVE InFiles(r)'
  <2>1. PICK n \in DOMAIN metas' : r \in ToSet(Decoded(tssp[metas'[n].id]))
    BY DEF ToSet
  <2>2. PICK m \in DOMAIN metas : metas'[n] = metas[m]
                                  /\ tssp'[metas[m].id] = tssp[metas[m].id]
    BY RemovalLists DEF ListedBefore
  <2>3. r \in ToSet(Decoded(tssp'[metas'[n].id]))
    BY <2>1, <2>2
  <2> QED
    BY <2>3 DEF InFiles, Decoded, ColumnsRead
<1>4. hidden' = hidden \cup LostKeys(rs) /\ \A r \in rs : InFiles(r)'
  BY <1>2, <1>3
<1> QED
  BY <1>1, <1>4, FreshRewritten

LEMMA FreshInserted ==
    ASSUME EngineInv, FreshInv, OrderInv, OrderInv', LogKept, EndWrite
    PROVE  FreshInv'
<1> USE DEF EngineInv
<1>1. /\ writing # None /\ current.pend = <<>>
      /\ mem' = Inserted(mem, writing)
      /\ hidden' = hidden \ KeysOf(writing)
      /\ UNCHANGED <<metas, tssp, up, holed>>
  BY DEF EndWrite, WriteReturns, tsspVars
<1>2. PICK new : /\ acked' = acked \cup {new}
                 /\ new.no = acks + 1 /\ new.batch = writing
                 /\ new.id = current.id /\ new.pos = current.offset
  <2> DEFINE new == [no |-> acks + 1, id |-> current.id, pos |-> current.offset,
                     batch |-> writing, sound |-> Sound(files[current.id], current.offset)]
  <2>1. /\ acked' = acked \cup {new}
        /\ new.no = acks + 1 /\ new.batch = writing
        /\ new.id = current.id /\ new.pos = current.offset
    BY DEF EndWrite, WriteReturns
  <2> HIDE DEF new
  <2> QED
    BY <2>1
<1>3. PICK w \in Records : BatchAt(w) = writing /\ w.id = new.id /\ w.pos = new.pos
  <2> DEFINE w == [id |-> current.id, pos |-> current.offset]
  <2>1. w \in Records /\ BatchAt(w) = writing
    BY <1>1, WrittenRecord
  <2>2. w.id = new.id /\ w.pos = new.pos
    BY <1>2
  <2> HIDE DEF w
  <2> QED
    BY <2>1, <2>2
<1>4. w \in Records' /\ BatchAt(w)' = writing
  BY <1>3 DEF LogKept
<1>5. \A k \in KeysOf(writing) : k \in DOMAIN mem' /\ mem'[k] = FieldsAt(writing, k)
  BY <1>1 DEF Inserted
<1>6. \A k : k \notin KeysOf(writing) =>
        (k \in DOMAIN mem' <=> k \in DOMAIN mem) /\ (k \in DOMAIN mem => mem'[k] = mem[k])
  BY <1>1 DEF Inserted
<1> SUFFICES ASSUME up', ~holed', NEW e \in acked', NEW k \in KeysOf(e.batch) \ hidden'
             PROVE  Served(e, k)'
  BY DEF FreshInv
<1>7. CASE k \in KeysOf(writing)
  <2>1. ~Before(w, e)
    <3>1. w.id \in Nat /\ w.pos \in Nat
      BY RecordsAreFinite
    <3>2. CASE e = new
      BY <1>3, <3>1, <3>2 DEF Before
    <3>3. CASE e \in acked
      <4>1. e.no <= acks /\ e.no \in Nat /\ acks \in Nat /\ e.id \in Nat /\ e.pos \in Nat
        BY <3>3 DEF OrderInv, WInv, TypeOK, Entry
      <4>2. e.no < new.no
        BY <1>2, <4>1
      <4>3. Before(e, new)
        BY <1>2, <4>2 DEF OrderInv, AckOrder
      <4>4. Before(e, w)
        BY <1>3, <4>3 DEF Before
      <4> QED
        BY <3>1, <4>1, <4>4 DEF Before
    <3> QED
      BY <1>2, <3>2, <3>3
  <2>2. PICK u : u = FieldsAt(writing, k)
    OBVIOUS
  <2>3. NoOlder(e, k, u)'
    BY <1>4, <1>7, <2>1, <2>2 DEF NoOlder
  <2>4. k \in DOMAIN mem' /\ mem'[k] = u
    BY <1>5, <1>7, <2>2
  <2> QED
    BY <2>3, <2>4 DEF Served
<1>8. CASE k \notin KeysOf(writing)
  <2>1. e \in acked /\ k \notin hidden
    BY <1>1, <1>2, <1>8
  <2>2. PICK v : /\ NoOlder(e, k, v)
                 /\ IF k \in DOMAIN mem THEN mem[k] = v ELSE InFiles(RowAt(k, v))
    BY <1>1, <2>1 DEF FreshInv, Served
  <2>3. NoOlder(e, k, v)'
    BY <2>2, NoOlderStays
  <2>4. InFiles(RowAt(k, v))' <=> InFiles(RowAt(k, v))
    BY <1>1 DEF InFiles, RowAt
  <2> QED
    BY <1>6, <1>8, <2>2, <2>3, <2>4 DEF Served
<1> QED
  BY <1>7, <1>8

LEMMA FreshReplayed ==
    ASSUME EngineInv, DurInv, OpenEngine
    PROVE  FreshInv'
<1> USE DEF EngineInv
<1>1. PICK rs \in Deliveries : mem' = ReplayedMem(rs) /\ hidden' = SkippedKeys(rs)
  BY DEF OpenEngine
<1>0. rs \subseteq Records /\ UNCHANGED <<files, acked>>
  BY DEF OpenEngine, Open, Deliveries
<1>2. LogKept
  BY <1>0, UnchangedLog
<1> SUFFICES ASSUME NEW e \in acked, NEW k \in KeysOf(e.batch) \ SkippedKeys(rs)
             PROVE  Served(e, k)'
  BY <1>0, <1>1 DEF FreshInv
<1>3. PICK x \in Records : x.id = e.id /\ x.pos = e.pos /\ BatchAt(x) = e.batch
  <2> DEFINE x == [id |-> e.id, pos |-> e.pos]
  <2>1. /\ e.id \in DOMAIN files /\ e.pos \in 1..Len(files[e.id].recs)
        /\ files[e.id].recs[e.pos] = e.batch
    BY DEF DurInv, Kept
  <2>2. DOMAIN files[e.id].recs = 1..Len(files[e.id].recs)
    BY <2>1 DEF WInv, TypeOK, FilesTyped, DiskFile
  <2>3. x \in Records /\ BatchAt(x) = e.batch /\ x.id = e.id /\ x.pos = e.pos
    BY <2>1, <2>2 DEF Records, BatchAt
  <2> HIDE DEF x
  <2> QED
    BY <2>3
\* Replay has read the record itself, or a newer one with the key.
<1>11. PICK y \in rs : k \in KeysOf(BatchAt(y)) /\ (y = x \/ Before(x, y))
  BY <1>3 DEF SkippedKeys
<1>4. k \in LoggedKeys(rs)
  BY <1>11 DEF LoggedKeys
<1>5. PICK n \in rs : /\ n = NewestRecord(rs, k)
                      /\ k \in KeysOf(BatchAt(n))
                      /\ ~Before(n, y)
  BY <1>0, <1>4, <1>11, NewestIs
<1>12. ~Before(n, x)
  <2>1. /\ n.id \in Nat /\ n.pos \in Nat /\ x.id \in Nat /\ x.pos \in Nat
        /\ y.id \in Nat /\ y.pos \in Nat
    BY <1>0, RecordsAreFinite
  <2> QED
    BY <1>5, <1>11, <2>1 DEF Before
<1>6. ~Before(n, e)
  BY <1>3, <1>12 DEF Before
<1>7. PICK v : v = FieldsAt(BatchAt(n), k)
  OBVIOUS
<1>8. NoOlder(e, k, v)
  BY <1>0, <1>5, <1>6, <1>7 DEF NoOlder
<1>9. NoOlder(e, k, v)'
  BY <1>2, <1>8, NoOlderStays
<1>10. k \in DOMAIN mem' /\ mem'[k] = v
  BY <1>1, <1>4, <1>5, <1>7 DEF ReplayedMem
<1> QED
  BY <1>9, <1>10 DEF Served

LEMMA FreshStep ==
    ASSUME EngineInv, DurInv, OrderInv, OrderInv', FreshInv,
           [EngineNext]_vars
    PROVE  FreshInv'
<1> USE DEF EngineInv
<1>1. up' => LogKept
  BY RecordsStay
<1>2. UNCHANGED walVars => LogKept
  BY UnchangedLog DEF walVars
<1>3. CASE OpenEngine
  BY <1>3, FreshReplayed
<1>4. CASE OpenFails \/ UNCHANGED vars
  BY <1>2, <1>4, FreshKept DEF OpenFails, vars, engineVars, memVars, tsspVars, walVars
<1>5. CASE CloseEngine
  <2>1. up' /\ up /\ UNCHANGED <<acked, holed>>
    BY <1>5 DEF CloseEngine, Close, Idle
  <2>2. CASE UNCHANGED engineVars
    BY <1>1, <2>1, <2>2, FreshKept DEF engineVars, memVars, tsspVars
  <2>3. CASE memRows > 0 /\ Spill
    <3>1. memRows # 0
      BY <2>3
    <3>2. DOMAIN mem # {}
      BY <3>1 DEF MemInv
    <3> QED
      BY <1>1, <2>1, <2>3, <3>2, FreshSpilled
  <2> QED
    BY <1>5, <2>2, <2>3 DEF CloseEngine
<1>6. CASE DropEngine \/ CrashEngine
  BY <1>6 DEF DropEngine, CrashEngine, Shutdown, Crash, FreshInv
<1>7. ASSUME NEW b \in Batch, BeginWrite(b) \/ RefuseWrite(b)
      PROVE  FreshInv'
  <2>1. up' /\ up /\ UNCHANGED acked /\ (holed => holed')
    BY <1>7 DEF BeginWrite, RefuseWrite, Write, WriteToNewFile,
         WriteToCurrentFile, CreateRefused, CreateFails, RecordFails, FirstRecordFails, Idle
  <2>2. UNCHANGED <<mem, hidden, metas, tssp>>
    BY <1>7 DEF BeginWrite, RefuseWrite, Admit, memVars, tsspVars
  <2> QED
    BY <1>1, <2>1, <2>2, FreshKept
<1>8. CASE LogStep
  <2>1. up' /\ up /\ UNCHANGED <<acked, holed>>
    BY <1>8 DEF LogStep, FlushStep, FlushFails, SyncFails, WInv, WriterInv
  <2>2. UNCHANGED <<mem, hidden, metas, tssp>>
    BY <1>8 DEF LogStep, engineVars, memVars, tsspVars
  <2> QED
    BY <1>1, <2>1, <2>2, FreshKept
<1>9. CASE EndWrite
  <2>1. up'
    BY <1>9 DEF EndWrite, WriteReturns, WInv, WriterInv
  <2> QED
    BY <1>1, <1>9, <2>1, FreshInserted
<1>10. CASE Flush(MaxSize) \/ Flush(1)
  <2>1. Spill /\ UNCHANGED walVars /\ memRows # 0
    BY <1>10, EngineAssumption DEF Flush
  <2>2. DOMAIN mem # {}
    BY <2>1 DEF MemInv
  <2> QED
    BY <1>2, <2>1, <2>2, FreshSpilled DEF walVars
<1>11. CASE FlushLosesMem
  BY <1>2, <1>11, FreshEmptied DEF FlushLosesMem, walVars
<1>12. CASE Compact
  BY <1>12, FreshCompacted
<1>13. CASE CompactRemoveFails
  BY <1>13, FreshHalfRemoved
<1>14. CASE CompactWriteFails
  BY <1>2, <1>14, FreshKept DEF CompactWriteFails, memVars, walVars
<1>15. ASSUME NEW s \in AllSeries, Delete(s) \/ DropSeries(s)
       PROVE  FreshInv'
  BY <1>2, <1>15, FreshEmptied DEF Delete, DropSeries, ClearMem, tsspVars, walVars
<1>16. CASE DropAllSeries
  BY <1>2, <1>16, FreshEmptied DEF DropAllSeries, ClearMem, tsspVars, walVars
<1>17. ASSUME NEW t \in measurements, DropMeasurement(t)
       PROVE  FreshInv'
  BY <1>2, <1>17, FreshKept DEF DropMeasurement, memVars, tsspVars, walVars
<1> QED
  BY <1>3, <1>4, <1>5, <1>6, <1>7, <1>8, <1>9, <1>10, <1>11, <1>12, <1>13, <1>14, <1>15,
     <1>16, <1>17 DEF EngineNext

\* What is served can be read: from the memtable at the key's own time, from a
\* file because its meta covers that time.
LEMMA ServedIsRead ==
    ASSUME EngineInv, NEW e \in acked, NEW k \in KeysOf(e.batch),
           Served(e, k)
    PROVE  \E x \in Records :
             /\ ~Before(x, e)
             /\ k \in KeysOf(BatchAt(x))
             /\ [ts |-> k.ts, tags |-> k.tags, fields |-> FieldsAt(BatchAt(x), k)]
                  \in ReadRows(k.table, k.ts, k.ts + 1)
<1> USE DEF EngineInv
<1>1. PICK v : /\ NoOlder(e, k, v)
               /\ IF k \in DOMAIN mem THEN mem[k] = v ELSE InFiles(RowAt(k, v))
  BY DEF Served
<1>2. PICK x \in Records : ~Before(x, e) /\ k \in KeysOf(BatchAt(x)) /\ FieldsAt(BatchAt(x), k) = v
  BY <1>1 DEF NoOlder
<1>3. k.ts \in Int
  <2>1. e.batch \in Batch
    BY DEF WInv, TypeOK, Entry
  <2> QED
    BY <2>1, BatchRows DEF KeyType
<1>4. RowAt(k, v) \in ReadRows(k.table, k.ts, k.ts + 1)
  <2>1. CASE k \in DOMAIN mem
    <3>1. k.ts <= k.ts /\ k.ts < k.ts + 1
      BY <1>3
    <3>2. RowAt(k, v) = [ts |-> k.ts, tags |-> k.tags, fields |-> mem[k]]
      BY <1>1, <2>1 DEF RowAt
    <3>3. RowAt(k, v) \in Scanned(k.table, k.ts, k.ts + 1)
      BY <2>1, <3>1, <3>2 DEF Scanned
    <3> QED
      BY <3>3 DEF ReadRows
  <2>2. CASE k \notin DOMAIN mem
    <3>1. PICK n \in DOMAIN metas : RowAt(k, v) \in ToSet(Decoded(tssp[metas[n].id]))
      BY <1>1, <2>2 DEF InFiles
    <3> DEFINE m == metas[n]
               f == tssp[metas[n].id]
    <3>3. GoodFile(m, f)
      BY DEF FilesGood
    <3>2. PICK i \in DOMAIN f.rows : f.rows[i].ts = k.ts
      <4>1. PICK i \in DOMAIN Decoded(f) : Decoded(f)[i] = RowAt(k, v)
        BY <3>1 DEF ToSet
      <4>2. i \in DOMAIN f.rows /\ Decoded(f)[i].ts = f.rows[i].ts
        BY <3>3, <4>1, DecodedRows DEF GoodFile
      <4> QED
        BY <4>1, <4>2 DEF RowAt
    <3>4. m.min <= k.ts /\ k.ts <= m.max /\ m.min \in Int /\ m.max \in Int
      BY <3>2, <3>3 DEF GoodFile
    <3>5. ~(m.max < k.ts \/ m.min > k.ts + 1)
      <4> DEFINE lo == m.min
                 hi == m.max
                 t == k.ts
      <4>1. lo \in Int /\ hi \in Int /\ t \in Int /\ lo <= t /\ t <= hi
        BY <1>3, <3>4
      <4> HIDE DEF lo, hi, t
      <4>2. ~(hi < t \/ lo > t + 1)
        BY <4>1
      <4> QED
        BY <4>2 DEF lo, hi, t
    <3>6. RowAt(k, v) \in LiveRows(m)
      <4>1. m.id \in DOMAIN tssp
        BY DEF FilesInv
      <4> QED
        BY <3>1, <4>1 DEF LiveRows
    <3>7. m \in ToSet(metas)
      BY DEF ToSet
    <3> HIDE DEF m
    <3>8. RowAt(k, v) \in FileRows(k.ts, k.ts + 1)
      BY <3>5, <3>6, <3>7 DEF FileRows
    <3> QED
      BY <3>8 DEF ReadRows
  <2> QED
    BY <2>1, <2>2
<1> QED
  BY <1>2, <1>4 DEF RowAt

\* A read at the key of an acknowledged row returns that row or one that went
\* to the log after it, through every flush, failed flush, compaction, failed
\* compaction, delete, crash, close and reopening, while no id of the log is
\* skipped, unless the newest row of the key was deleted, lost to an I/O error or
\* to a file that counts too few columns, or skipped by replay behind what a
\* failed write left (Engine::write, read, flush, compact, new).  A row with a
\* field that is not finite comes back without fields.  The log is taken to be
\* durable.
THEOREM ReadsAreFresh ==
    ASSUME SyncEnabled \/ ~PowerLossPossible
    PROVE  EngineSpec => []FreshRead
<1> DEFINE Inv == EngineInv /\ DurInv /\ OrderInv /\ FreshInv
<1>1. EngineInit => Inv
  <2>1. EngineInit => DurInv /\ OrderInv
    BY PromiseInvInit DEF EngineInit, PromiseInv
  <2>2. EngineInit => FreshInv
    BY DEF EngineInit, Init, FreshInv
  <2> QED
    BY <2>1, <2>2, EngineInvInit
<1>2. Inv /\ [EngineNext]_vars => Inv'
  <2> SUFFICES ASSUME Inv, [EngineNext]_vars PROVE Inv'
    OBVIOUS
  <2>1. DurInv' /\ OrderInv'
    BY EngineStepIsWalStep, DurableStep, OrderStep DEF EngineInv
  <2> QED
    BY <2>1, EngineInvStep, FreshStep
<1>3. Inv => FreshRead
  <2> SUFFICES ASSUME Inv, up, ~holed, NEW e \in acked, NEW k \in KeysOf(e.batch) \ hidden
               PROVE  \E x \in Records :
                        /\ ~Before(x, e)
                        /\ k \in KeysOf(BatchAt(x))
                        /\ [ts |-> k.ts, tags |-> k.tags, fields |-> FieldsAt(BatchAt(x), k)]
                             \in ReadRows(k.table, k.ts, k.ts + 1)
    BY DEF FreshRead
  <2>1. Served(e, k)
    BY DEF FreshInv
  <2> QED
    BY <2>1, ServedIsRead
<1> QED
  BY <1>1, <1>2, <1>3, PTL DEF EngineSpec
=============================================================================
