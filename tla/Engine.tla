------------------------------- MODULE Engine -------------------------------
(***************************************************************************)
(* The storage engine (lib.rs): a write goes to the write-ahead log and    *)
(* then to the memtable; a flush moves the memtable to a TSSP file; a      *)
(* compaction merges the files; deletes work on the index and the          *)
(* memtable; opening the engine replays the log.                           *)
(*                                                                         *)
(* Engine::write and its peers take &mut self: only a crash falls inside a *)
(* write, and every other operation runs between writes.  A row is a time, *)
(* a tag set (a number in the order of its encoding, NoTags for the empty  *)
(* one, one tag key otherwise) and its fields, a function from field keys. *)
(*                                                                         *)
(* A TSSP file that is not listed is never opened again, except to be      *)
(* truncated when its id comes up in a later process: it is left out.      *)
(***************************************************************************)
EXTENDS Wal, SequencesExt

CONSTANTS
    NotFinite,  \* the values of fields that are NaN or an infinity
    MaxSize,    \* memtable.max_size, in rows
    MaxTssp,    \* bound: TSSP files a process creates
    MaxDrops,   \* bound: deletes and drops in a behaviour
    MaxTsspFaults  \* bound: faults, of the log too, up to a TSSP I/O error

VARIABLES
    mem,           \* MemTable.data: key -> fields
    memRows,       \* MemTable.row_count (and size): overwritten rows count too
    metas,         \* TsspManager.file_metas: <<[id, min, max], ...>>
    tssp,          \* disk: id of a listed TSSP file -> [rows, cols]
    nextTssp,      \* FILE_ID_COUNTER, a static of the process
    index,         \* SeriesIndex: the series that exist
    keys,          \* the keys of series_key_to_id
    deleted,       \* deleted_series
    measurements,  \* measurements (and its tag and field keys)
    hidden,        \* ghost: the keys whose newest row was cleared or lost
    drops,         \* ghost: deletes and drops so far
    tsspFaults     \* ghost: I/O errors on TSSP files so far

memVars    == <<mem, memRows, hidden>>
tsspVars   == <<metas, tssp, nextTssp>>
seriesVars == <<index, keys, deleted, measurements>>
bounds     == <<drops, tsspFaults>>
engineVars == <<memVars, tsspVars, seriesVars, bounds>>
vars == <<walVars, engineVars>>

NoTags   == 0
NoFields == <<>>

IsRow(r) ==
    /\ r \in [ts : Int, tags : Nat, fields : {r.fields}]
    /\ IsFiniteSet(DOMAIN r.fields)

ASSUME EngineAssumption ==
    /\ \A b \in Batch :
         /\ b.table \in Nat
         /\ b.rows \in Seq({b.rows[i] : i \in DOMAIN b.rows})
         /\ \A i \in DOMAIN b.rows : IsRow(b.rows[i])
    /\ MaxSize \in Nat \ {0}
    /\ MaxTssp \in Nat
    /\ MaxDrops \in Nat
    /\ MaxTsspFaults \in Nat

----------------------------------------------------------------------------
(* Rows, keys and series *)

RowKey(b, i) == [table |-> b.table, ts |-> b.rows[i].ts, tags |-> b.rows[i].tags]
KeysOf(b)    == {RowKey(b, i) : i \in DOMAIN b.rows}
SeriesOf(b)  == {[table |-> k.table, tags |-> k.tags] : k \in KeysOf(b)}

AllKeys   == UNION {KeysOf(b) : b \in Batch}
AllSeries == UNION {SeriesOf(b) : b \in Batch}

\* What MemTable makes of the fields of a row: JSON has no number for one that
\* is not finite and writes null, which is not read back, so that the row is
\* left with no fields at all.
Json(fields) ==
    IF \E f \in DOMAIN fields : fields[f] \in NotFinite THEN NoFields ELSE fields

\* The fields the batch b leaves at the key k: those of its last such row.
FieldsAt(b, k) ==
    Json(b.rows[CHOOSE i \in DOMAIN b.rows :
                  /\ RowKey(b, i) = k
                  /\ \A j \in DOMAIN b.rows : RowKey(b, j) = k => j <= i].fields)

\* The order of RowKey: table, timestamp, encoded tags.
KeyLess(a, b) ==
    \/ a.table < b.table
    \/ a.table = b.table /\ a.ts < b.ts
    \/ a.table = b.table /\ a.ts = b.ts /\ a.tags < b.tags

\* The keys, in any table, of rows in the set rs.
KeysLike(rs) == {k \in AllKeys : \E r \in rs : r.ts = k.ts /\ r.tags = k.tags}

----------------------------------------------------------------------------
(* The memtable *)

\* MemTable::insert
Inserted(m, b) ==
    [k \in DOMAIN m \cup KeysOf(b) |->
        IF k \in KeysOf(b) THEN FieldsAt(b, k) ELSE m[k]]

\* MemTable::flush: the rows in key order; the table is not part of a row.
SortedRows ==
    LET D  == DOMAIN mem
        ks == InOrder(D, {p \in D \X D : KeyLess(p[1], p[2])})
    IN  [i \in DOMAIN ks |-> [ts |-> ks[i].ts, tags |-> ks[i].tags, fields |-> mem[ks[i]]]]

\* The last of the records rs that has the key k.
NewestRecord(rs, k) ==
    CHOOSE r \in rs :
        /\ k \in KeysOf(BatchAt(r))
        /\ \A s \in rs : k \in KeysOf(BatchAt(s)) => s = r \/ Before(s, r)

\* The memtable, row count and index that replay_wal builds from the records.
LoggedKeys(rs) == UNION {KeysOf(BatchAt(r)) : r \in rs}
ReplayedMem(rs) == [k \in LoggedKeys(rs) |-> FieldsAt(BatchAt(NewestRecord(rs, k)), k)]
ReplayedRows(rs) == Cardinality(UNION {{r} \X DOMAIN BatchAt(r).rows : r \in rs})
ReplayedSeries(rs) == UNION {SeriesOf(BatchAt(r)) : r \in rs}

\* The keys of the records that replay has skipped and that none it has read
\* gives a newer row.
SkippedKeys(rs) ==
    UNION {{k \in KeysOf(BatchAt(s)) :
              ~ \E r \in rs : k \in KeysOf(BatchAt(r)) /\ Before(s, r)} :
           s \in Records \ rs}

----------------------------------------------------------------------------
(* TSSP files *)

\* write_rows: three columns are written, the header counts the time and the
\* tag and field keys of the first row.
NewFile(rows) ==
    [rows |-> rows,
     cols |-> 1 + (IF rows[1].tags = NoTags THEN 0 ELSE 1)
                + Cardinality(DOMAIN rows[1].fields)]

NewMeta(id, rows) ==
    [id |-> id, min |-> Min({r.ts : r \in ToSet(rows)}),
                max |-> Max({r.ts : r \in ToSet(rows)})]

\* TsspReader::read: of the columns 0 (times), 1 (tags) and 2 (fields), as
\* many as the header counts.
ColumnsRead(f) == {c \in 0..2 : c < f.cols}

\* decode_data: a row gets what the columns read hold of it.
Decoded(f) ==
    [i \in DOMAIN f.rows |->
        [ts     |-> f.rows[i].ts,
         tags   |-> IF 1 \in ColumnsRead(f) THEN f.rows[i].tags ELSE NoTags,
         fields |-> IF 2 \in ColumnsRead(f) THEN f.rows[i].fields ELSE NoFields]]

WithFile(id, f) == [i \in DOMAIN tssp \cup {id} |-> IF i = id THEN f ELSE tssp[i]]
WithoutFiles(disk, ids) == [i \in DOMAIN disk \ ids |-> disk[i]]

CanCreate == nextTssp <= MaxTssp

TsspFaulty ==
    /\ faults + tsspFaults < MaxTsspFaults
    /\ tsspFaults' = tsspFaults + 1

----------------------------------------------------------------------------
(* Writes *)

EngineInit ==
    /\ Init
    /\ mem = <<>>
    /\ memRows = 0
    /\ metas = <<>>
    /\ tssp = <<>>
    /\ nextTssp = 1
    /\ index = {}
    /\ keys = {}
    /\ deleted = {}
    /\ measurements = {}
    /\ hidden = {}
    /\ drops = 0
    /\ tsspFaults = 0

\* What Engine::write does before it calls the log, whatever comes of it.
Admit(b) ==
    /\ measurements' = measurements \cup {b.table}
    /\ index' = index \cup SeriesOf(b)
    /\ keys' = keys \cup (SeriesOf(b) \ index)
    /\ UNCHANGED <<memVars, tsspVars, deleted, bounds>>

\* Mutant: the rows go to the memtable before the log.
BeginWriteMemFirst(b) ==
    /\ Write(b)
    /\ measurements' = measurements \cup {b.table}
    /\ index' = index \cup SeriesOf(b)
    /\ keys' = keys \cup (SeriesOf(b) \ index)
    /\ mem' = Inserted(mem, b)
    /\ memRows' = memRows + Len(b.rows)
    /\ UNCHANGED <<tsspVars, deleted, hidden, bounds>>

BeginWrite(b) == Admit(b) /\ Write(b)

RefuseWrite(b) ==
    Admit(b) /\ (CreateRefused \/ CreateFails \/ RecordFails \/ FirstRecordFails)

\* A step of Wal::write, or its failure.
LogStep == (FlushStep \/ FlushFails \/ SyncFails) /\ UNCHANGED engineVars

\* Mutant: the memtable keeps the row it has.
EndWriteKeepingOld ==
    /\ WriteReturns
    /\ mem' = mem @@ Inserted(<<>>, writing)
    /\ memRows' = memRows + Len(writing.rows)
    /\ hidden' = hidden \ KeysOf(writing)
    /\ UNCHANGED <<tsspVars, seriesVars, bounds>>

\* The log has returned Ok: the rows go to the memtable.
EndWrite ==
    /\ WriteReturns
    /\ mem' = Inserted(mem, writing)
    /\ memRows' = memRows + Len(writing.rows)
    /\ hidden' = hidden \ KeysOf(writing)
    /\ UNCHANGED <<tsspVars, seriesVars, bounds>>

----------------------------------------------------------------------------
(* Flushes *)

\* The memtable is emptied into a new TSSP file.
Spill ==
    LET f == NewFile(SortedRows) IN
    /\ CanCreate
    /\ mem' = <<>>
    /\ memRows' = 0
    /\ tssp' = WithFile(nextTssp, f)
    /\ metas' = Append(metas, NewMeta(nextTssp, SortedRows))
    /\ nextTssp' = nextTssp + 1
    /\ hidden' = IF 2 \in ColumnsRead(f) THEN hidden ELSE hidden \cup DOMAIN mem
    /\ UNCHANGED <<seriesVars, bounds>>

\* flush (enough = max_size) and force_flush (enough = 1)
Flush(enough) ==
    /\ Idle
    /\ memRows >= enough
    /\ Spill
    /\ UNCHANGED walVars

\* The file cannot be created or written: the memtable is empty already.
FlushLosesMem ==
    /\ Idle
    /\ memRows > 0
    /\ CanCreate
    /\ TsspFaulty
    /\ mem' = <<>>
    /\ memRows' = 0
    /\ nextTssp' = nextTssp + 1
    /\ hidden' = hidden \cup DOMAIN mem
    /\ UNCHANGED <<walVars, metas, tssp, seriesVars, drops>>

\* Engine::close: force_flush, then Wal::close.
CloseEngine ==
    /\ IF memRows > 0 THEN Spill ELSE UNCHANGED engineVars
    /\ Close

----------------------------------------------------------------------------
(* Compaction *)

\* The decoded rows of the files that can be read, by time; files and rows
\* keep their order at equal times.
MergedRows(unread) ==
    LET places == UNION {{<<m, i>> : i \in DOMAIN tssp[metas[m].id].rows} :
                            m \in DOMAIN metas \ unread}
        row(p) == Decoded(tssp[metas[p[1]].id])[p[2]]
        less(p, q) ==
            \/ row(p).ts < row(q).ts
            \/ row(p).ts = row(q).ts /\ p[1] < q[1]
            \/ row(p).ts = row(q).ts /\ p[1] = q[1] /\ p[2] < q[2]
        sorted == InOrder(places, {pq \in places \X places : less(pq[1], pq[2])})
    IN  [n \in DOMAIN sorted |-> row(sorted[n])]

\* needs_compaction and the room for one more file.
Compactable == Idle /\ Len(metas) >= 3 /\ CanCreate

MetaIds == {m.id : m \in ToSet(metas)}

\* The keys of rows read from the files in use that the rows rs do not give back.
LostKeys(rs) ==
    KeysLike((UNION {ToSet(Decoded(tssp[id])) : id \in MetaIds}) \ rs) \ DOMAIN mem

\* Mutant: the rows are merged into the oldest file.
CompactInPlace ==
    /\ Compactable
    /\ LET rows == MergedRows({})
           f    == NewFile(rows)
           id   == metas[1].id IN
       /\ tssp' = WithoutFiles(WithFile(id, f), MetaIds \ {id})
       /\ metas' = <<NewMeta(id, rows)>>
       /\ hidden' = hidden \cup LostKeys(ToSet(Decoded(f)))
    /\ UNCHANGED <<walVars, nextTssp, mem, memRows, seriesVars, bounds>>

\* Mutant: the files are removed and stay listed.
CompactKeepsMetas ==
    /\ Compactable
    /\ LET rows == MergedRows({}) IN
       /\ tssp' = WithoutFiles(WithFile(nextTssp, NewFile(rows)), MetaIds)
       /\ metas' = Append(metas, NewMeta(nextTssp, rows))
    /\ nextTssp' = nextTssp + 1
    /\ UNCHANGED <<walVars, memVars, seriesVars, bounds>>

\* compact_files: a file that cannot be read counts as empty; the new file is
\* written before the old ones are removed.
Compact ==
    /\ Compactable
    /\ \E unread \in SUBSET DOMAIN metas :
         /\ IF unread = {} THEN UNCHANGED tsspFaults ELSE TsspFaulty
         /\ IF unread = DOMAIN metas
            THEN UNCHANGED <<tssp, metas, nextTssp, hidden>>
            ELSE LET rows == MergedRows(unread)
                     f    == NewFile(rows) IN
                 /\ tssp' = WithoutFiles(WithFile(nextTssp, f), MetaIds)
                 /\ metas' = <<NewMeta(nextTssp, rows)>>
                 /\ nextTssp' = nextTssp + 1
                 /\ hidden' = hidden \cup LostKeys(ToSet(Decoded(f)))
    /\ UNCHANGED <<walVars, mem, memRows, seriesVars, drops>>

\* The new file cannot be created or written: the old ones stay.
CompactWriteFails ==
    /\ Compactable
    /\ TsspFaulty
    /\ nextTssp' = nextTssp + 1
    /\ UNCHANGED <<walVars, memVars, metas, tssp, seriesVars, drops>>

\* An old file cannot be removed: those before it are gone, and the new file
\* is never listed.
CompactRemoveFails ==
    /\ Compactable
    /\ TsspFaulty
    /\ \E n \in DOMAIN metas :
         LET gone == {metas[m].id : m \in 1..(n - 1)}
             left == SubSeq(metas, n, Len(metas)) IN
         /\ tssp' = WithoutFiles(tssp, gone)
         /\ metas' = left
         /\ hidden' = hidden \cup
              LostKeys(UNION {ToSet(Decoded(tssp[m.id])) : m \in ToSet(left)})
    /\ nextTssp' = nextTssp + 1
    /\ UNCHANGED <<walVars, mem, memRows, seriesVars, drops>>

----------------------------------------------------------------------------
(* Deletes *)

\* MemTable::clear: whatever is deleted, the whole memtable goes.
ClearMem ==
    /\ mem' = <<>>
    /\ memRows' = 0
    /\ hidden' = hidden \cup DOMAIN mem

Dropping == Idle /\ drops < MaxDrops /\ drops' = drops + 1

\* Mutant: the memtable is left alone.
DeleteIndexOnly(s) ==
    /\ Dropping
    /\ IF s \in keys
       THEN index' = index \ {s} /\ deleted' = deleted \cup {s}
       ELSE UNCHANGED <<index, deleted>>
    /\ UNCHANGED <<walVars, memVars, tsspVars, keys, measurements, tsspFaults>>

\* delete(measurement, tags); no tags are the empty tags.
Delete(s) ==
    /\ Dropping
    /\ IF s \in keys
       THEN index' = index \ {s} /\ deleted' = deleted \cup {s}
       ELSE UNCHANGED <<index, deleted>>
    /\ ClearMem
    /\ UNCHANGED <<walVars, tsspVars, keys, measurements, tsspFaults>>

\* drop_series(Some(id))
DropSeries(s) ==
    /\ Dropping
    /\ index' = index \ {s}
    /\ deleted' = deleted \cup {s}
    /\ ClearMem
    /\ UNCHANGED <<walVars, tsspVars, keys, measurements, tsspFaults>>

\* drop_series(None)
DropAllSeries ==
    /\ Dropping
    /\ index' = index \ keys
    /\ deleted' = deleted \cup keys
    /\ ClearMem
    /\ UNCHANGED <<walVars, tsspVars, keys, measurements, tsspFaults>>

DropMeasurement(t) ==
    /\ Dropping
    /\ t \in measurements
    /\ measurements' = measurements \ {t}
    /\ UNCHANGED <<walVars, memVars, tsspVars, index, keys, deleted, tsspFaults>>

----------------------------------------------------------------------------
(* The life of the Engine value *)

\* Engine::new: everything is rebuilt from the log; the TSSP directory is not
\* looked at.  The file counter restarts with the process.
OpenEngine ==
    /\ CanReplay
    /\ Open
    /\ \E rs \in Deliveries :
         /\ mem' = ReplayedMem(rs)
         /\ memRows' = ReplayedRows(rs)
         /\ index' = ReplayedSeries(rs)
         /\ keys' = ReplayedSeries(rs)
         /\ hidden' = SkippedKeys(rs)
    /\ metas' = <<>>
    /\ nextTssp' \in {nextTssp, 1}
    /\ deleted' = {}
    /\ measurements' = {}
    /\ UNCHANGED <<tssp, bounds>>

\* replay fails on a torn file or behind an orphan, and Engine::new with it.
OpenFails ==
    /\ ~up
    /\ ReplayFails
    /\ UNCHANGED vars

Gone ==
    /\ mem' = <<>>
    /\ memRows' = 0
    /\ metas' = <<>>
    /\ tssp' = <<>>
    /\ index' = {}
    /\ keys' = {}
    /\ deleted' = {}
    /\ measurements' = {}
    /\ hidden' = {}
    /\ UNCHANGED bounds

DropEngine == Shutdown /\ Gone /\ UNCHANGED nextTssp

CrashEngine == Crash /\ Gone /\ nextTssp' = 1

EngineNext ==
    \/ OpenEngine \/ OpenFails \/ CloseEngine \/ DropEngine \/ CrashEngine
    \/ \E b \in Batch : BeginWrite(b) \/ RefuseWrite(b)
    \/ LogStep \/ EndWrite
    \/ Flush(MaxSize) \/ Flush(1) \/ FlushLosesMem
    \/ Compact \/ CompactWriteFails \/ CompactRemoveFails
    \/ \E s \in AllSeries : Delete(s) \/ DropSeries(s)
    \/ DropAllSeries
    \/ \E t \in measurements : DropMeasurement(t)

EngineSpec == EngineInit /\ [][EngineNext]_vars

----------------------------------------------------------------------------
(* Reading *)

\* The rows read from a listed file: none when it cannot be read.
LiveRows(m) == IF m.id \in DOMAIN tssp THEN ToSet(Decoded(tssp[m.id])) ELSE {}

\* MemTable::scan: the end of the range is excluded.
Scanned(table, start, end) ==
    {[ts |-> k.ts, tags |-> k.tags, fields |-> mem[k]] :
        k \in {k \in DOMAIN mem : k.table = table /\ start <= k.ts /\ k.ts < end}}

\* read_files: every file that overlaps the range, the end included, gives all
\* of its rows, whatever their time and table.
FileRows(start, end) ==
    UNION {LiveRows(m) : m \in {m \in ToSet(metas) : ~(m.max < start \/ m.min > end)}}

\* Engine::read
ReadRows(table, start, end) == Scanned(table, start, end) \cup FileRows(start, end)

----------------------------------------------------------------------------
(* Properties *)

\* A read at the key k's own time returns the row of an acknowledged write or
\* of one that went to the log after it, through every flush, compaction,
\* crash and reopening, unless the newest row was deleted, lost to an I/O
\* error or to a file that counts too few columns, or skipped by replay behind
\* an orphan.  The row has the fields of the write, or none at all if one of
\* them is a number that is not finite.
FreshRead ==
    up /\ ~holed =>
      \A e \in acked : \A k \in KeysOf(e.batch) \ hidden :
        \E x \in Records :
          /\ ~Before(x, e)
          /\ k \in KeysOf(BatchAt(x))
          /\ [ts |-> k.ts, tags |-> k.tags, fields |-> FieldsAt(BatchAt(x), k)]
               \in ReadRows(k.table, k.ts, k.ts + 1)

\* What the memtable and the files hold is in the log, as JSON leaves it: unless
\* a failed write has left an orphan in front of a record, replay delivers it,
\* and nothing that can be read is lost by a restart, which forgets the files
\* (write, Engine::new).
NothingBeyondLog ==
    LET logged == UNION {{[table |-> BatchAt(x).table,
                           row |-> [BatchAt(x).rows[i] EXCEPT !.fields = Json(@)]] :
                            i \in DOMAIN BatchAt(x).rows} : x \in Records}
    IN  /\ \A k \in DOMAIN mem :
             [table |-> k.table,
              row |-> [ts |-> k.ts, tags |-> k.tags, fields |-> mem[k]]] \in logged
        /\ \A m \in ToSet(metas) : \A r \in LiveRows(m) :
             r.fields # NoFields => \E l \in logged : l.row = r

\* Every series of the memtable is in the index, which get_series_id and
\* drop_series(None) reach in full through series_key_to_id.
IndexCoversMem ==
    /\ \A k \in DOMAIN mem : [table |-> k.table, tags |-> k.tags] \in index
    /\ index \subseteq keys

\* Every listed file exists, once, with rows that lie in the range its meta
\* gives, by which read_files skips files.
MetasAccurate ==
    /\ Cardinality(MetaIds) = Len(metas)
    /\ \A m \in ToSet(metas) :
         /\ m.id \in DOMAIN tssp
         /\ m.id < nextTssp
         /\ tssp[m.id].rows # <<>>
         /\ \A r \in ToSet(tssp[m.id].rows) : m.min <= r.ts /\ r.ts <= m.max

\* A TSSP file does not change while it is listed.
LiveFilesImmutable ==
    [][\A id \in MetaIds \cap MetaIds' : id \in DOMAIN tssp' /\ tssp'[id] = tssp[id]]_vars

\* A read returns rows of its time range only.
ReadHonoursRange ==
    \A k, l \in AllKeys :
      k.ts < l.ts => \A r \in ReadRows(k.table, k.ts, l.ts) : k.ts <= r.ts /\ r.ts < l.ts

\* A flush leaves every row of the memtable readable at its own time, with its
\* fields (write_rows, TsspReader::read).
FlushKeepsRows ==
    [][Flush(MaxSize) \/ Flush(1) =>
         \A k \in DOMAIN mem :
            [ts |-> k.ts, tags |-> k.tags, fields |-> mem[k]]
               \in ReadRows(k.table, k.ts, k.ts + 1)']_vars

\* Deleting a series removes its rows from what can be read and leaves the
\* rows of the others.
DeleteIsExact ==
    [][\A s \in AllSeries : Delete(s) =>
         \A k \in AllKeys :
            LET rows == ReadRows(k.table, k.ts, k.ts + 1) IN
            rows' = {r \in rows : k.table # s.table \/ r.tags # s.tags}]_vars
=============================================================================
