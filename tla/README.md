# openGemini-rs: verification project

TLA+ models of openGemini-rs, a time-series storage engine in Rust
(`crates/engine/src`, cited below without that prefix). The models are checked
with TLC on small instances, and the most important invariants are proved with
TLAPS for every value of the constants.

## 1. The system

`Engine` (lib.rs) owns a write-ahead log, a memtable, a list of TSSP files, a
series index and some managers it never calls. All its mutating operations take
`&mut self`; the HTTP server keeps the engine in an `Arc<RwLock<Option<Engine>>>`
and serves every connection in a thread of its own, so engine operations run one
at a time and only a crash or a failed system call falls inside one. The other
parts (cache, shards, scheduler, snapshots, backups, Raft) take `&self` and lock
inside, often more than once per call: their hazard is interleaving.

```
 bytes --parsers--> requests        rows --formats--> answers
                        |             ^
                        v             |
 HTTP threads --lock--> Engine --write--> Wal ------> wal/*.wal
                          |                 ^ replay at Engine::new
                          +--insert--> MemTable --flush--> TSSP files
                          |                                  ^ compact
                          +--> SeriesIndex, series_key_to_id, deleted_series
                          +--> QueryCache (filled and cleared by callers only)

 beside the engine, called by nothing in the repository but tests:
   ShardManager   TaskScheduler   SnapshotManager   BackupManager   RaftNode
   compaction and merge planners   tiers, ttl, downsampling
```

### Inventory

| Component | State | Operations | What is hard | What makes it correct | Module |
|---|---|---|---|---|---|
| `wal/` | current file behind a BufWriter, next file id, the directory | new, write, create_file, read, purge, close, replay | crash inside a record, page cache, failed flush leaves a buffer, a full buffer fails behind a length header, ids restart at 0 | acknowledged writes survive, replay order is write order, a writer gets through | Wal, AckedLog |
| `lib.rs` Engine | the parts below, measurements, key-to-id map, deleted series | write, read, flush, force_flush, compact, close, delete, drop_series, drop_measurement, new/replay_wal | steps of one operation that fail half way; restart rebuilds from the log only | reads are fresh, nothing readable is missing from the log, metas match files | Engine |
| `memtable/` | ordered map, size and row counters | insert, scan, flush, clear | counters count overwritten rows, the last row of a key wins, fields pass through JSON | part of the engine's | Engine |
| `tssp/` | files, process-wide id counter | create, write, close, read, remove | header counts the columns of the first row | a listed file is immutable and complete | Engine |
| `index/` | bitmap of 32-bit ids | add, remove, contains | 64-bit hashes are truncated | covers the memtable | Engine |
| `compaction/`, `merge/` | counts of jobs in progress | needs_compaction, select candidates | limits, ties, empty batches | no file twice, none lost | Selection |
| `cache/` | entries, statistics | get, insert, invalidate(_prefix), clear | byte accounting, eviction, expiry, staleness after writes | accounting matches contents; limits hold | QueryCache |
| `shard/` | map of immutable ShardInfo | create, update, split, migrate, remove, find | check-then-act over several lock acquisitions, times before the epoch | no split left behind, no torn record, times are found where they map | Shards |
| `raft/` | term, vote, state, log, commit index, each under its own lock | request_vote, append_entries, become_* | duplicated and reordered requests, locks taken one by one | one candidate per term, stored entries arrive | Raft |
| `scheduler/` | tasks, executions, running flag | start, stop, add, enable, trigger | stop/start against the polling threads, handler under a lock, poisoned locks | polling threads end, the history is complete | Scheduler |
| `snapshot/` | map of snapshots, next id, manifests and directories | create, delete, cleanup, load | crash between directory and manifest, units of time | listed snapshots are complete and stay, the newest are kept | Snapshots |
| `backup/` | manifests in directories | full, incremental, cleanup | clean-up beside other backups, identifiers used again | chains end in a full backup, the newest are kept | Backups |
| `http/`, `api/`, `bin/` | engine lock, running flag, listener | start, stop, write, query, remote read and write | partial failure inside one request, panics with and without the lock, a body that arrives in part or not at all | answers say what was stored, no answer shows part of a request, every request is answered | Server |
| `syscontrol/`, `schema/` | maps and switches | commands, databases, policies | two locks, one inside the other | no deadlock | Server |
| `line_protocol/` | none | parse | escapes and quotes | no line is taken for another | Lines |
| `influxql/`, aggregates of `lib.rs` | none | clauses, conditions, filters, aggregates | clauses out of order, conditions that are not understood, integers of 64 bits | rows of an answer meet the condition, sums are sums where they fit | Query, Machine |
| `prometheus/` | none | decode writes and reads | a body that ends anywhere | decoded is what arrived whole | Remote |
| `arrow_flight/` | none | do_get, do_put | the first row decides the columns, casts | rows that fit come back | Flight, Machine |
| `downsample/`, `ttl/`, `tiered_storage/` | rules, durations | bucket, aggregate, expire, tier | truncation, signs, casts, seconds against nanoseconds | agree with a definition over the integers | Ageing |
| `metaclient/` | databases, shard mappings, peers | create, update, lookup | none across calls | - | - |
| `bloom/`, `block_index/` | bit array, ranges | insert, contains, find | not consulted by reads | no false negatives | - |
| `otel/`, `config.rs`, `error.rs`, `query/` | none | build values | none | - | - |

PROJECT.json lists the hazards of this code line by line and the property that
covers each.

## 2. What is modelled

### Wal (wal/mod.rs)

| Model | Code |
|---|---|
| `files[id] = [recs, torn, synced, orphans, linked]` | the directory: complete records, half a record at the end, how many are known to be on the platter, before which of them a failed write has left a length header without data, whether the directory entry is known to be there |
| `current = [id, offset, pend]` | `current_file`: the file, `WalFile.offset`, what the BufWriter still holds |
| `fileId` | `file_id` |
| `writing` | the `Wal::write` that holds the `current_file` lock |
| `acked`, `acks`, `holed`, `faults` | ghosts: the entries returned, bounds, whether order can still be promised |

A record is one `WriteBatch`; sizes count records. `write` is split where a crash
can fall: choosing or creating the file and filling the buffer
(`WriteToNewFile`, `WriteToCurrentFile`, `CreateRefused`, `CreateFails`,
`RecordFails`, `FirstRecordFails`), two steps per record in `flush` (`FlushStep`, the first leaves the file torn),
the errors (`FlushFails`, `SyncFails`) and the return (`WriteReturns`, which
syncs when `SyncEnabled`). `Drained`, `FlushEnds` and `AfterDrop` say what
BufWriter does on an error and in `Drop`: it writes some records, perhaps half of
the next, and keeps or discards the rest. `Close`, `Shutdown` (the value is
dropped), `Crash` (buffers are lost), `PowerLoss` (any suffix of unsynced records
is lost, file by file, and with its directory entry any file created since the last
power loss, because the directory is never synced) and `Purge` complete it. `Open` is `Wal::new`: the id
counter starts at 0 over whatever the directory holds. `Records`, `Before`,
`BatchAt`, `Replayable`, `Deliveries` and `ReplayFails` are `replay` as a reading
of the disk.

Full buffers. Records that failed flushes have left fill the 8 KiB of the
BufWriter, and a batch may be larger than that. Then `write_u32` or `write_all`
(:91-92) has to write to the file and may fail, perhaps behind the length header
that has been buffered. `RecordFails` and `FirstRecordFails` are this exit: the
header stays as an orphan, the offset is what it was, and the writer goes on.
Replay takes the bytes behind an orphan for its payload. From there on it is out of
step with the records, which it skips, stops at a length of 0 or fails at one that
is too long; if its steps happen to end where a record begins, it reads on to the
next orphan (`Deliveries`). A write acknowledged behind an orphan is therefore in
the file and may not be in what replay delivers: its entry is not `sound`, and the
properties that speak of replay except it. Bytes read out of step are taken not to
make a batch, which bincode does not rule out.

After a restart over k files the first k writes fail, each consuming one id
(`CreateRefused`); `Progress` says that a client that keeps writing gets through.

`AckedLog` is what a log promises: a sequence to which each acknowledgement
appends. `Promise` instantiates it with the acknowledged batches in the order
replay delivers them, read from the files (`ReplayedAcks`, put in order by
`InOrder`), and `ImplementsAckedLog` says that the log implements it: checked in
the run `wal`, proved as `WalImplementsAckedLog`. The promise ends at `holed` (a
purge, a file lost with its directory entry, or an id skipped by a failed
`create_file`: each breaks the order after a restart, because the counter comes
back to the free id; the run `wal_order` shows the consequence for purge) and at
`Unreached`, a write acknowledged behind an orphan.

### Engine (lib.rs, memtable, tssp, index)

Engine EXTENDS Wal and conjoins each of its actions with the log's, so every
engine step is a log step or leaves the log alone (proved: `EngineRunsTheLog`).

| Model | Code |
|---|---|
| `mem`, `memRows` | `MemTable.data`; `row_count`, which stands for `size` too |
| `metas`, `tssp`, `nextTssp` | `file_metas`; the files on disk that are listed; `FILE_ID_COUNTER` |
| `index`, `keys`, `deleted`, `measurements` | `series_index`, `series_key_to_id`, `deleted_series`, `measurements` with its key maps |
| `hidden` | ghost: keys whose newest row was deleted, lost to an I/O error or to a narrow file, or skipped by replay |

A row is a time, a tag set (a number in the order of its encoding, 0 for none)
and its fields. Series are identified with table and tags: the 64-bit hash and
its truncation are taken to be injective. The memtable keeps the fields as JSON
(`Json`): a value that is NaN or infinite, which the line parser and the decoder of
samples let through, is written as null, which is not read back, and the row loses
all of its fields (memtable/mod.rs:58, lib.rs:210). A write is `BeginWrite` (index and
names, then the log), log steps, `EndWrite` (memtable). `Flush(MaxSize)` is
`flush`, `Flush(1)` `force_flush`; `FlushLosesMem` is either when the file cannot
be written, after the memtable has been emptied. `Compact` may find files
unreadable, which count as empty; `CompactWriteFails` and `CompactRemoveFails` are
its error exits. `OpenEngine` is `Engine::new`: the memtable and the index are
rebuilt from what replay delivers of the log, the TSSP files are not looked at and
the file counter restarts with the process; `OpenFails` is the error of a replay
that does not get through. A file that is not listed is never opened again, except
to be truncated when its id comes up in a later process, so `tssp` drops it.
`NewFile` and `ColumnsRead` keep the column count of the header, because data
depends on it: three columns are written, and as many as the first row's keys
suggest are read back.

`read` is `ReadRows`: `Scanned` (memtable, end excluded) and `FileRows` (all rows
of every overlapping file, end included, of any table).

With the default codec, Snappy, `compress_data` hands the encoder an empty slice
(tssp/mod.rs:304), which it refuses: there every flush is a `FlushLosesMem` and
every compaction a `CompactWriteFails`. The other codecs take the branches the
instance explores.

### QueryCache (cache/mod.rs)

`entries[key] = [value, born, used]` stands for `entries`, `created_at` and
`last_accessed`; `stats` for `current_entries` and `current_memory_bytes`. Every
operation holds the lock of the entries from its first line to its last and takes
that of the statistics inside it, so each is one action: `GetHit`, `GetExpired`,
`Insert`, `Invalidate`, `InvalidatePrefix`, `Clear`, `Stats`; `Tick` moves the
clock. `Victims` gives the sets of keys that the loop around `evict_lru` can
remove, several when entries were used in one instant. `last` and `use` are ghosts:
the last insertion of each key, forgotten when it is invalidated, and when each key
was last used and how much room and how many entries it has asked for.
`RecentlyUsedStay` is what least-recently-used eviction is for: a result leaves
early only if the keys used since its own last use are more than fit.

The count of bytes is not what is held: an overwrite adds without subtracting,
`stats()` sets it right before anyone sees it. What matters is that it never
falls below (`BytesCoverHeld`), since the subtractions are unsigned. Keys are
taken to be distinct; `generate_cache_key` joins names with an underscore, so two
queries whose names contain one can share a key. `Engine::query` does not ask the
cache, and writes of the engine do not invalidate anything: that is left to callers,
and no property says that a cached answer agrees with the engine. What is shown is
that the age of an answer is bounded by the time to live.

### Raft (raft/mod.rs)

Every node has `term`, `votedFor`, `log` and `commit`, each under its own lock.
`call[t]` is the handler thread `t` is in. `request_vote` is `VoteReadsTerm`
(lock taken and let go), `VoteLocks` (voted_for, held to the end),
`VoteChecksIndex` and `VoteChecksTerm` (two readings of the log);
`append_entries` is `AppendReadsTerm`, `AppendChecksLength`, `AppendStores` (the
log, held to the end) and `AppendCommits`. `VoteFree` and `LogFree` are the locks.
`Truncated` is the look at the previous entry and `Stored` the loop that puts one
entry after the other in its place (`Place`), with the vector counted from 0.

No code sends requests or counts votes. So any request of the given sets may
arrive at any node at any time, any number of times; a request that is lost is
one that does not arrive. `granted` is a ghost: the votes answered with
`vote_granted`. The code ensures more than `AtMostOneElected` says: `voted_for` is
never cleared, so a node votes for one candidate for ever, and once a candidate
has a quorum no other can get one in any later term. Nothing is stored: a node that
restarts has forgotten its term and its vote. Restarts are not modelled, and election
safety does not hold across them.

### The services (MCServices)

Six modules with disjoint variables. MCServices conjoins them behind a variable
`service`, chosen at the start, that says whose steps are taken: the state spaces
add up instead of multiplying, and nothing is lost since the parts neither call
each other nor share state. `Tables` holds what they have in common: hash maps as
partial functions, and `i64` division.

`Shards` (shard/mod.rs). `shards` is the table, replaced record by record as the
code replaces its immutable `ShardInfo`s; `shardCalls[t]` the copy a thread works
on. `split_shard` is `SplitRead`, `SplitMark` and `SplitWrite`, one per lock it
takes; `migrate_shard` is `MigrateRead` and `MigrateMark`. `SplitWrite` writes the
copy back whatever happened in between: a report that came meanwhile is lost, a
shard that was removed comes back. What still holds is that a record never mixes
two reports (`NoTornMetadata`) and that no shard stays marked as being split by a
call that is over (`NoSplitLeftBehind`). `MapShard` drops the sign of a time and
`FindShardByTime` does not: times before the epoch map to a shard and are found in
none (`FoundWhereMapped`).

`Scheduler` (scheduler/mod.rs). `start` pushes a polling thread and panics under
the write guard of the flag if it is up already, which poisons it (`running`). A
thread sleeps and reads the flag (`Poll`), so one that slept through a stop and a
start lives on beside its successor: several threads poll, and `PollersEnd` says
that they all end once the flag stays down. `trigger_task` holds the table's lock
while the handler runs (`TriggerTask` to `HandlerReturns`) and pushes to the
history under another. Handlers that call the scheduler, which would wait for
themselves, are the caller's error and not explored; a handler that panics is.

`Snapshots` (snapshot/mod.rs). The table in memory, manifests and directories on
disk, a call per thread cut at every lock and system call. `OpenManifest`
truncates, `FlushManifest` completes: between them a manifest cannot be read
(timestamp 0). The clock starts at `FirstClock`. `Restart` is a crash of the process and the next
`load_existing_snapshots`; power losses are left out, since the code never syncs
here and promises nothing. Each creation reads a clock value of its own, which
stands for the nanoseconds. `inserted`, `removed`, `cleaned` and `stuck` are ghosts.
`TooOld` compares nanoseconds with seconds as the code does: no snapshot of a real
clock is ever too old, and only the number kept bounds them.

`Backups` (backup/mod.rs). `backups` is what the manifests say, `backupCalls` what
the threads do; the clean-up lists, then removes one directory after the other. A
directory is a set element: no file is ever copied into it. Crashes are not
modelled: there is no state in memory to lose. `RootWasFull` looks at chains,
`BackupCleanupKeepsNewest` at clean-ups beside other backups, and the comment of
the latter names its exception. Nothing keeps a clean-up from removing the full
backup of an incremental one that stays.

`Selection` (compaction/mod.rs, merge/mod.rs). `select_compaction_candidates` and
`select_merge_candidates` on every list of up to five files with two sizes and two
starting times; `EveryFileOnce` compares them with what a partition is.

`Ageing` (tiered_storage/mod.rs, ttl/mod.rs, downsample/mod.rs). Tiers, expiry and
means as functions of time, with the truncating division, the cast of a negative
age to `u64` and the units of the code. A piece of data follows the answers of the
tier manager while the clock goes on (`PlaceInTier`, `Migrate`, `Tick`). The filter
of expired rows mixes seconds with nanoseconds and looks at one row;
`FilterDropsOnlyExpired` says on which side it errs: it keeps nearly everything.
In the instance a second has two nanoseconds and 2^64 is 1000.

### The front end (MCFrontEnd)

Composed the same way, with `part` in the place of `service`.

`Machine` has what the others share of 64-bit integers: what fits, the cast `as i64`
and what an addition leaves when overflow is not checked. `Half` stands for 2^63, and
`OverflowChecks` tells the two builds apart.

`Server` (http/mod.rs, syscontrol/mod.rs, schema/mod.rs). One connection carries
one request: `Connect`, `Accept`, `Receive`, the handler, `SendReply`. The handler
is cut where it waits for a lock and, while it works under the write guard, at
every line of a body, so that the lock and not the granularity of the model makes
a request whole. `lock` has its writer, its readers and its poison. `LockControl` and
`FlushNothing` take the controls' lock before the engine's.

What arrives. The server reads what came in the packets of the headers and no
further. `Arrived` gives the lines of a write's body that came, of which the last may
be cut and then hold another value or time, not parse, or end in a quote; if none
came, `handle_write` parses the header lines in their place (:312), and some ordinary
ones are points: `Keep-Alive: timeout=5`, `Cookie: a=1`. They are stored and answered
204, which `RepliesMatchStore` counts like any other line.

What is stored. `rows` is the memtable, which the server never flushes: a row has its
measurement, time and place in the order of tags as its key and replaces the one with
that key (`Inserted`). A SELECT finds the rows of one measurement that pass its
condition, up to its limit, and a range query those of a range of times (`Found`).
So an answer may well lack lines of an earlier request, because a later one has
overwritten or dropped them. `ReadsSeeWholeRequests` compares it with `LeftBy`: the
rows that the requests leave behind that had the lock before, in that order, each
with all it ever stores.

What dies. Under the write guard a lone quote in a line (`PanicOnLine`) and the time
of a sample (`PanicOnSample`, where overflow is checked) panic and poison the lock;
whoever unwraps it afterwards dies. Under a read guard (`PanicOnRead`) a remote read
whose range overflows, a range that ends before it begins, which `BTreeMap::range`
refuses, the text of a query whose braces are reversed, and a sum that overflows
panic and free the lock. Before any lock (`PanicBeforeLock`) a condition that is one quote
(influxql/mod.rs:568), a word behind letters of several bytes (:140), where overflow is
checked a duration that does not fit (:361, :527), and, in both builds, the length of a frame that wraps
(prometheus/mod.rs:247: unchecked, the slice that follows starts behind its end) do
it. `EveryRequestAnswered` says that nothing else keeps a request from its answer.
The handler of `/api/v1/query_range` cannot be reached, because `/api/v1/query` is a
prefix of its path and is asked first; "range" stands for the remote read and the
query.

`Query` (influxql/mod.rs, lib.rs): a statement is its clauses in their order. The
clause loop ends at the first WHERE, and what stands behind it spoils the last
value of the condition; a condition becomes a filter, one that no row passes, or
none; `ConditionHonoured` says when the answer is exact. Every field whose name
starts with "time" (`TimeNames`: `timeout`, `timestamp`) is taken for the time
(:400): a comparison of it leaves no filter at all, unless it is with `now()` and a
duration right behind, `now()-1h`; with a space before the number, as in
`time > now() - 1h`, it is "vague" and leaves none either (:517). Otherwise it becomes
a filter on a field "time", which a row need not have. `SumValue` adds integers
as `i64`, unsigned ones through a cast: it dies or wraps when they do not fit, and
`AggregatesAgree` claims the sum only where they add up.
`Lines` (line_protocol/mod.rs): a line of a tag or none, a string field and perhaps
a number field as tokens, with quotes, backslashes and separators inside the string.
`Remote` (prometheus/mod.rs): a message is a list of parts, each a field, a wire
type and bytes, with a length in front of them or eight of them; a body is cut at
any byte. Each decoder is a loop whose rounds look for the next part (`Scanned`,
`Scan`); they differ in the fields they know and in what ends them. Lengths have at
most 49 bits and strings are UTF-8. The messages are encoded to suit the decoders,
with the field numbers and the times of eight bytes that these look for; that is
what `encode_timeseries` of the code writes, and not the wire format of Prometheus, whose
times are varints: nothing is claimed about a real client of it.
`Flight` (arrow_flight/mod.rs): rows to batches and back, where the first row of a batch
decides its columns; no field may be called "time" or start with "tag_", the names
the columns of times and tags have. A column of integers takes unsigned numbers by a
cast (`Signed`, :297), so that 2^63 and above arrive as negative ones, and
`FlightRoundTrip` says so.

`Lists` holds what loops make of a list: filters, sums, concatenations and sorts, each
written as a function of the round, so that what it computes can be proved by
induction over the rounds.

## 3. Runs

| Run | Bounds | Shows |
|---|---|---|
| `wal` | 2 batches, files of 2 records, 2 acknowledged writes, 2 faults, power loss, sync on | durability, order, writer consistency, append-only files, progress, refinement of AckedLog |
| `wal_torn` | 1 batch, 2 writes, 1 crash | **violation**: a crash inside a record leaves a log replay cannot read, so the engine does not open |
| `wal_order` | 1 batch, files of 1 record, 4 writes, no faults | **violation**: after a purge and a restart an acknowledged write is replayed before an older one |
| `engine` | 2 batches, one with a value that is no number, log files of 1 record, 3 writes, 1 log fault, 1 TSSP fault, 4 TSSP files, 1 delete | fresh reads, nothing beyond the log, index and metas consistent, listed files immutable |
| `engine_delete` | 2 writes, no faults | **violation**: deleting one series empties the memtable of all |
| `engine_flush` | 2 writes, no faults | **violation**: a flush behind an untagged one-field row loses the fields of the whole file |
| `engine_range` | 2 writes, no faults | **violation**: a read of [0, 1) returns a row at 1 once it is in a file, whose range is taken with its end |
| `query_cache` | 3 keys with common prefixes, results of 1 and 4 bytes, 2 entries, 3 bytes, 3 instants | last insertion served, limits, results in use stay, the byte count covers what is held |
| `raft` | 3 nodes, 2 threads, 4 calls, 3 vote requests of 2 candidates, 2 append requests, terms to 2 | election safety, exclusion without deadlock, stored entries are in the log |
| `services` | 2 threads for each service; 2 shards and 2 reports; 3 starts, 3 triggers of 2 tasks; 3 snapshots, 1 kept, 1 crash; 4 backups, 1 of each kind kept, 1 chosen identifier; lists of 0 to 5 files; clocks of 3 to 9 | the properties of the six services above |
| `front_end` | 3 connections: one writes (two lines, or its headers), sends samples or asks the controls, one inserts, drops, creates a database or reads a range, one selects with a sum and a limit or flushes; 2 keys, 2 values, 2^63 = 8, overflow checked; 7 tables, conditions of up to 3 comparisons; strings of up to 3 tokens; 4 remote writes, 2 reads, cut at any byte; 5 rows in batches of 2 | whole requests, honest answers, every request answered; statements, lines and foreign formats against what they mean |
| `line_strings` | as `front_end` | **violation**: a string with a comma, or with a space where the line has no timestamp, is refused, and one that begins with a comma brings the parser down |

Why the bounds are enough. In `wal` the record of a failed write fills a file of two
as an acknowledged one does, so two acknowledged writes and two faults give a
rotation with a buffer that is not empty, a restart over several files, an orphan
with acknowledged records on both sides of it, a failed flush followed by a crash,
or two crashes with a write in between. In the engine one batch is a new version of the other's row behind an
untagged row of an earlier time, so overwriting, key order, lost fields, narrow files and
overlapping ranges all occur; four files give a compaction of three and a file
after it; a fault of the log and one of a TSSP file can both happen. The two
fault counters share a budget so that a TSSP fault comes early enough to be
followed by everything else. `MaxAcks`, `MaxFaults`, `MaxTssp`, `MaxDrops` and
`MaxTsspFaults` only bound what is explored.

In the cache one result does not fit beside another and one fits with room for bytes
but not for entries, so each limit evicts by itself and together; a time to live of 1
within 3 instants lets entries live on through an access and expire in spite of it. `MaxBytes` stops the growth of the count by
overwrites. In the Raft run four calls are what two quorums of three nodes need;
one append request lands on a log of which it brings one entry again, the other
names a term that does not match. `Rest` is the end of a behaviour at `MaxOps`,
allowed only when every call has returned, so that the deadlock check covers the
locks.

In `services` two threads are enough for every pair of calls to overlap, which is
all that a check under one lock and an action under the next can meet. Splits add 1
to an identifier of two, so the new shard may be there already; `MaxHalvings`
halves take every report of the instance to zero, where a further split changes
nothing (64 do in the code, whose numbers have 64 bits: `HalvingAssumption`). One crash with two
calls in progress and three identifiers lets a restart number on over what was
left unreadable, and a clean-up run beside it; three starts give threads
that sleep through a stop beside their successors; a start too many panics. Four backups with one of
each kind kept bring a chain of two incremental ones and a clean-up of its root.
Deadlock is not checked in `services` and `front_end`: their parts stop at the
bounds (`MaxSnapId`, `MaxClock`, `MaxCrashes`, `MaxStarts`, `MaxTriggers`,
`MaxBackups`, `MaxBinds`, `MaxNow`), and callers may all have died. What a deadlock
would be there is said by `EveryRequestAnswered` and `PollersEnd`.

In `front_end` each connection has the requests that matter to the other two: a
writer that can panic, one that clears rows or changes the schema, a reader, and a
flush that holds the controls while it waits for the engine. The insertion, the lines
and the header line share keys with each other, the limit of the SELECT and its
condition leave out rows, its sum overflows and a range is reversed, so that rows are
replaced and hidden and each kind of panic occurs. One time is enough, since a cut line
may take another value. With `Half` at 8 the tables have sums that fit, that wrap and
that fit only in part, and unsigned numbers on both sides of it. Five rows in batches
of two give rows that lead a batch, rows that follow one, and a batch that is not
full.

Each property of a passing run has a mutant in PROJECT.json: an operator beside
the action it replaces, marked "Mutant", that a plausible slip would produce
(sync left out, truncate in place of create_new, rows to the memtable before the
log, accesses of the cache not noted, files kept listed after a compaction) and that the property rejects.

Fairness. `LiveSpec` of Wal has weak fairness of the steps of a write
(`Advance`). A write in progress runs on a thread that holds the lock and has
nothing to wait for, so the scheduler gives it its turn; that clients keep
writing is the premise of `Progress`. Crashes, errors, closing and purging are
never forced. The engine has no background work (nothing calls `flush` or
`compact`), so nothing is claimed to happen eventually there. `SchedFairness` is
weak fairness of each polling thread: `thread::sleep` returns. `ServerFairness`
is weak fairness of each connection's handler: its thread is scheduled, and a
write to a client that has gone ends with an error. The lock is not assumed to be
fair: each connection takes it once. Nothing makes a client connect or send.

## 4. Theorems

Every safety invariant and every action property of the passing runs is stated by a
theorem, and so is the refinement of `AckedLog`. Eight modules prove them:
`WalProofs`, `EngineProofs`, `RaftProofs`, `ServicesProofs` (Shards, Scheduler,
Selection and Ageing), `CopiesProofs` (Snapshots and Backups), `QueryProofs`
(QueryCache and Query), `FrontEndProofs` (Server, Flight, Lines and Remote) and
`ListProofs`, whose lemmas about `Lists` all but the first two use. The theorems hold for all
constants that satisfy the assumptions of the module they are about (`WalAssumption`,
`EngineAssumption`, `CacheAssumption`, `RaftAssumption`, `ShardsAssumption` with
`HalvingAssumption`, `SchedulerAssumption`, `SelectionAssumption`, `AgeingAssumption`,
`SnapshotsAssumption`, `BackupsAssumption`, `ServerAssumption` with
`NobodyAssumption`, `MachineAssumption`, `QueryAssumption`, `FlightAssumption`, `LinesAssumption`,
`RemoteAssumption`), which TLC evaluates in the runs, and for any value of the bounds.

The log:

| Theorem | Statement | Argument |
|---|---|---|
| `WalTypeCorrect`, `WriterIsConsistent` | `Spec => []TypeOK`, `[]WriterConsistent` | `WInv`: types, with what the writer knows (`WriterInv`): its offset counts the records of the file and of the buffer, orphan headers stand no later than it, what is torn can be completed by the buffer or is an orphan, and a write that reaches its flush has no orphan in its own place. One lemma per way a file grows (`DrainedFile`) or a record fails (`RecordFailsIs`, `FirstRecordFailsIs`), then step by step in `WriterStep` |
| `AckedWritesSurvive` | `SyncEnabled \/ ~PowerLossPossible` implies `Spec => []AckedInWal` | `DurInv`: each acknowledged entry is `Kept`: its record is in its place, behind a sync when sync is on (`ExtendsSynced`, `SurvivingFile`), and if it was sound when it was acknowledged it stays so, because the orphan of a later failure stands at the offset, behind every acknowledged record. Every other step only extends files (`ExtendsKeeps`). A purge and the loss of a directory entry take their entries with them |
| `AcksAreOrdered` | `Spec => []AckOrder` | `OrderInv`: while nothing is holed, the ids on disk are an initial segment, acknowledged entries lie in files at or before the current one, so a new entry comes after them (`OrderKept`) |
| `LogOnlyAppends` | `Spec => OnlyAppends` | `AppendStep`: each step leaves every file alone but the current one, whose records stay a prefix; a new file has an id that is not on disk |
| `WalImplementsAckedLog` | under the premise of `AckedWritesSurvive`, `Spec => ImplementsAckedLog` | `PromiseInv`: the invariants above and `NumberInv`, that the acknowledged entries are numbered without a gap. As long as nothing is `holed` or `Unreached`, all of them are sound, so the n-th entry in the order of replay is the one with the number n (`ReplayGivesAckLog`), and a step appends to that sequence or leaves it |

The engine:

| Theorem | Statement | Argument |
|---|---|---|
| `EngineRunsTheLog` | `EngineSpec => Spec` | each engine action is a log action or a stutter |
| `EngineKeepsAckedWrites`, `EngineKeepsThePromise` | `EngineSpec => []AckedInWal`, `ImplementsAckedLog`, under the same premise | the previous one, with the theorems about the log |
| `IndexCoversTheMemtable` | `EngineSpec => []IndexCoversMem` | invariant with the write in progress: its series are indexed before the log is called and until its rows are in the memtable; deletes empty the memtable with the index |
| `TsspFilesAreImmutable` | `EngineSpec => LiveFilesImmutable` | `FilesInv`: listed files exist, once, with ids below the counter; so a new file never has the id of a listed one |
| `MemoryWithinLog`, `MetasAreAccurate` | `EngineSpec => []NothingBeyondLog`, `[]MetasAccurate` | `EngineInv`: what the memtable holds is in the log, record by record, as JSON leaves it (`Stored`, `MemRowsAreLogged`); what a flush or a compaction writes is a non-empty list of such rows, whatever files are unreadable (`WrittenRows`); a file is written with the range of its rows, and reading it back only loses fields. A row may have lost its fields before, to a value that is no number: `NothingBeyondLog` knows which |
| `ReadsAreFresh` | the premise of `AckedWritesSurvive` implies `EngineSpec => []FreshRead` | `FreshInv`: for each key of an acknowledged write that was not hidden, the memtable or, if it has none, a listed file holds the row of that write or of a later one, with what JSON leaves of it (`Served`). A flush, a compaction and a restart take such a row from one place to another; an error hides its key, and so does a restart whose replay skips it behind an orphan (`FreshReplayed`) |

The rest:

| Theorem | Statement | Argument |
|---|---|---|
| `HitsStayCurrent` | `Spec => []HitsAreCurrent` of QueryCache | `HitsInv`: every entry equals the last insertion of its key, in value and time; removals of any kind keep that (`RemovalKeepsHits`) |
| `CacheTypeCorrect` | `Spec => []CacheTypeOK` | `HitsInv` with `AgesInv`: no entry is used before it is made, and the statistics count the entries |
| `CountCoversHeld`, `CacheWithinLimits` | `Spec => []BytesCoverHeld`, `[]WithinLimits` | `HeldInv`: finitely many entries, their bytes within the count. Sums of sizes are cardinalities of sets of bytes, so that a removal takes away a disjoint part |
| `RecentResultsStay` | `Spec => []RecentlyUsedStay` | `UseInv`: an entry was last used when its key was (`use`), and holds no more than its key has asked for since then. An evicted entry was no younger than those that stay and any other victim; with the last victim and the new result these were too many or too large, and each of them has asked for its share (`OneSlotMore`, `RoomForBoth`), so the evicted key is crowded out (`VictimsAreCrowded`). Later uses of other keys only add to the crowd (`CrowdsGrow`, `CrowdedStays`) |
| `ElectionSafety` | `Spec => []AtMostOneElected` of Raft | `VoteInv`: `votedFor` still says what a node granted, and whoever holds its lock holds it alone and has seen its present value; two quorums share a node |
| `RaftTypeCorrect` | `Spec => []RaftTypeOK` | `VoteInv` for the lock of voted_for, `StoreInv` for that of the log: whoever finds it free is the only one to go on |
| `StoredEntriesArrive` | if the entries of each request have ascending indices, `Spec => EntriesArrive` | the loop of append_entries as a function of its round (`RoundsExist`, `StoredByRounds`, by a least round that fails: `LeastExists`); an entry lies no further than its index, and a later round writes beyond it or at the end (`RoundsKeepEntries`) |
| `ShardsTypeCorrect`, `SplitsFinishTheirMark` | `ShardsSpec => []ShardsTypeOK`, `[]NoSplitLeftBehind` | `ShardsInv`: types, room for the identifier a split adds, and the mark itself, which two splits of one shard share |
| `MetadataNotTorn` | `ShardsSpec => []NoTornMetadata` | `WholePairs`: the copy a split works on holds a pair of one report as well, and half of such a pair is one again |
| `TimesAreFound` | `ShardsSpec => []FoundWhereMapped`, and for every integer time | a time from the epoch on lies between its quotient and the next (`QuotientEncloses`), and in no other shard (`SameMultiple`) |
| `HistoryIsComplete` | `SchedSpec => []HistoryComplete` | `SchedInv`: types with the sum itself. A handler that returns moves one run to its caller, a push moves one from its caller to the history, both as cardinalities of sets |
| `TiersAgree` | `AgeingSpec => []TiersFollowAge` | `AgeingInv`: data placed ahead of the clock is cold, other data is never ahead of it again and in no colder tier than its age gives; the tiers are then compared limit by limit |
| `DropsOnlyExpired` | `AgeingSpec => []FilterDropsOnlyExpired` | the threshold of the filter is no later than the one it stands for as long as a second has two nanoseconds and the clock two seconds (`ThresholdIsLate`) |
| `ListedSnapshotsAreComplete`, `ListedSnapshotsStay` | `SnapSpec => []ListedIsComplete`, `[]ListedStays` | `SnapInv`: an identifier in progress belongs to one thread and is not listed; a manifest has its directory unless its removal failed; a restart numbers on from the largest identifier it lists, which a well-founded order gives (`LargestExists`) |
| `CleanupKeepsTheNewest` | `ClockStaysSmall` implies `SnapSpec => []SnapshotCleanupKeepsNewest` | `KeepInv`: timestamps are distinct readings of the clock (`TimesFit`); what a clean-up has chosen was out of date then and stays so, and no creation has its identifier (`VictimsFit`), since a restart, which gives identifiers out again, ends the clean-up |
| `RootsWereFull`, `CleanupsKeepNewest` | `BackupsSpec => []RootWasFull`, `[]BackupCleanupKeepsNewest` | `RootInv`: a root in progress was written; `OnceInv`: a generated identifier is written once, at its own time, so that what a clean-up has listed is what it removes, and newer manifests stay written |
| `AnswersShowWholeRequests` | `ServerSpec => []ReadsSeeWholeRequests` | `ServerInv`: whoever works under the lock is entered in it, and writers exclude readers (`Held`); the rows are what the turns so far leave behind, the newer over the older (`LeftIn`), a writer still at work having the last of them, and after a reader still at work only readers have had a turn (`Ordered`). So what a reader has found does not change any more by what the writers before it do, and no later turn counts for it |
| `RepliesAreHonest` | `ServerSpec => []RepliesMatchStore` | `HonestInv`: in every step the lines a thread has stored, refused and left add up to those it found, be they of the body or of the headers (`CountsLines`), and the rows of a remote write are those of its samples so far (`TakesSamples`), so that the status chosen at the end tells what was done (`FairStatus`) |

Algorithms on lists, for lists of any length. The library's induction theorems take an
operator as a parameter, which the provers cannot instantiate. So induction is made by
hand: the rounds where a claim holds form a set of numbers; if it misses one there is a
least one that it misses (`LeastExists`), which is not the first and follows one where
the claim holds (`RoundInduction`). That the function of a loop exists is shown once,
for a loop given as a table of its steps (`LoopExists`).

| Theorem | Statement | Argument |
|---|---|---|
| `SelectionsAreFaithful` | `SelectionSpec => []EveryFileOnce` | a sort permutes its list (`RanksAreTaken`: each rank is taken once); after each round of the loops the batches hold the files so far, one behind the other (`BatchRounds`, `MergeRounds`), so each file is in one of them, and at most the last is left over by a merge |
| `DownsamplingIsFaithful` | `AgeingSpec => []DownsampleFaithful` | each point lies in the bucket of its truncated quotient and in no other (`BucketUnique`); the truncated mean lies between the extremes of the values it sums (`MeanBetween`); the coarse bucket of a fine bucket is that of its points (`BucketOfBucket`), since one interval is a multiple of the other |
| `ConditionsAreHonoured` | `QuerySpec => []ConditionHonoured` | the clause loop keeps the condition of the first WHERE, whatever other clauses there are (`FirstWhereFacts`); its filter, if it has one, passes no row that does not meet the condition (`FilterIsSound`), and exactly the others if the condition is simple (`FilterIsExact`). What a name that begins with "time" makes of a comparison is a lemma of its own (`TimeFilter`) |
| `AggregatesAreRight` | `QuerySpec => []AggregatesAgree` | the column is the values of the rows that have the field (`ColumnFacts`); where it adds up within 64 bits `SumValue` neither dies nor wraps, and no cast changes a value (`WrappedFits`, `SumValueIs`); an extreme is one of the values that none beats (`ExtremeIs`) |
| `RowsSurviveTheTrip` | `FlightSpec => []FlightRoundTrip` | the batches, one behind the other, are the rows (`ChunkRounds`, `ChunksAreCut`); each is read back row by row under the columns of its first row, each value as the cast of its column leaves it (`BatchAndBack`); `FlightInv` says which rows `do_put` has written |
| `LinesAreNotMistaken` | `LinesSpec => []LineNotMistaken` | `Unescape` undoes `Escape` character by character (`EscapeClean`); where the spaces and commas of a line lie follows from its parts (`PiecesAre`, `TailFacts`); the last piece of a string that is cut ends with its quote and does not begin with one (`BadPiece`), and one bad piece is enough to refuse the line (`ParsedBad`) |
| `RemoteDecodesWhatArrived` | `RemoteSpec => []RemoteDecoded` | a number is put together again from its groups of seven bits (`ShiftedRounds`, `VarintIs`); a round at the start of a whole part takes it (`TakesPart`), one at a part that is cut ends the loop (`StopsAtLongPart`), so a scan gives the parts that fit (`ScanUpTo`); then one level of messages after the other, from the label to the request |

Premises. That of `AckedWritesSurvive` is real: `bin/server.rs:25` runs with
`sync_enabled: false`, where a power loss takes acknowledged writes, against
ARCHITECTURE.md:94. The run `wal` shows the mutant without the sync violating it.
`ClockStaysSmall` says that the
clock in seconds stays below its first reading in nanoseconds: with a clock of our
days this holds for the next 10^18 seconds, and it is why the pass by age of the
clean-up finds nothing. Ascending indices are what `EntriesArrive` asks of a request: with the
same index twice the second entry replaces the first, as it should. `HalvingAssumption`
says that `MaxHalvings` is the number of bits of what is reported. `RemoteAssumption`
bounds a body by 2^49 bytes, far above what one packet brings; without a bound the
arithmetic of the decoder could wrap. `LinesAssumption` leaves the string free: any
sequence of the characters that have a meaning.

Only model-checked: liveness (`Progress`, `PollersEnd`, `EveryRequestAnswered`), which
is out of the prover's reach, and the violations that the findings show.

## 5. Not modelled

Left out of the components that are modelled:

- the byte layout of records and TSSP files, the compression codecs, the bloom
  filters (no read of the engine consults them), counters that are only reported;
- the truncation of series ids to 32 bits: two series that collide would share an
  index entry; the model takes the hash to be injective;
- bytes that replay reads out of step, behind an orphan header, and that happen to
  make a batch: they are taken to be none;
- a restart of a Raft node, which forgets its vote, since nothing is stored;
- writes of the engine as far as the query cache is concerned: nothing invalidates a
  cached answer, and only its age is bounded;
- the sum of `i64` values in a bucket (downsample/mod.rs:188), which can overflow:
  the means of the model are those of values whose sum fits;
- the wire format of a Prometheus client, see `Remote`;
- `group_by_time`, the mean of an answer, and `query/mod.rs`, whose executor
  (`execute_select`) nothing calls;
- `convert_timestamp` of the server, which divides where its names suggest a
  multiplication, as its tests expect; `url_decode`; `/metrics` and `/status`;
- `max_execution_history` of the scheduler, which nothing enforces, and its times of
  the next run, which nothing waits for;
- the counters of `CompactionManager` and `MergeScheduler`, which nothing calls;
- what `commit_index` of Raft ought to mean: the code lets it go back when a repeated
  request replaces the last entry, and only a leader, which the repository does not
  have, could say which entries are committed. RaftCluster and membership are read
  by no handler.

Components without a module, for the reasons PROJECT.json gives: the meta client
(one map operation per call, called by nobody), bloom filter and block index (not
consulted), configuration and errors (data), and of the foreign formats `otel`,
whose exporters build values and send nothing.

What could come next:

1. a leader for Raft that sends append requests, and what the logs of two nodes and
   `commit_index` should then have in common;
2. the engine below the server: its reads and flushes in the place of `rows`.
