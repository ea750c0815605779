------------------------------- MODULE Shards -------------------------------
(***************************************************************************)
(* The shard manager: a table of immutable shard records behind one lock,  *)
(* replaced as a whole by every update.  split_shard and migrate_shard     *)
(* take the lock several times and work on a copy in between.  The mapper  *)
(* and the look-up by time are operators over timestamps of either sign.   *)
(***************************************************************************)
EXTENDS Integers, Tables

CONSTANTS
  ShardThreads,     \* threads that share the manager
  ShardIds,         \* identifiers in use, a finite set of numbers
  SplitOffset,      \* what split_shard adds to an identifier (1000000)
  ShardDuration,    \* the length of a shard in seconds, one for all shards
  ShardReports,     \* <<size_bytes, row_count>> pairs reported by update_shard_metadata
  ClientStatuses,   \* statuses that callers of update_shard_status pass
  MaxHalvings       \* the bits of a reported number (64): so many splits leave 0 of it

ASSUME ShardsAssumption ==
  /\ ShardIds \subseteq Nat
  /\ SplitOffset \in Nat \ {0}
  /\ ShardDuration \in Nat \ {0}
  /\ ShardReports \subseteq Nat \X Nat
  /\ ClientStatuses \subseteq {"Active", "Inactive", "ReadOnly"}

\* The pairs a record can hold: a report, halved zero or more times.
Halved(pair, n) == <<pair[1] \div (2^n), pair[2] \div (2^n)>>
Pairs ==
  {<<0, 0>>} \cup ShardReports \cup {Halved(r, k) : r \in ShardReports, k \in 1..MaxHalvings}

ASSUME HalvingAssumption == \A pair \in Pairs : <<pair[1] \div 2, pair[2] \div 2>> \in Pairs

VARIABLES
  shards,        \* ShardManager.shards: identifier -> record
  shardCalls     \* thread -> the split or migration it is in the middle of

shardVars == <<shards, shardCalls>>

ShardStatus == {"Active", "Inactive", "ReadOnly", "Migrating", "Spliting"}
ShardInfo == [status : ShardStatus, size : Nat, rows : Nat]
NoCall == [op |-> "none"]
Calls ==
  {NoCall}
    \cup [op : {"split", "splitting"}, id : ShardIds, size : Nat, rows : Nat]
    \cup [op : {"migrate"}, id : ShardIds]

NewShard(size, rows) == [status |-> "Active", size |-> size, rows |-> rows]

\* What update_shard_status leaves in the table.
WithStatus(id, status) ==
  IF id \in DOMAIN shards THEN [shards EXCEPT ![id].status = status] ELSE shards

ShardIdle(t) == shardCalls[t] = NoCall
SetCall(t, call) == shardCalls' = [shardCalls EXCEPT ![t] = call]

-----------------------------------------------------------------------------
ShardsInit ==
  /\ shards = NoEntries
  /\ shardCalls = [t \in ShardThreads |-> NoCall]

\* create_shard replaces a shard that has the identifier already.
CreateShard(t, id) ==
  /\ ShardIdle(t)
  /\ shards' = Put(shards, id, NewShard(0, 0))
  /\ UNCHANGED shardCalls

RemoveShard(t, id) ==
  /\ ShardIdle(t)
  /\ id \in DOMAIN shards
  /\ shards' = Drop(shards, id)
  /\ UNCHANGED shardCalls

UpdateShardStatus(t, id, status) ==
  /\ ShardIdle(t)
  /\ shards' = WithStatus(id, status)
  /\ UNCHANGED shardCalls

UpdateShardMetadata(t, id, report) ==
  /\ ShardIdle(t)
  /\ id \in DOMAIN shards
  /\ shards' = [shards EXCEPT ![id].size = report[1], ![id].rows = report[2]]
  /\ UNCHANGED shardCalls

\* split_shard, first lock: take a copy and check its status.
SplitRead(t, id) ==
  /\ ShardIdle(t)
  /\ id \in DOMAIN shards /\ id + SplitOffset \in ShardIds
  /\ shards[id].status \notin {"Migrating", "ReadOnly"}
  /\ SetCall(t, [op |-> "split", id |-> id, size |-> shards[id].size, rows |-> shards[id].rows])
  /\ UNCHANGED shards

\* Second lock: update_shard_status, whose failure is ignored.
SplitMark(t) ==
  /\ shardCalls[t].op = "split"
  /\ shards' = WithStatus(shardCalls[t].id, "Spliting")
  /\ SetCall(t, [shardCalls[t] EXCEPT !.op = "splitting"])

\* Mutant: only the new shard is inserted, the copy is not written back.
HalvesWithoutCopy(call) ==
  Put(shards, call.id + SplitOffset, NewShard(call.size \div 2, call.rows \div 2))

\* Mutant: the size comes from the copy, the rows from the table.
HalvesMixed(call) ==
  LET rows == IF call.id \in DOMAIN shards THEN shards[call.id].rows ELSE call.rows
      half == NewShard(call.size \div 2, rows \div 2)
  IN  Put(Put(shards, call.id, half), call.id + SplitOffset, half)

\* Third lock: both halves of the copy replace whatever the table holds.
Halves(call) ==
  LET half == NewShard(call.size \div 2, call.rows \div 2)
  IN  Put(Put(shards, call.id, half), call.id + SplitOffset, half)

SplitWrite(t) ==
  /\ shardCalls[t].op = "splitting"
  /\ shards' = Halves(shardCalls[t])
  /\ SetCall(t, NoCall)

\* migrate_shard: the check, then update_shard_status under another lock.
MigrateRead(t, id) ==
  /\ ShardIdle(t)
  /\ id \in DOMAIN shards /\ shards[id].status = "Active"
  /\ SetCall(t, [op |-> "migrate", id |-> id])
  /\ UNCHANGED shards

MigrateMark(t) ==
  /\ shardCalls[t].op = "migrate"
  /\ shards' = WithStatus(shardCalls[t].id, "Migrating")
  /\ SetCall(t, NoCall)

ShardsNext ==
  \E t \in ShardThreads :
    \/ SplitMark(t)
    \/ SplitWrite(t)
    \/ MigrateMark(t)
    \/ \E id \in ShardIds :
         \/ CreateShard(t, id)
         \/ RemoveShard(t, id)
         \/ \E status \in ClientStatuses : UpdateShardStatus(t, id, status)
         \/ \E report \in ShardReports : UpdateShardMetadata(t, id, report)
         \/ SplitRead(t, id)
         \/ MigrateRead(t, id)

ShardsSpec == ShardsInit /\ [][ShardsNext]_shardVars

-----------------------------------------------------------------------------
(* The mapper and the look-up by time. *)

UnsignedAbs(a) == IF a >= 0 THEN a ELSE -a

MapShard(timestamp) == UnsignedAbs(TruncDiv(timestamp, ShardDuration))

\* Mutant: the end of a range belongs to it.
InTimeRangeInclusive(id, timestamp) ==
  /\ timestamp >= id * ShardDuration
  /\ timestamp <= id * ShardDuration + ShardDuration

InTimeRange(id, timestamp) ==
  /\ timestamp >= id * ShardDuration
  /\ timestamp < id * ShardDuration + ShardDuration

\* The shards that the scan of find_shard_by_time can return.
FindShardByTime(timestamp) == {id \in DOMAIN shards : InTimeRange(id, timestamp)}

-----------------------------------------------------------------------------
(* Properties. *)

\* Records and calls in progress have their declared types.
ShardsTypeOK ==
  /\ DOMAIN shards \subseteq ShardIds
  /\ shards \in [DOMAIN shards -> ShardInfo]
  /\ shardCalls \in [ShardThreads -> Calls]

\* A shard is left as being split only while some split_shard of it is on its
\* way to writing it back: whatever other threads do between the three locks,
\* no shard stays locked out of migration by a split that has returned.
NoSplitLeftBehind ==
  \A id \in DOMAIN shards :
    shards[id].status = "Spliting" =>
      \E t \in ShardThreads : shardCalls[t].op = "splitting" /\ shardCalls[t].id = id

\* The size and the row count of a shard come from one report: no interleaving
\* of updates of the status, updates of the metadata and splits, which all
\* rebuild the whole record, mixes the size of one with the rows of another.
NoTornMetadata ==
  \A id \in DOMAIN shards : <<shards[id].size, shards[id].rows>> \in Pairs

\* Whatever was created, split, removed or replaced, a timestamp from the epoch
\* on is found in the shard it maps to, if that shard is there, and in no other;
\* one before the epoch is found nowhere although it maps to a shard as well.
Timestamps == (-2 * ShardDuration)..(3 * ShardDuration)
FoundAt(ts) ==
  FindShardByTime(ts) = IF ts >= 0 THEN {MapShard(ts)} \cap DOMAIN shards ELSE {}
FoundWhereMapped == \A ts \in Timestamps : FoundAt(ts)
=============================================================================
