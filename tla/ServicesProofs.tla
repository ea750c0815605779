--------------------------- MODULE ServicesProofs ---------------------------
(***************************************************************************)
(* Proofs about the small services, each for any values of its constants:  *)
(* Shards (types, the mark of a split, where a time is found, pairs that   *)
(* are not torn), Scheduler (its history), Selection (every file once) and *)
(* Ageing (tiers, expiry, downsampling).                                   *)
(***************************************************************************)
EXTENDS Shards, Scheduler, Selection, Ageing, ListProofs

\* The identifier a split adds is one of the identifiers in use.
SplitsHaveRoom ==
  \A t \in ShardThreads :
    shardCalls[t].op \in {"split", "splitting"} => shardCalls[t].id + SplitOffset \in ShardIds

ShardsInv == ShardsTypeOK /\ SplitsHaveRoom /\ NoSplitLeftBehind

\* What Put and Drop make of a table.
LEMMA PutTable ==
  ASSUME NEW table, NEW key, NEW value
  PROVE  /\ DOMAIN Put(table, key, value) = DOMAIN table \cup {key}
         /\ Put(table, key, value)[key] = value
         /\ \A k \in DOMAIN table : k # key => Put(table, key, value)[k] = table[k]
BY DEF Put

LEMMA DropTable ==
  ASSUME NEW table, NEW key
  PROVE  /\ DOMAIN Drop(table, key) = DOMAIN table \ {key}
         /\ \A k \in DOMAIN table \ {key} : Drop(table, key)[k] = table[k]
BY DEF Drop, Restrict

\* Half of a natural number is one.
LEMMA HalfOfNat == \A n \in Nat : n \div 2 \in Nat
OBVIOUS

LEMMA ShardsInitInv == ShardsAssumption /\ ShardsInit => ShardsInv
BY DEF ShardsInit, ShardsInv, ShardsTypeOK, SplitsHaveRoom, NoSplitLeftBehind, NoEntries,
       NoCall, Calls, ShardInfo

\* A step that leaves the table with records of the right type and marks none as
\* being split, and leaves calls alone, keeps the invariant.
LEMMA TableStep ==
  ASSUME ShardsInv, UNCHANGED shardCalls,
         DOMAIN shards' \subseteq ShardIds,
         \A id \in DOMAIN shards' :
           /\ shards'[id] \in ShardInfo
           /\ shards'[id].status = "Spliting" =>
                id \in DOMAIN shards /\ shards[id].status = "Spliting",
         shards' = [id \in DOMAIN shards' |-> shards'[id]]
  PROVE  ShardsInv'
BY DEF ShardsInv, ShardsTypeOK, SplitsHaveRoom, NoSplitLeftBehind

\* update_shard_status with anything but the mark of a split.
LEMMA StatusStep ==
  ASSUME ShardsInv, NEW id \in ShardIds, NEW status \in ShardStatus \ {"Spliting"}
  PROVE  /\ DOMAIN WithStatus(id, status) = DOMAIN shards
         /\ WithStatus(id, status) \in [DOMAIN shards -> ShardInfo]
         /\ \A i \in DOMAIN shards :
              WithStatus(id, status)[i].status = "Spliting" => shards[i].status = "Spliting"
BY DEF ShardsInv, ShardsTypeOK, WithStatus, ShardInfo

LEMMA ShardsStepInv ==
  ASSUME ShardsAssumption, ShardsInv, [ShardsNext]_shardVars
  PROVE  ShardsInv'
<1> USE DEF shardVars
<1>1. ASSUME NEW t \in ShardThreads, NEW id \in ShardIds, CreateShard(t, id)
      PROVE  ShardsInv'
  <2>1. NewShard(0, 0) \in ShardInfo /\ NewShard(0, 0).status = "Active"
    BY DEF NewShard, ShardInfo, ShardStatus
  <2>2. shards' = Put(shards, id, NewShard(0, 0)) /\ UNCHANGED shardCalls
    BY <1>1 DEF CreateShard
  <2> QED
    BY <2>1, <2>2, PutTable, TableStep DEF ShardsInv, ShardsTypeOK, Put
<1>2. ASSUME NEW t \in ShardThreads, NEW id \in ShardIds, RemoveShard(t, id)
      PROVE  ShardsInv'
  <2>1. shards' = Drop(shards, id) /\ UNCHANGED shardCalls
    BY <1>2 DEF RemoveShard
  <2> QED
    BY <2>1, DropTable, TableStep DEF ShardsInv, ShardsTypeOK, Drop, Restrict
<1>3. ASSUME NEW t \in ShardThreads, NEW id \in ShardIds, NEW status \in ClientStatuses,
             UpdateShardStatus(t, id, status)
      PROVE  ShardsInv'
  <2>1. status \in ShardStatus \ {"Spliting"}
    BY DEF ShardsAssumption, ShardStatus
  <2>2. shards' = WithStatus(id, status) /\ UNCHANGED shardCalls
    BY <1>3 DEF UpdateShardStatus
  <2> QED
    BY <2>1, <2>2, StatusStep, TableStep DEF ShardsInv, ShardsTypeOK
<1>4. ASSUME NEW t \in ShardThreads, NEW id \in ShardIds, NEW report \in ShardReports,
             UpdateShardMetadata(t, id, report)
      PROVE  ShardsInv'
  <2>1. report[1] \in Nat /\ report[2] \in Nat
    BY DEF ShardsAssumption
  <2>2. /\ id \in DOMAIN shards /\ UNCHANGED shardCalls
        /\ shards' = [shards EXCEPT ![id].size = report[1], ![id].rows = report[2]]
    BY <1>4 DEF UpdateShardMetadata
  <2>3. \A i \in DOMAIN shards : shards'[i] \in ShardInfo /\ shards'[i].status = shards[i].status
    BY <2>1, <2>2 DEF ShardsInv, ShardsTypeOK, ShardInfo
  <2> QED
    BY <2>2, <2>3, TableStep DEF ShardsInv, ShardsTypeOK
<1>5. ASSUME NEW t \in ShardThreads, NEW id \in ShardIds, SplitRead(t, id) \/ MigrateRead(t, id)
      PROVE  ShardsInv'
  <2>1. PICK call \in Calls : /\ shardCalls' = [shardCalls EXCEPT ![t] = call]
                              /\ call.op # "splitting"
                              /\ call.op = "split" => call.id + SplitOffset \in ShardIds
    <3>1. CASE SplitRead(t, id)
      <4> DEFINE call == [op |-> "split", id |-> id, size |-> shards[id].size,
                          rows |-> shards[id].rows]
      <4>1. shards[id].size \in Nat /\ shards[id].rows \in Nat
        BY <3>1 DEF SplitRead, ShardsInv, ShardsTypeOK, ShardInfo
      <4>2. call \in Calls /\ call.op = "split" /\ call.id = id
        BY <4>1 DEF Calls
      <4>3. shardCalls' = [shardCalls EXCEPT ![t] = call] /\ id + SplitOffset \in ShardIds
        BY <3>1 DEF SplitRead, SetCall
      <4> HIDE DEF call
      <4> QED
        BY <4>2, <4>3
    <3>2. CASE MigrateRead(t, id)
      <4> DEFINE call == [op |-> "migrate", id |-> id]
      <4>1. call \in Calls /\ call.op = "migrate"
        BY DEF Calls
      <4>2. shardCalls' = [shardCalls EXCEPT ![t] = call]
        BY <3>2 DEF MigrateRead, SetCall
      <4> HIDE DEF call
      <4> QED
        BY <4>1, <4>2
    <3> QED
      BY <1>5, <3>1, <3>2
  <2>2. shardCalls[t].op # "splitting" /\ UNCHANGED shards
    BY <1>5 DEF SplitRead, MigrateRead, ShardIdle, NoCall
  <2> QED
    BY <2>1, <2>2 DEF ShardsInv, ShardsTypeOK, SplitsHaveRoom, NoSplitLeftBehind
<1>6. ASSUME NEW t \in ShardThreads, SplitMark(t)
      PROVE  ShardsInv'
  <2> DEFINE call == shardCalls[t]
  <2>1. /\ call \in Calls /\ call.op = "split" /\ call.id + SplitOffset \in ShardIds
        /\ shards' = WithStatus(call.id, "Spliting")
        /\ shardCalls' = [shardCalls EXCEPT ![t] = [call EXCEPT !.op = "splitting"]]
    BY <1>6 DEF SplitMark, SetCall, ShardsInv, ShardsTypeOK, SplitsHaveRoom
  <2>2. /\ [call EXCEPT !.op = "splitting"] \in Calls
        /\ [call EXCEPT !.op = "splitting"].op = "splitting"
        /\ [call EXCEPT !.op = "splitting"].id = call.id
    BY <2>1 DEF Calls, NoCall
  <2>3. ShardsTypeOK'
    BY <2>1, <2>2 DEF ShardsInv, ShardsTypeOK, WithStatus, ShardInfo, ShardStatus
  <2>4. SplitsHaveRoom'
    BY <2>1, <2>2 DEF ShardsInv, ShardsTypeOK, SplitsHaveRoom
  <2>5. ASSUME NEW id \in DOMAIN shards', shards'[id].status = "Spliting"
        PROVE  \E u \in ShardThreads : shardCalls'[u].op = "splitting" /\ shardCalls'[u].id = id
    <3>1. shardCalls'[t].op = "splitting" /\ shardCalls'[t].id = call.id
      BY <2>1, <2>2 DEF ShardsInv, ShardsTypeOK
    <3>2. CASE id # call.id
      <4>1. id \in DOMAIN shards /\ shards[id].status = "Spliting"
        BY <2>1, <2>5, <3>2 DEF WithStatus
      <4>2. PICK u \in ShardThreads : shardCalls[u].op = "splitting" /\ shardCalls[u].id = id
        BY <4>1 DEF ShardsInv, NoSplitLeftBehind
      <4> QED
        BY <2>1, <4>2 DEF ShardsInv, ShardsTypeOK
    <3> QED
      BY <3>1, <3>2
  <2> QED
    BY <2>3, <2>4, <2>5 DEF ShardsInv, NoSplitLeftBehind
<1>7. ASSUME NEW t \in ShardThreads, SplitWrite(t)
      PROVE  ShardsInv'
  <2> DEFINE call == shardCalls[t]
             half == NewShard(call.size \div 2, call.rows \div 2)
             first == Put(shards, call.id, half)
  <2>1. /\ call \in Calls /\ call.op = "splitting" /\ call.id + SplitOffset \in ShardIds
        /\ call.id \in ShardIds
        /\ shards' = Put(first, call.id + SplitOffset, half)
        /\ shardCalls' = [shardCalls EXCEPT ![t] = NoCall]
    BY <1>7 DEF SplitWrite, Halves, SetCall, ShardsInv, ShardsTypeOK, SplitsHaveRoom, Calls, NoCall
  <2>2. half \in ShardInfo /\ half.status = "Active"
    BY <2>1, HalfOfNat DEF Calls, NoCall, NewShard, ShardInfo, ShardStatus
  <2>3. /\ DOMAIN shards' = DOMAIN shards \cup {call.id, call.id + SplitOffset}
        /\ \A i \in DOMAIN shards' : IF i \in {call.id, call.id + SplitOffset}
                                     THEN shards'[i] = half
                                     ELSE i \in DOMAIN shards /\ shards'[i] = shards[i]
        /\ shards' = [i \in DOMAIN shards' |-> shards'[i]]
    <3> HIDE DEF half
    <3> QED
      BY <2>1 DEF Put
  <2>4. ShardsTypeOK'
    <3> HIDE DEF half
    <3>1. shardCalls' \in [ShardThreads -> Calls]
      BY <2>1 DEF ShardsInv, ShardsTypeOK, Calls
    <3> QED
      BY <2>1, <2>2, <2>3, <3>1 DEF ShardsInv, ShardsTypeOK
  <2>5. SplitsHaveRoom'
    BY <2>1 DEF ShardsInv, ShardsTypeOK, SplitsHaveRoom, NoCall
  <2>6. ASSUME NEW id \in DOMAIN shards', shards'[id].status = "Spliting"
        PROVE  \E u \in ShardThreads : shardCalls'[u].op = "splitting" /\ shardCalls'[u].id = id
    <3> HIDE DEF half
    <3>1. id # call.id /\ id \in DOMAIN shards /\ shards[id].status = "Spliting"
      BY <2>2, <2>3, <2>6
    <3>2. PICK u \in ShardThreads : shardCalls[u].op = "splitting" /\ shardCalls[u].id = id
      BY <3>1 DEF ShardsInv, NoSplitLeftBehind
    <3> QED
      BY <2>1, <3>1, <3>2 DEF ShardsInv, ShardsTypeOK
  <2> QED
    BY <2>4, <2>5, <2>6 DEF ShardsInv, NoSplitLeftBehind
<1>8. ASSUME NEW t \in ShardThreads, MigrateMark(t)
      PROVE  ShardsInv'
  <2>1. /\ shardCalls[t].op = "migrate" /\ shardCalls[t].id \in ShardIds
        /\ shards' = WithStatus(shardCalls[t].id, "Migrating")
        /\ shardCalls' = [shardCalls EXCEPT ![t] = NoCall]
    BY <1>8 DEF MigrateMark, SetCall, ShardsInv, ShardsTypeOK, Calls, NoCall
  <2>2. /\ DOMAIN shards' = DOMAIN shards /\ shards' \in [DOMAIN shards -> ShardInfo]
        /\ \A i \in DOMAIN shards :
             shards'[i].status = "Spliting" => shards[i].status = "Spliting"
    BY <2>1, StatusStep DEF ShardStatus
  <2> QED
    BY <2>1, <2>2 DEF ShardsInv, ShardsTypeOK, SplitsHaveRoom, NoSplitLeftBehind, NoCall, Calls
<1>9. ASSUME UNCHANGED shardVars
      PROVE  ShardsInv'
  BY <1>9 DEF ShardsInv, ShardsTypeOK, SplitsHaveRoom, NoSplitLeftBehind
<1> QED
  BY <1>1, <1>2, <1>3, <1>4, <1>5, <1>6, <1>7, <1>8, <1>9 DEF ShardsNext

-----------------------------------------------------------------------------
LEMMA ShardsAlwaysInv == ShardsSpec => []ShardsInv
<1>1. ShardsInit => ShardsInv
  BY ShardsInitInv, ShardsAssumption
<1>2. ShardsInv /\ [ShardsNext]_shardVars => ShardsInv'
  BY ShardsStepInv, ShardsAssumption
<1> QED
  BY <1>1, <1>2, PTL DEF ShardsSpec

\* Records and calls in progress keep their types (shard/mod.rs).
THEOREM ShardsTypeCorrect == ShardsSpec => []ShardsTypeOK
<1>1. ShardsInv => ShardsTypeOK
  BY DEF ShardsInv
<1> QED
  BY <1>1, ShardsAlwaysInv, PTL

\* A shard is marked as being split only while a split_shard of it is on its way
\* to writing it back, whatever other threads do between its three locks.
THEOREM SplitsFinishTheirMark == ShardsSpec => []NoSplitLeftBehind
<1>1. ShardsInv => NoSplitLeftBehind
  BY DEF ShardsInv
<1> QED
  BY <1>1, ShardsAlwaysInv, PTL

-----------------------------------------------------------------------------
(* Multiples of the duration. *)

\* Two multiples that enclose a number in the same way are one.
LEMMA SameMultiple ==
  ASSUME NEW d \in Nat \ {0}, NEW a \in Int, NEW b \in Int, NEW n \in Int,
         a * d <= n, n < a * d + d, b * d <= n, n < b * d + d
  PROVE  a = b
<1>1. ASSUME NEW x \in Int, NEW y \in Int, x < y PROVE x * d + d <= y * d
  <2>1. PICK k \in Nat : y = x + 1 + k
    <3>1. y - x - 1 \in Nat /\ y = x + 1 + (y - x - 1)
      BY <1>1
    <3> QED
      BY <3>1
  <2>2. y * d = x * d + d + k * d
    BY <2>1
  <2>3. k * d \in Nat /\ x * d \in Int
    BY <2>1
  <2> QED
    BY <2>2, <2>3
<1>2. ~(a < b)
  BY <1>1
<1>3. ~(b < a)
  BY <1>1
<1> QED
  BY <1>2, <1>3

\* The multiple below a number.
LEMMA QuotientEncloses ==
  ASSUME NEW n \in Nat, NEW d \in Nat \ {0}
  PROVE  /\ n \div d \in Nat
         /\ (n \div d) * d <= n
         /\ n < (n \div d) * d + d
OBVIOUS

\* find_shard_by_time finds a time from the epoch on in the shard it maps to, if
\* that shard is there, and in no other; an earlier time is found nowhere,
\* although map_shard, which drops the sign, gives it a shard as well.
THEOREM TimesAreFound ==
  ShardsSpec => [](FoundWhereMapped /\ \A timestamp \in Int : FoundAt(timestamp))
<1>1. ASSUME ShardsTypeOK, NEW timestamp \in Int
      PROVE  FoundAt(timestamp)
  <2> DEFINE d == ShardDuration
             q == timestamp \div d
  <2>1. d \in Nat \ {0} /\ DOMAIN shards \subseteq Nat
    BY <1>1, ShardsAssumption DEF ShardsTypeOK
  <2>2. CASE timestamp < 0
    <3>1. ASSUME NEW id \in DOMAIN shards PROVE ~InTimeRange(id, timestamp)
      <4>1. id * d \in Nat
        BY <2>1
      <4> QED
        BY <4>1, <2>2 DEF InTimeRange
    <3> QED
      BY <2>2, <3>1 DEF FoundAt, FindShardByTime
  <2>3. CASE timestamp >= 0
    <3>1. q \in Nat /\ q * d <= timestamp /\ timestamp < q * d + d
      BY <2>1, <2>3, QuotientEncloses
    <3>2. MapShard(timestamp) = q
      BY <2>3, <3>1 DEF MapShard, TruncDiv, UnsignedAbs
    <3> HIDE DEF q
    <3>3. InTimeRange(q, timestamp)
      BY <3>1 DEF InTimeRange
    <3>4. ASSUME NEW id \in DOMAIN shards, InTimeRange(id, timestamp)
          PROVE  id = q
      <4>1. id \in Int /\ id * d <= timestamp /\ timestamp < id * d + d
        BY <2>1, <3>4 DEF InTimeRange
      <4> HIDE DEF d
      <4> QED
        BY <2>1, <3>1, <4>1, SameMultiple
    <3> QED
      BY <2>3, <3>2, <3>3, <3>4 DEF FoundAt, FindShardByTime
  <2> QED
    BY <2>2, <2>3
<1>2. ShardsTypeOK => FoundWhereMapped /\ \A timestamp \in Int : FoundAt(timestamp)
  <2>1. Timestamps \subseteq Int
    BY DEF Timestamps
  <2> QED
    BY <1>1, <2>1 DEF FoundWhereMapped
<1> QED
  BY <1>2, ShardsTypeCorrect, PTL

-----------------------------------------------------------------------------
(* Sizes and row counts that belong together. *)

PairOf(r) == <<r.size, r.rows>>

\* Records hold pairs of one report, and so do the copies of splits.
WholePairs ==
  /\ \A id \in DOMAIN shards : PairOf(shards[id]) \in Pairs
  /\ \A t \in ShardThreads :
       shardCalls[t].op \in {"split", "splitting"} => PairOf(shardCalls[t]) \in Pairs

LEMMA PairsOfReports ==
  /\ <<0, 0>> \in Pairs
  /\ \A report \in ShardReports : report = <<report[1], report[2]>> /\ report \in Pairs
  /\ \A a, b : <<a, b>> \in Pairs => <<a \div 2, b \div 2>> \in Pairs
<1>1. <<0, 0>> \in Pairs /\ ShardReports \subseteq Pairs
  BY DEF Pairs
<1>2. \A report \in ShardReports : report = <<report[1], report[2]>>
  BY ShardsAssumption DEF ShardsAssumption
<1>3. \A a, b : <<a, b>> \in Pairs => <<a \div 2, b \div 2>> \in Pairs
  <2> SUFFICES ASSUME NEW a, NEW b, <<a, b>> \in Pairs
               PROVE  <<a \div 2, b \div 2>> \in Pairs
    OBVIOUS
  <2> DEFINE pair == <<a, b>>
  <2>1. <<pair[1] \div 2, pair[2] \div 2>> \in Pairs
    BY HalvingAssumption DEF HalvingAssumption
  <2>2. pair[1] = a /\ pair[2] = b
    OBVIOUS
  <2> QED
    BY <2>1, <2>2
<1> QED
  BY <1>1, <1>2, <1>3

\* A step that leaves calls alone, or ends them.
LEMMA PairsStep ==
  ASSUME WholePairs,
         \A id \in DOMAIN shards' :
           \/ id \in DOMAIN shards /\ PairOf(shards'[id]) = PairOf(shards[id])
           \/ PairOf(shards'[id]) \in Pairs,
         \A t \in ShardThreads :
           \/ shardCalls'[t] = shardCalls[t]
           \/ shardCalls'[t].op \notin {"split", "splitting"}
           \/ PairOf(shardCalls'[t]) \in Pairs
  PROVE  WholePairs'
BY DEF WholePairs, PairOf

\* A change of the status keeps the pair of every record.
LEMMA StatusPairs ==
  ASSUME ShardsInv, NEW id, NEW status
  PROVE  /\ DOMAIN WithStatus(id, status) = DOMAIN shards
         /\ \A i \in DOMAIN shards : PairOf(WithStatus(id, status)[i]) = PairOf(shards[i])
BY DEF ShardsInv, ShardsTypeOK, WithStatus, ShardInfo, PairOf

LEMMA WholePairsStep ==
  ASSUME ShardsInv, WholePairs, [ShardsNext]_shardVars
  PROVE  WholePairs'
<1> USE DEF shardVars
<1>1. ASSUME NEW t \in ShardThreads, NEW id \in ShardIds, CreateShard(t, id)
      PROVE  WholePairs'
  <2>1. PairOf(NewShard(0, 0)) \in Pairs
    BY PairsOfReports DEF NewShard, PairOf
  <2>2. shards' = Put(shards, id, NewShard(0, 0)) /\ UNCHANGED shardCalls
    BY <1>1 DEF CreateShard
  <2>3. /\ shards'[id] = NewShard(0, 0)
        /\ \A i \in DOMAIN shards' : i # id => i \in DOMAIN shards /\ shards'[i] = shards[i]
    BY <2>2 DEF Put
  <2> QED
    BY <2>1, <2>2, <2>3, PairsStep
<1>2. ASSUME NEW t \in ShardThreads, NEW id \in ShardIds, RemoveShard(t, id)
      PROVE  WholePairs'
  <2>1. shards' = Drop(shards, id) /\ UNCHANGED shardCalls
    BY <1>2 DEF RemoveShard
  <2> QED
    BY <2>1, DropTable, PairsStep
<1>3. ASSUME NEW t \in ShardThreads, NEW id \in ShardIds, NEW status \in ClientStatuses,
             UpdateShardStatus(t, id, status)
      PROVE  WholePairs'
  <2>1. shards' = WithStatus(id, status) /\ UNCHANGED shardCalls
    BY <1>3 DEF UpdateShardStatus
  <2> QED
    BY <2>1, StatusPairs, PairsStep
<1>4. ASSUME NEW t \in ShardThreads, NEW id \in ShardIds, NEW report \in ShardReports,
             UpdateShardMetadata(t, id, report)
      PROVE  WholePairs'
  <2>1. /\ id \in DOMAIN shards /\ UNCHANGED shardCalls
        /\ shards' = [shards EXCEPT ![id].size = report[1], ![id].rows = report[2]]
    BY <1>4 DEF UpdateShardMetadata
  <2>2. /\ DOMAIN shards' = DOMAIN shards
        /\ \A i \in DOMAIN shards : i # id => shards'[i] = shards[i]
        /\ shards'[id].size = report[1] /\ shards'[id].rows = report[2]
    BY <2>1 DEF ShardsInv, ShardsTypeOK, ShardInfo
  <2>3. PairOf(shards'[id]) \in Pairs
    BY <2>2, PairsOfReports DEF PairOf
  <2> QED
    BY <2>1, <2>2, <2>3, PairsStep
<1>5. ASSUME NEW t \in ShardThreads, NEW id \in ShardIds, SplitRead(t, id)
      PROVE  WholePairs'
  <2> DEFINE call == [op |-> "split", id |-> id, size |-> shards[id].size,
                      rows |-> shards[id].rows]
  <2>1. UNCHANGED shards /\ shardCalls' = [shardCalls EXCEPT ![t] = call]
    BY <1>5 DEF SplitRead, SetCall
  <2>2. PairOf(call) \in Pairs
    BY <1>5 DEF SplitRead, WholePairs, PairOf
  <2> HIDE DEF call
  <2> QED
    BY <2>1, <2>2, PairsStep DEF ShardsInv, ShardsTypeOK
<1>6. ASSUME NEW t \in ShardThreads, NEW id \in ShardIds, MigrateRead(t, id)
      PROVE  WholePairs'
  <2> DEFINE call == [op |-> "migrate", id |-> id]
  <2>1. UNCHANGED shards /\ shardCalls' = [shardCalls EXCEPT ![t] = call]
    BY <1>6 DEF MigrateRead, SetCall
  <2>2. call.op = "migrate"
    OBVIOUS
  <2> HIDE DEF call
  <2> QED
    BY <2>1, <2>2, PairsStep DEF ShardsInv, ShardsTypeOK
<1>7. ASSUME NEW t \in ShardThreads, SplitMark(t)
      PROVE  WholePairs'
  <2> DEFINE call == [shardCalls[t] EXCEPT !.op = "splitting"]
  <2>1. /\ shardCalls[t] \in Calls /\ shardCalls[t].op = "split"
        /\ shards' = WithStatus(shardCalls[t].id, "Spliting")
        /\ shardCalls' = [shardCalls EXCEPT ![t] = call]
    BY <1>7 DEF SplitMark, SetCall, ShardsInv, ShardsTypeOK
  <2>2. PairOf(call) = PairOf(shardCalls[t])
    BY <2>1 DEF Calls, NoCall, PairOf
  <2>3. PairOf(call) \in Pairs
    BY <2>1, <2>2 DEF WholePairs
  <2> HIDE DEF call
  <2> QED
    BY <2>1, <2>3, StatusPairs, PairsStep DEF ShardsInv, ShardsTypeOK
<1>8. ASSUME NEW t \in ShardThreads, SplitWrite(t)
      PROVE  WholePairs'
  <2> DEFINE call == shardCalls[t]
             half == NewShard(call.size \div 2, call.rows \div 2)
             first == Put(shards, call.id, half)
  <2>1. /\ call.op = "splitting"
        /\ shards' = Put(first, call.id + SplitOffset, half)
        /\ shardCalls' = [shardCalls EXCEPT ![t] = NoCall]
    BY <1>8 DEF SplitWrite, Halves, SetCall
  <2>2. PairOf(half) \in Pairs
    <3>1. <<call.size, call.rows>> \in Pairs
      BY <2>1 DEF WholePairs, PairOf
    <3> QED
      BY <3>1, PairsOfReports DEF NewShard, PairOf
  <2>3. \A i \in DOMAIN shards' :
          shards'[i] = half \/ (i \in DOMAIN shards /\ shards'[i] = shards[i])
    <3> HIDE DEF half
    <3> QED
      BY <2>1 DEF Put
  <2>4. NoCall.op \notin {"split", "splitting"}
    BY DEF NoCall
  <2> HIDE DEF half, first
  <2> QED
    BY <2>1, <2>2, <2>3, <2>4, PairsStep DEF ShardsInv, ShardsTypeOK
<1>9. ASSUME NEW t \in ShardThreads, MigrateMark(t)
      PROVE  WholePairs'
  <2>1. /\ shards' = WithStatus(shardCalls[t].id, "Migrating")
        /\ shardCalls' = [shardCalls EXCEPT ![t] = NoCall]
        /\ NoCall.op \notin {"split", "splitting"}
    BY <1>9 DEF MigrateMark, SetCall, NoCall
  <2> QED
    BY <2>1, StatusPairs, PairsStep DEF ShardsInv, ShardsTypeOK
<1>10. ASSUME UNCHANGED shardVars
       PROVE  WholePairs'
  BY <1>10 DEF WholePairs
<1> QED
  BY <1>1, <1>2, <1>3, <1>4, <1>5, <1>6, <1>7, <1>8, <1>9, <1>10 DEF ShardsNext

\* The size and the row count of a shard come from one report, halved together:
\* no interleaving of updates of the status, reports and splits, each of which
\* rebuilds the whole record, mixes two of them.
THEOREM MetadataNotTorn == ShardsSpec => []NoTornMetadata
<1>1. ShardsInit => WholePairs
  BY DEF ShardsInit, WholePairs, NoEntries, NoCall
<1>2. ShardsInv /\ WholePairs /\ [ShardsNext]_shardVars => WholePairs'
  BY WholePairsStep
<1>3. WholePairs => NoTornMetadata
  BY DEF WholePairs, NoTornMetadata, PairOf
<1> QED
  BY <1>1, <1>2, <1>3, ShardsAlwaysInv, PTL DEF ShardsSpec

-----------------------------------------------------------------------------
(* The scheduler: what its history holds. *)

Executed(id) == {i \in DOMAIN executions : executions[i] = id}
Pushing(id) == {c \in Callers : trigger[c] = [at |-> "push", task |-> id]}

Triggers == {NoTrigger, Dead} \cup [at : {"handler", "push"}, task : TaskIds]

SchedTypeOK ==
  /\ executions \in Seq(TaskIds)
  /\ DOMAIN tasks \subseteq TaskIds
  /\ trigger \in [Callers -> Triggers]
  /\ runs \in [TaskIds -> Nat]

SchedInv == SchedTypeOK /\ HistoryComplete

LEMMA SchedCounts ==
  ASSUME SchedTypeOK, NEW id
  PROVE  /\ IsFiniteSet(Executed(id)) /\ Cardinality(Executed(id)) \in Nat
         /\ IsFiniteSet(Pushing(id)) /\ Cardinality(Pushing(id)) \in Nat
<1>1. IsFiniteSet(DOMAIN executions)
  <2>1. DOMAIN executions = 1..Len(executions) /\ Len(executions) \in Nat
    BY DEF SchedTypeOK
  <2>2. IsFiniteSet(1..Len(executions))
    BY <2>1, FS_Interval
  <2> QED
    BY <2>1, <2>2, Zenon
<1>2. IsFiniteSet(Executed(id))
  BY <1>1, FS_Subset DEF Executed
<1>3. IsFiniteSet(Pushing(id))
  BY SchedulerAssumption, FS_Subset DEF SchedulerAssumption, Pushing
<1> QED
  BY <1>2, <1>3, FS_CardinalityType

LEMMA CompleteCounts ==
  HistoryComplete <=>
    \A id \in TaskIds : runs[id] = Cardinality(Executed(id)) + Cardinality(Pushing(id))
BY DEF HistoryComplete, GetExecutions, Executed, Pushing

\* A step of the table, the flag or the pollers: no handler run begins to be
\* recorded, or ends.
LEMMA QuietStep ==
  ASSUME SchedInv, UNCHANGED <<executions, runs>>,
         DOMAIN tasks' \subseteq TaskIds,
         trigger' \in [Callers -> Triggers],
         \A c \in Callers :
           trigger'[c] = trigger[c] \/ (trigger[c].at # "push" /\ trigger'[c].at # "push")
  PROVE  SchedInv'
<1>1. \A id : Executed(id)' = Executed(id)
  BY DEF Executed
<1>2. ASSUME NEW id PROVE Pushing(id)' = Pushing(id)
  <2>1. ASSUME NEW c \in Callers
        PROVE  (trigger[c] = [at |-> "push", task |-> id])
                 <=> (trigger'[c] = [at |-> "push", task |-> id])
    OBVIOUS
  <2> QED
    BY <2>1 DEF Pushing
<1>3. SchedTypeOK'
  BY DEF SchedInv, SchedTypeOK
<1>4. \A id \in TaskIds :
        runs'[id] = Cardinality(Executed(id)') + Cardinality(Pushing(id)')
  BY <1>1, <1>2, CompleteCounts DEF SchedInv
<1>5. HistoryComplete'
  BY <1>4 DEF HistoryComplete, GetExecutions, Executed, Pushing
<1> QED
  BY <1>3, <1>5 DEF SchedInv

\* The caller whose handler has returned is the one more that is about to push.
LEMMA ReturnsStep ==
  ASSUME SchedInv, NEW c \in Callers, HandlerReturns(c)
  PROVE  SchedInv'
<1> DEFINE task == trigger[c].task
           push == [trigger[c] EXCEPT !.at = "push"]
<1>1. /\ trigger[c] \in [at : {"handler"}, task : TaskIds] /\ task \in TaskIds
      /\ push = [at |-> "push", task |-> task]
  <2>1. trigger[c] \in Triggers /\ trigger[c].at = "handler"
    BY DEF HandlerReturns, SchedInv, SchedTypeOK
  <2> QED
    BY <2>1 DEF Triggers, NoTrigger, Dead
<1>2. /\ trigger' = [trigger EXCEPT ![c] = push] /\ executions' = executions
      /\ runs' = [runs EXCEPT ![task] = @ + 1] /\ tasks' = tasks
  BY DEF HandlerReturns, SetTrigger
<1>3. push \in Triggers
  BY <1>1 DEF Triggers
<1>4. trigger[c].at # "push" /\ trigger'[c] = [at |-> "push", task |-> task]
  BY <1>1, <1>2 DEF SchedInv, SchedTypeOK
<1> HIDE DEF task, push
<1>5. SchedTypeOK'
  BY <1>1, <1>2, <1>3 DEF SchedInv, SchedTypeOK
<1>6. ASSUME NEW id \in TaskIds
      PROVE  runs'[id] = Cardinality(Executed(id)') + Cardinality(Pushing(id)')
  <2>1. Executed(id)' = Executed(id)
    BY <1>2 DEF Executed
  <2>2. c \notin Pushing(id)
    BY <1>4 DEF Pushing
  <2>3. \A d \in Callers : d # c => trigger'[d] = trigger[d]
    BY <1>2 DEF SchedInv, SchedTypeOK
  <2>4. runs[id] = Cardinality(Executed(id)) + Cardinality(Pushing(id))
    BY CompleteCounts DEF SchedInv
  <2>5. /\ Cardinality(Executed(id)) \in Nat
        /\ IsFiniteSet(Pushing(id)) /\ Cardinality(Pushing(id)) \in Nat
    BY SchedCounts DEF SchedInv
  <2>6. CASE id = task
    <3>1. Pushing(id)' = Pushing(id) \cup {c}
      BY <1>4, <2>2, <2>3, <2>6 DEF Pushing
    <3>2. Cardinality(Pushing(id)') = Cardinality(Pushing(id)) + 1
      BY <2>2, <2>5, <3>1, FS_AddElement
    <3>3. runs'[id] = runs[id] + 1
      BY <1>2, <2>6 DEF SchedInv, SchedTypeOK
    <3> QED
      BY <2>1, <2>4, <2>5, <3>2, <3>3
  <2>7. CASE id # task
    <3>1. Pushing(id)' = Pushing(id)
      BY <1>4, <2>2, <2>3, <2>7 DEF Pushing
    <3>2. runs'[id] = runs[id]
      BY <1>2, <2>7 DEF SchedInv, SchedTypeOK
    <3> QED
      BY <2>1, <2>4, <3>1, <3>2
  <2> QED
    BY <2>6, <2>7
<1>7. HistoryComplete'
  BY <1>6 DEF HistoryComplete, GetExecutions, Executed, Pushing
<1> QED
  BY <1>5, <1>7 DEF SchedInv

\* It pushes, and the history has one more of its task.
LEMMA PushStep ==
  ASSUME SchedInv, NEW c \in Callers, PushExecution(c)
  PROVE  SchedInv'
<1> DEFINE task == trigger[c].task
           n == Len(executions)
<1>1. task \in TaskIds /\ trigger[c] = [at |-> "push", task |-> task]
  <2>1. trigger[c] \in Triggers /\ trigger[c].at = "push"
    BY DEF PushExecution, SchedInv, SchedTypeOK
  <2> QED
    BY <2>1 DEF Triggers, NoTrigger, Dead
<1>2. /\ executions' = Append(executions, task)
      /\ trigger' = [trigger EXCEPT ![c] = NoTrigger] /\ runs' = runs /\ tasks' = tasks
  BY DEF PushExecution, SetTrigger
<1>3. trigger'[c].at # "push" /\ \A d \in Callers : d # c => trigger'[d] = trigger[d]
  BY <1>2 DEF SchedInv, SchedTypeOK, NoTrigger
<1>4. executions \in Seq(TaskIds) /\ n \in Nat
  BY DEF SchedInv, SchedTypeOK
<1> HIDE DEF task
<1>5. SchedTypeOK'
  BY <1>1, <1>2 DEF SchedInv, SchedTypeOK, Triggers
<1>6. /\ DOMAIN executions' = DOMAIN executions \cup {n + 1} /\ n + 1 \notin DOMAIN executions
      /\ executions'[n + 1] = task /\ \A i \in DOMAIN executions : executions'[i] = executions[i]
  BY <1>2, <1>4
<1> HIDE DEF n
<1>7. ASSUME NEW id \in TaskIds
      PROVE  runs'[id] = Cardinality(Executed(id)') + Cardinality(Pushing(id)')
  <2>1. runs[id] = Cardinality(Executed(id)) + Cardinality(Pushing(id))
    BY CompleteCounts DEF SchedInv
  <2>2. /\ IsFiniteSet(Executed(id)) /\ Cardinality(Executed(id)) \in Nat
        /\ IsFiniteSet(Pushing(id)) /\ Cardinality(Pushing(id)) \in Nat
    BY SchedCounts DEF SchedInv
  <2>3. CASE id = task
    <3>1. Executed(id)' = Executed(id) \cup {n + 1} /\ n + 1 \notin Executed(id)
      BY <1>6, <2>3 DEF Executed
    <3>2. c \in Pushing(id)
      BY <1>1, <2>3 DEF Pushing
    <3>3. Pushing(id)' = Pushing(id) \ {c}
      BY <1>3 DEF Pushing
    <3>4. Cardinality(Executed(id)') = Cardinality(Executed(id)) + 1
      BY <2>2, <3>1, FS_AddElement
    <3>5. Cardinality(Pushing(id)') = Cardinality(Pushing(id)) - 1
      BY <2>2, <3>2, <3>3, FS_RemoveElement
    <3> QED
      BY <1>2, <2>1, <2>2, <3>4, <3>5
  <2>4. CASE id # task
    <3>1. Executed(id)' = Executed(id)
      BY <1>6, <2>4 DEF Executed
    <3>2. c \notin Pushing(id)
      BY <1>1, <2>4 DEF Pushing
    <3>3. Pushing(id)' = Pushing(id)
      BY <1>3, <3>2 DEF Pushing
    <3> QED
      BY <1>2, <2>1, <3>1, <3>3
  <2> QED
    BY <2>3, <2>4
<1>8. HistoryComplete'
  BY <1>7 DEF HistoryComplete, GetExecutions, Executed, Pushing
<1> QED
  BY <1>5, <1>8 DEF SchedInv

LEMMA DiesQuietly ==
  ASSUME SchedInv, NEW c \in Callers, NEW value \in Triggers,
         trigger[c].at # "push", value.at # "push", SetTrigger(c, value)
  PROVE  /\ trigger' \in [Callers -> Triggers]
         /\ \A d \in Callers :
              trigger'[d] = trigger[d] \/ (trigger[d].at # "push" /\ trigger'[d].at # "push")
BY DEF SchedInv, SchedTypeOK, SetTrigger

\* Operations on the table of tasks.
LEMMA OnTasksStep ==
  ASSUME SchedInv, NEW c \in Callers, NEW newTasks, DOMAIN newTasks \subseteq TaskIds,
         OnTasks(c, newTasks)
  PROVE  SchedInv'
<1>1. trigger[c].at # "push" /\ Dead \in Triggers /\ Dead.at # "push"
  BY DEF OnTasks, FreeCaller, NoTrigger, Dead, Triggers
<1>2. UNCHANGED <<executions, runs>>
  BY DEF OnTasks
<1>3. CASE tasks' = newTasks /\ UNCHANGED trigger
  BY <1>2, <1>3, QuietStep DEF SchedInv, SchedTypeOK
<1>4. CASE SetTrigger(c, Dead) /\ UNCHANGED tasks
  BY <1>1, <1>2, <1>4, DiesQuietly, QuietStep DEF SchedInv, SchedTypeOK
<1> QED
  BY <1>3, <1>4 DEF OnTasks

LEMMA SchedInvStep == SchedInv /\ [SchedNext]_schedVars => SchedInv'
<1> SUFFICES ASSUME SchedInv, [SchedNext]_schedVars PROVE SchedInv'
  OBVIOUS
<1>0. Dead \in Triggers /\ Dead.at # "push" /\ NoTrigger.at # "push"
  BY DEF Dead, NoTrigger, Triggers
<1>1. ASSUME NEW p \in 1..MaxStarts, Poll(p) PROVE SchedInv'
  BY <1>1, QuietStep DEF Poll, SchedInv, SchedTypeOK
<1>2. ASSUME NEW c \in Callers, Start(c) \/ Stop(c) PROVE SchedInv'
  <2>1. trigger[c].at # "push" /\ UNCHANGED <<executions, runs, tasks>>
    BY <1>0, <1>2 DEF Start, Stop, FreeCaller
  <2>2. CASE SetTrigger(c, Dead)
    BY <1>0, <2>1, <2>2, DiesQuietly, QuietStep DEF SchedInv, SchedTypeOK
  <2>3. CASE UNCHANGED trigger
    BY <2>1, <2>3, QuietStep DEF SchedInv, SchedTypeOK
  <2> QED
    BY <1>2, <2>2, <2>3 DEF Start, Stop
<1>3. ASSUME NEW c \in Callers, HandlerReturns(c) PROVE SchedInv'
  BY <1>3, ReturnsStep
<1>4. ASSUME NEW c \in Callers, HandlerPanics(c) PROVE SchedInv'
  BY <1>0, <1>4, DiesQuietly, QuietStep DEF HandlerPanics, SchedInv, SchedTypeOK
<1>5. ASSUME NEW c \in Callers, PushExecution(c) PROVE SchedInv'
  BY <1>5, PushStep
<1>6. ASSUME NEW c \in Callers, NEW id \in TaskIds, AddTask(c, id) PROVE SchedInv'
  <2> DEFINE newTasks == [i \in DOMAIN tasks \cup {id} |-> IF i = id THEN TRUE ELSE tasks[i]]
  <2>1. DOMAIN newTasks \subseteq TaskIds /\ OnTasks(c, newTasks)
    BY <1>6 DEF AddTask, SchedInv, SchedTypeOK
  <2> HIDE DEF newTasks
  <2> QED
    BY <2>1, OnTasksStep
<1>7. ASSUME NEW c \in Callers, NEW id \in TaskIds, RemoveTask(c, id) PROVE SchedInv'
  <2> DEFINE newTasks == [i \in DOMAIN tasks \ {id} |-> tasks[i]]
  <2>1. DOMAIN newTasks \subseteq TaskIds /\ OnTasks(c, newTasks)
    BY <1>7 DEF RemoveTask, SchedInv, SchedTypeOK
  <2> HIDE DEF newTasks
  <2> QED
    BY <2>1, OnTasksStep
<1>8. ASSUME NEW c \in Callers, NEW id \in TaskIds, NEW value \in BOOLEAN,
             SetEnabled(c, id, value)
      PROVE  SchedInv'
  <2> DEFINE newTasks == [i \in DOMAIN tasks |-> IF i = id THEN value ELSE tasks[i]]
  <2>1. DOMAIN newTasks \subseteq TaskIds /\ OnTasks(c, newTasks)
    BY <1>8 DEF SetEnabled, SchedInv, SchedTypeOK
  <2> HIDE DEF newTasks
  <2> QED
    BY <2>1, OnTasksStep
<1>9. ASSUME NEW c \in Callers, NEW id \in TaskIds, TriggerTask(c, id) PROVE SchedInv'
  <2> DEFINE value == [at |-> "handler", task |-> id]
  <2>1. value \in Triggers /\ value.at # "push"
    BY DEF Triggers
  <2>2. /\ trigger[c].at # "push" /\ SetTrigger(c, value)
        /\ UNCHANGED <<executions, runs, tasks>>
    BY <1>0, <1>9 DEF TriggerTask, FreeCaller
  <2> HIDE DEF value
  <2> QED
    BY <2>1, <2>2, DiesQuietly, QuietStep DEF SchedInv, SchedTypeOK
<1>10. CASE UNCHANGED schedVars
  BY <1>10, QuietStep DEF schedVars, SchedInv, SchedTypeOK
<1> QED
  BY <1>1, <1>2, <1>3, <1>4, <1>5, <1>6, <1>7, <1>8, <1>9, <1>10 DEF SchedNext

\* Every handler run that has returned is in the history once, or its caller is
\* between the lock of the tasks and that of the history, whatever becomes of the
\* task in the meantime (trigger_task of scheduler/mod.rs).
THEOREM HistoryIsComplete == SchedSpec => []HistoryComplete
<1>1. SchedInit => SchedInv
  <2> SUFFICES ASSUME SchedInit PROVE SchedInv
    OBVIOUS
  <2>1. SchedTypeOK
    BY DEF SchedInit, SchedTypeOK, Triggers
  <2>2. \A id : Executed(id) = {} /\ Pushing(id) = {}
    BY DEF SchedInit, Executed, Pushing, NoTrigger
  <2>3. \A id \in TaskIds : runs[id] = Cardinality({}) + Cardinality({})
    BY FS_EmptySet DEF SchedInit
  <2> QED
    BY <2>1, <2>2, <2>3, CompleteCounts DEF SchedInv
<1>2. SchedInv => HistoryComplete
  BY DEF SchedInv
<1> QED
  BY <1>1, <1>2, SchedInvStep, PTL DEF SchedSpec

-----------------------------------------------------------------------------
(* Ageing: tiers, and what is dropped as expired. *)

PieceType == {NoPiece} \cup [time : PieceTimes, tier : 0..2, ahead : BOOLEAN]

\* Data that was placed ahead of the clock is cold; other data is never ahead of
\* it again, and in no colder tier than its age gives.
AgeingInv ==
  /\ now \in Nat /\ now >= 2
  /\ piece \in PieceType
  /\ piece # NoPiece =>
       IF piece.ahead THEN piece.tier = 2
       ELSE piece.time <= now /\ piece.tier <= DetermineTier(piece.time)

LEMMA AgeingConstants ==
  /\ HotSeconds \in Nat /\ WarmSeconds \in Nat
  /\ PieceTimes \subseteq Nat /\ Ttls \subseteq Nat
  /\ Nanos \in Nat /\ Nanos >= 2
  /\ FirstNow \in Nat /\ FirstNow >= 2
BY AgeingAssumption DEF AgeingAssumption

\* A piece is a record with a tier of its own, or there is none.
LEMMA PieceShape ==
  ASSUME piece \in PieceType, piece # NoPiece
  PROVE  piece \in [time : PieceTimes, tier : 0..2, ahead : BOOLEAN]
BY DEF PieceType

\* The tier of data that is not ahead of the clock, by its age.
LEMMA TierOfAge ==
  ASSUME now \in Nat, NEW time \in Nat, time <= now
  PROVE  /\ DetermineTier(time) \in 0..2
         /\ DetermineTier(time) >= 1 <=> now - time >= HotSeconds
         /\ DetermineTier(time) >= 2 <=> now - time >= HotSeconds + WarmSeconds
<1> DEFINE age == now - time
<1>1. Age(time) = age /\ age \in Nat
  BY DEF Age
<1> HIDE DEF age
<1>2. CASE age < HotSeconds
  BY <1>1, <1>2, AgeingConstants DEF DetermineTier, age
<1>3. CASE age >= HotSeconds /\ age < HotSeconds + WarmSeconds
  <2>1. age \in HotSeconds..(HotSeconds + WarmSeconds - 1) /\ ~(age < HotSeconds)
    BY <1>1, <1>3, AgeingConstants
  <2>2. DetermineTier(time) = 1
    BY <1>1, <1>3, <2>1, AgeingConstants DEF DetermineTier
  <2> QED
    BY <1>1, <1>3, <2>2, AgeingConstants DEF age
<1>4. CASE age >= HotSeconds + WarmSeconds
  <2>1. age \notin HotSeconds..(HotSeconds + WarmSeconds - 1) /\ ~(age < HotSeconds)
    BY <1>1, <1>4, AgeingConstants
  <2>2. DetermineTier(time) = 2
    BY <1>1, <1>4, <2>1, AgeingConstants DEF DetermineTier
  <2> QED
    BY <1>1, <1>4, <2>2, AgeingConstants DEF age
<1> QED
  BY <1>1, <1>2, <1>3, <1>4, AgeingConstants

\* Data ahead of the clock counts as cold.
LEMMA TierAhead ==
  ASSUME now \in Nat, NEW time \in PieceTimes, time > now
  PROVE  DetermineTier(time) = 2
<1>1. U64 \in Nat /\ U64 > HotSeconds + WarmSeconds + time
  BY AgeingAssumption DEF AgeingAssumption
<1>2. Age(time) = now - time + U64 /\ time \in Nat
  BY AgeingConstants DEF Age
<1>3. PICK age \in Nat : age = Age(time) /\ age >= HotSeconds + WarmSeconds
  BY <1>1, <1>2, AgeingConstants
<1>4. age \notin HotSeconds..(HotSeconds + WarmSeconds - 1) /\ ~(age < HotSeconds)
  BY <1>3, AgeingConstants
<1> QED
  BY <1>3, <1>4, AgeingConstants DEF DetermineTier

LEMMA AgeingInvStep == AgeingInv /\ [AgeingNext]_ageingVars => AgeingInv'
<1> SUFFICES ASSUME AgeingInv, [AgeingNext]_ageingVars PROVE AgeingInv'
  OBVIOUS
<1>1. CASE Tick
  <2>1. now' = now + 1 /\ piece' = piece
    BY <1>1 DEF Tick
  <2>2. ASSUME piece # NoPiece, ~piece.ahead
        PROVE  piece.time <= now' /\ piece.tier <= DetermineTier(piece.time)'
    <3>0. piece.time \in Nat /\ piece.tier \in 0..2
      BY <2>2, PieceShape, AgeingConstants DEF AgeingInv
    <3>1. /\ piece.time \in Nat /\ piece.tier \in 0..2
          /\ piece.time <= now /\ piece.time <= now'
      BY <2>1, <2>2, <3>0 DEF AgeingInv
    <3>2. PICK time \in Nat : time = piece.time
      BY <3>1
    <3>3. DetermineTier(time)' \in 0..2 /\ DetermineTier(time) \in 0..2
          /\ DetermineTier(time) <= DetermineTier(time)'
      <4>1. /\ DetermineTier(time) \in 0..2
            /\ DetermineTier(time) >= 1 <=> now - time >= HotSeconds
            /\ DetermineTier(time) >= 2 <=> now - time >= HotSeconds + WarmSeconds
        BY <3>1, <3>2, TierOfAge DEF AgeingInv
      <4>2. now' \in Nat /\ time <= now'
        BY <2>1, <3>1, <3>2 DEF AgeingInv
      <4>3. (now \in Nat /\ time <= now =>
              /\ DetermineTier(time) \in 0..2
              /\ DetermineTier(time) >= 1 <=> now - time >= HotSeconds
              /\ DetermineTier(time) >= 2 <=> now - time >= HotSeconds + WarmSeconds)'
        BY TierOfAge, PTL
      <4>4. /\ DetermineTier(time)' \in 0..2
            /\ DetermineTier(time)' >= 1 <=> now' - time >= HotSeconds
            /\ DetermineTier(time)' >= 2 <=> now' - time >= HotSeconds + WarmSeconds
        BY <4>2, <4>3
      <4> HIDE DEF DetermineTier
      <4> QED
        BY <2>1, <4>1, <4>4, AgeingConstants DEF AgeingInv
    <3>4. piece.tier <= DetermineTier(time)
      BY <2>2, <3>2 DEF AgeingInv
    <3>5. DetermineTier(time)' = DetermineTier(piece.time)'
      BY <2>1, <3>2
    <3> QED
      BY <3>1, <3>2, <3>3, <3>4, <3>5
  <2> QED
    BY <2>1, <2>2 DEF AgeingInv
<1>2. ASSUME NEW time \in PieceTimes, PlaceInTier(time) PROVE AgeingInv'
  <2> DEFINE new == [time |-> time, tier |-> DetermineTier(time), ahead |-> time > now]
  <2>1. piece' = new /\ now' = now
    BY <1>2 DEF PlaceInTier
  <2>2. now \in Nat /\ time \in Nat
    BY AgeingConstants DEF AgeingInv
  <2>3. DetermineTier(time) \in 0..2 /\ (time > now => DetermineTier(time) = 2)
    BY <2>2, TierOfAge, TierAhead
  <2>4. new \in PieceType
    BY <2>2, <2>3 DEF PieceType
  <2>5. DetermineTier(time)' = DetermineTier(time)
    BY <2>1 DEF DetermineTier, Age
  <2>6. new.time = time /\ new.tier = DetermineTier(time) /\ new.ahead = (time > now)
    OBVIOUS
  <2> HIDE DEF new
  <2>7. piece'.time = time
    BY <2>1, <2>6
  <2>8. IF piece'.ahead THEN piece'.tier = 2
        ELSE piece'.time <= now' /\ piece'.tier <= DetermineTier(time)'
    <3>1. CASE time > now
      <4>1. piece'.ahead /\ piece'.tier = 2
        BY <2>1, <2>3, <2>6, <3>1
      <4> QED
        BY <4>1
    <3>2. CASE ~(time > now)
      <4>1. ~piece'.ahead /\ piece'.time = time /\ piece'.tier = DetermineTier(time)
        BY <2>1, <2>6, <3>2
      <4>2. time <= now
        BY <2>2, <3>2
      <4> QED
        BY <2>1, <2>3, <2>5, <4>1, <4>2
    <3> QED
      BY <3>1, <3>2
  <2> QED
    BY <2>1, <2>4, <2>7, <2>8 DEF AgeingInv
<1>3. CASE Migrate
  <2>1. /\ piece # NoPiece /\ ShouldMigrate(piece.time, piece.tier) /\ now' = now
        /\ piece' = [piece EXCEPT !.tier = @ + 1]
    BY <1>3 DEF Migrate
  <2>2. piece \in [time : PieceTimes, tier : 0..2, ahead : BOOLEAN]
    BY <2>1, PieceShape DEF AgeingInv
  <2>3. piece.tier \in {0, 1}
    BY <2>1 DEF ShouldMigrate
  <2>4. ~piece.ahead /\ piece.time \in Nat /\ piece.time <= now
    BY <2>1, <2>2, <2>3, AgeingConstants DEF AgeingInv
  <2>5. /\ DetermineTier(piece.time) \in 0..2
        /\ DetermineTier(piece.time) >= 1 <=> now - piece.time >= HotSeconds
        /\ DetermineTier(piece.time) >= 2 <=> now - piece.time >= HotSeconds + WarmSeconds
    BY <2>4, TierOfAge DEF AgeingInv
  <2>6. piece.tier + 1 <= DetermineTier(piece.time)
    <3>1. Age(piece.time) = now - piece.time
      BY <2>4 DEF Age
    <3> QED
      BY <2>1, <2>3, <2>5, <3>1 DEF ShouldMigrate
  <2>7. /\ piece' \in [time : PieceTimes, tier : 0..2, ahead : BOOLEAN]
        /\ piece'.time = piece.time /\ piece'.tier = piece.tier + 1 /\ piece'.ahead = piece.ahead
    BY <2>1, <2>2, <2>3
  <2>8. DetermineTier(piece.time)' = DetermineTier(piece.time)
    BY <2>1, <2>7 DEF DetermineTier, Age
  <2> QED
    BY <2>1, <2>4, <2>6, <2>7, <2>8 DEF AgeingInv, PieceType
<1>4. ASSUME UNCHANGED <<now, piece>> PROVE AgeingInv'
  BY <1>4 DEF AgeingInv, DetermineTier, Age
<1>5. ASSUME NEW points \in PointLists, Downsample(points) PROVE AgeingInv'
  BY <1>4, <1>5 DEF Downsample
<1>6. CASE UNCHANGED ageingVars
  BY <1>4, <1>6 DEF ageingVars
<1> QED
  BY <1>1, <1>2, <1>3, <1>5, <1>6 DEF AgeingNext

LEMMA AgeingAlwaysInv == AgeingSpec => []AgeingInv
<1>1. AgeingInit => AgeingInv
  BY AgeingConstants DEF AgeingInit, AgeingInv, PieceType
<1> QED
  BY <1>1, AgeingInvStep, PTL DEF AgeingSpec

\* Data that is moved whenever should_migrate_to_next_tier says so is never in a
\* colder tier than its age gives, and in a warmer one only while a migration is
\* due; is_tier_expired agrees for warm data, and data that was placed ahead of
\* the clock stays cold.
THEOREM TiersAgree == AgeingSpec => []TiersFollowAge
<1>1. AgeingInv => TiersFollowAge
  <2> SUFFICES ASSUME AgeingInv, piece # NoPiece, ~piece.ahead
               PROVE  /\ ShouldMigrate(piece.time, piece.tier)
                           <=> (piece.tier < DetermineTier(piece.time))
                      /\ piece.tier = 1 =>
                           (IsTierExpired(piece.time, 1) <=> ShouldMigrate(piece.time, 1))
    BY DEF AgeingInv, TiersFollowAge
  <2>1. /\ piece.time \in Nat /\ piece.time <= now /\ piece.tier \in 0..2
        /\ piece.tier <= DetermineTier(piece.time)
    BY PieceShape, AgeingConstants DEF AgeingInv
  <2>2. /\ DetermineTier(piece.time) \in 0..2
        /\ DetermineTier(piece.time) >= 1 <=> now - piece.time >= HotSeconds
        /\ DetermineTier(piece.time) >= 2 <=> now - piece.time >= HotSeconds + WarmSeconds
    BY <2>1, TierOfAge DEF AgeingInv
  <2>3. Age(piece.time) = now - piece.time
    BY <2>1 DEF Age
  <2>4. IsTierExpired(piece.time, 1) <=> ShouldMigrate(piece.time, 1)
    BY DEF IsTierExpired, ShouldMigrate
  <2> HIDE DEF DetermineTier
  <2>5. ShouldMigrate(piece.time, piece.tier) <=> (piece.tier < DetermineTier(piece.time))
    BY <2>1, <2>2, <2>3, AgeingConstants DEF ShouldMigrate, AgeingInv
  <2> QED
    BY <2>4, <2>5
<1> QED
  BY <1>1, AgeingAlwaysInv, PTL

\* The quotient of a timestamp in nanoseconds is small enough.
LEMMA ThresholdIsLate ==
  ASSUME NEW clock \in Nat, clock >= 2, NEW ttl \in Nat, NEW n \in Nat, n >= 2,
         NEW time \in Int, time <= clock - ttl * n
  PROVE  clock - TruncDiv(time, n) > ttl
<1>0. ttl * n \in Nat
  OBVIOUS
<1>1. CASE time >= 0
  <2> DEFINE q == time \div n
  <2>1. q \in Nat /\ q * n <= time
    BY <1>1
  <2>2. TruncDiv(time, n) = q
    BY <1>1 DEF TruncDiv
  <2> HIDE DEF q
  <2>3. (q + ttl) * n <= clock
    <3>1. (q + ttl) * n = q * n + ttl * n /\ q * n \in Nat
      BY <2>1
    <3> QED
      BY <1>0, <2>1, <3>1
  <2>4. (q + ttl) * 2 <= (q + ttl) * n
    <3>1. PICK k \in Nat : n = 2 + k
      <4>1. n - 2 \in Nat /\ n = 2 + (n - 2)
        OBVIOUS
      <4> QED
        BY <4>1
    <3>2. (q + ttl) * n = (q + ttl) * 2 + (q + ttl) * k /\ (q + ttl) * k \in Nat
      BY <2>1, <3>1
    <3> QED
      BY <2>1, <3>2
  <2>5. (q + ttl) * 2 <= clock
    <3>1. (q + ttl) * n \in Nat
      BY <2>1
    <3> QED
      BY <2>1, <2>3, <2>4, <3>1
  <2> QED
    BY <2>1, <2>2, <2>5
<1>2. CASE time < 0
  <2> DEFINE q == (-time) \div n
  <2>1. q \in Nat /\ -time < q * n + n
    <3>1. -time \in Nat /\ n \in Nat \ {0}
      BY <1>2
    <3> QED
      BY <3>1, QuotientEncloses
  <2>2. TruncDiv(time, n) = -q
    BY <1>2 DEF TruncDiv
  <2> HIDE DEF q
  <2>3. ttl * n < clock + q * n + n
    <3>1. q * n \in Nat
      BY <2>1
    <3> QED
      BY <1>0, <2>1, <3>1
  <2>4. ASSUME ttl >= clock + q PROVE FALSE
    <3>1. PICK x \in Nat : ttl = q + 1 + x /\ x >= clock - 1
      <4>1. ttl - q - 1 \in Nat /\ ttl = q + 1 + (ttl - q - 1) /\ ttl - q - 1 >= clock - 1
        BY <2>1, <2>4
      <4> QED
        BY <4>1
    <3>2. ttl * n = q * n + n + x * n /\ q * n \in Nat /\ x * n \in Nat
      BY <2>1, <3>1
    <3>3. x * n < clock
      BY <2>3, <3>2
    <3>4. x * n >= x * 2
      <4>1. PICK k \in Nat : n = 2 + k
        <5>1. n - 2 \in Nat /\ n = 2 + (n - 2)
          OBVIOUS
        <5> QED
          BY <5>1
      <4>2. x * n = x * 2 + x * k /\ x * k \in Nat
        BY <3>1, <4>1
      <4> QED
        BY <3>1, <4>2
    <3> QED
      BY <3>1, <3>2, <3>3, <3>4
  <2> QED
    BY <2>1, <2>2, <2>4
<1> QED
  BY <1>1, <1>2

\* filter_expired_rows mixes seconds with nanoseconds, and still drops rows only
\* if the timestamp it looks at has expired, whatever the times of the rows.
THEOREM DropsOnlyExpired == AgeingSpec => []FilterDropsOnlyExpired
<1>1. ASSUME AgeingInv, NEW rows \in RowLists, NEW ttl \in Ttls, FilterExpiredRows(rows, ttl) # rows
      PROVE  IsExpired(Head(rows), ttl)
  <2>1. /\ rows \in Seq(Int) /\ ttl \in Nat /\ ttl # 0 /\ rows # <<>>
        /\ ~(Head(rows) > ExpiredThreshold(ttl))
    BY <1>1, AgeingConstants, AgeingAssumption DEF FilterExpiredRows, AgeingAssumption
  <2>2. PICK time \in Int : time = Head(rows)
    BY <2>1
  <2>3. time <= now - ttl * Nanos
    <3>1. ExpiredThreshold(ttl) = now - ttl * Nanos /\ ttl * Nanos \in Int /\ now \in Int
      BY <1>1, <2>1, AgeingConstants DEF ExpiredThreshold, AgeingInv
    <3> QED
      BY <2>1, <2>2, <3>1
  <2>4. now - TruncDiv(time, Nanos) > ttl
    BY <1>1, <2>1, <2>3, AgeingConstants, ThresholdIsLate DEF AgeingInv
  <2> QED
    BY <2>1, <2>2, <2>4 DEF IsExpired
<1>2. AgeingInv => FilterDropsOnlyExpired
  BY <1>1 DEF FilterDropsOnlyExpired
<1> QED
  BY <1>2, AgeingAlwaysInv, PTL

-----------------------------------------------------------------------------
(* Selection: the batches of a compaction and the candidates of a merge. *)

\* A list in another order.
IsReordered(sorted, list) ==
  /\ sorted \in Seq(ToSet(list)) /\ Len(sorted) = Len(list)
  /\ \E at : IsArrangement(at, Len(list)) /\ \A k \in 1..Len(list) : sorted[k] = list[at[k]]

LEMMA FileFacts ==
  ASSUME NEW list, IsFileList(list)
  PROVE  /\ list \in Seq(ToSet(list)) /\ Len(list) \in Nat /\ DOMAIN list = 1..Len(list)
         /\ \A i \in 1..Len(list) : list[i].size \in Nat /\ list[i].min \in Int /\ list[i].max \in Int
         /\ \A i, j \in 1..Len(list) : i # j => list[i] # list[j]
         /\ \A f \in ToSet(list) : \E i \in 1..Len(list) : list[i] = f
<1> DEFINE T == ToSet(list)
<1>1. list \in Seq(T) /\ \A f \in T : f.size \in Nat /\ f.min \in Int /\ f.max \in Int
  BY DEF IsFileList
<1>2. \A f \in T : \E i \in DOMAIN list : list[i] = f
  BY DEF ToSet
<1> HIDE DEF T
<1>3. Len(list) \in Nat /\ DOMAIN list = 1..Len(list) /\ \A i \in 1..Len(list) : list[i] \in T
  BY <1>1
<1>4. \A i, j \in 1..Len(list) : i # j => list[i] # list[j]
  BY <1>3 DEF IsFileList
<1> QED
  BY <1>1, <1>2, <1>3, <1>4 DEF T

LEMMA ReorderedFacts ==
  ASSUME NEW list, IsFileList(list), NEW sorted, IsReordered(sorted, list)
  PROVE  /\ \A k \in 1..Len(list) : sorted[k] \in ToSet(list)
         /\ \A k, l \in 1..Len(list) : k # l => sorted[k] # sorted[l]
         /\ \A f \in ToSet(list) : \E k \in 1..Len(list) : sorted[k] = f
<1> DEFINE n == Len(list)
           T == ToSet(list)
<1>1. /\ n \in Nat /\ \A i, j \in 1..n : i # j => list[i] # list[j]
      /\ \A f \in T : \E i \in 1..n : list[i] = f
  BY FileFacts
<1>2. sorted \in Seq(T) /\ Len(sorted) = n
  BY DEF IsReordered
<1>3. PICK at : IsArrangement(at, n) /\ \A k \in 1..n : sorted[k] = list[at[k]]
  BY DEF IsReordered
<1> HIDE DEF T, n
<1>4. /\ \A k \in 1..n : at[k] \in 1..n
      /\ \A k, l \in 1..n : k # l => at[k] # at[l]
      /\ \A i \in 1..n : \E k \in 1..n : at[k] = i
  BY <1>3 DEF IsArrangement
<1>5. \A k \in 1..n : sorted[k] \in T
  BY <1>2
<1>6. \A k, l \in 1..n : k # l => sorted[k] # sorted[l]
  BY <1>1, <1>3, <1>4
<1>7. \A f \in T : \E k \in 1..n : sorted[k] = f
  BY <1>1, <1>3, <1>4
<1> QED
  BY <1>5, <1>6, <1>7 DEF T, n

LEMMA SortedBySize ==
  ASSUME NEW list, IsFileList(list)
  PROVE  IsReordered(Arranged(list, StableOrder(Len(list), LargerFirst(list))), list)
<1> DEFINE n == Len(list)
           le == LargerFirst(list)
           order == StableOrder(n, le)
           T == ToSet(list)
<1>1. /\ list \in Seq(T) /\ n \in Nat /\ DOMAIN list = 1..n
      /\ \A i \in 1..n : list[i].size \in Nat /\ list[i].min \in Int
  BY FileFacts
<1>2. \A i, j \in 1..n : <<i, j>> \in le <=>
        list[i].size > list[j].size \/ (list[i].size = list[j].size /\ list[i].min <= list[j].min)
  BY <1>1 DEF LargerFirst, Larger
<1>3. /\ \A i, j \in 1..n : <<i, j>> \in le \/ <<j, i>> \in le
      /\ \A i, j, k \in 1..n : <<i, j>> \in le /\ <<j, k>> \in le => <<i, k>> \in le
  <2> HIDE DEF le, n
  <2>1. ASSUME NEW i \in 1..n, NEW j \in 1..n PROVE <<i, j>> \in le \/ <<j, i>> \in le
    <3>1. list[i].size \in Nat /\ list[j].size \in Nat /\ list[i].min \in Int /\ list[j].min \in Int
      BY <1>1
    <3> QED
      BY <1>2, <3>1
  <2>2. ASSUME NEW i \in 1..n, NEW j \in 1..n, NEW k \in 1..n, <<i, j>> \in le, <<j, k>> \in le
        PROVE  <<i, k>> \in le
    <3>1. /\ list[i].size \in Nat /\ list[j].size \in Nat /\ list[k].size \in Nat
          /\ list[i].min \in Int /\ list[j].min \in Int /\ list[k].min \in Int
      BY <1>1
    <3> QED
      BY <1>2, <2>2, <3>1
  <2> QED
    BY <2>1, <2>2
<1>4. IsOrder(order, n)
  <2> HIDE DEF n, le
  <2> QED
    BY <1>1, <1>3, StableOrderFacts
<1> HIDE DEF order, T
<1>5. Arranged(list, order) \in Seq(T) /\ Len(Arranged(list, order)) = Len(list)
  BY <1>1, <1>4, ArrangedFacts
<1>6. PICK at : /\ IsArrangement(at, n)
                /\ \A k, l \in 1..n : k < l => <<at[k], at[l]>> \in order
                /\ \A k \in 1..n : Arranged(list, order)[k] = list[at[k]]
  <2>1. list \in Seq(T) /\ IsOrder(order, Len(list))
    BY <1>1, <1>4
  <2> QED
    BY <2>1, ArrangedFacts
<1> QED
  BY <1>5, <1>6 DEF IsReordered, T, order

LEMMA SortedByTime ==
  ASSUME NEW list, IsFileList(list), NEW sorted,
         sorted = Arranged(list, StableOrder(Len(list), EarlierFirst(list)))
  PROVE  /\ IsReordered(sorted, list)
         /\ \A k, l \in 1..Len(list) : k < l => sorted[k].min <= sorted[l].min
<1> DEFINE n == Len(list)
           le == EarlierFirst(list)
           order == StableOrder(n, le)
           T == ToSet(list)
<1>1. /\ list \in Seq(T) /\ n \in Nat /\ DOMAIN list = 1..n
      /\ \A i \in 1..n : list[i].min \in Int
  BY FileFacts
<1>2. \A i, j \in 1..n : <<i, j>> \in le <=> list[i].min <= list[j].min
  BY <1>1 DEF EarlierFirst
<1>3. /\ \A i, j \in 1..n : <<i, j>> \in le \/ <<j, i>> \in le
      /\ \A i, j, k \in 1..n : <<i, j>> \in le /\ <<j, k>> \in le => <<i, k>> \in le
  BY <1>1, <1>2
<1>4. IsOrder(order, n) /\ \A i, j \in 1..n : <<i, j>> \in order => <<i, j>> \in le
  <2> HIDE DEF n, le
  <2> QED
    BY <1>1, <1>3, StableOrderFacts
<1> HIDE DEF order, T
<1>5. sorted \in Seq(T) /\ Len(sorted) = Len(list)
  BY <1>1, <1>4, ArrangedFacts DEF order
<1>6. PICK at : /\ IsArrangement(at, n)
                /\ \A k, l \in 1..n : k < l => <<at[k], at[l]>> \in order
                /\ \A k \in 1..n : sorted[k] = list[at[k]]
  BY <1>1, <1>4, ArrangedFacts DEF order
<1>7. \A k \in 1..n : at[k] \in 1..n
  BY <1>6 DEF IsArrangement
<1>8. \A k, l \in 1..n : k < l => sorted[k].min <= sorted[l].min
  BY <1>2, <1>4, <1>6, <1>7
<1> QED
  BY <1>5, <1>6, <1>8 DEF IsReordered, T

\* How often the pieces of a reordered list name a file: once if they reach it.
LEMMA OccursOnce ==
  ASSUME IsFileList(files), NEW sorted, IsReordered(sorted, files),
         NEW pieces, Len(pieces) \in Nat, DOMAIN pieces = 1..Len(pieces),
         NEW from, IsSplit(pieces, from, sorted),
         NEW j \in 1..Len(files)
  PROVE  Occurrences(pieces, sorted[j]) = IF j <= from[Len(pieces) + 1] THEN 1 ELSE 0
<1> DEFINE n == Len(pieces)
           z == Len(files)
           file == sorted[j]
           Places == {p \in (1..n) \X (1..z) : p[2] <= Len(pieces[p[1]])}
           Here == {p \in (DOMAIN pieces) \X (1..Len(files)) :
                      p[2] <= Len(pieces[p[1]]) /\ pieces[p[1]][p[2]] = file}
<1>1. n \in Nat /\ z \in Nat /\ Len(sorted) = z
  BY FileFacts DEF IsReordered
<1>2. /\ \A c \in 1..n : \A k \in 1..Len(pieces[c]) : <<c, k>> \in Places /\ from[c] + k \in 1..from[n + 1]
      /\ \A i \in 1..from[n + 1] : \E c \in 1..n : \E k \in 1..Len(pieces[c]) : from[c] + k = i
      /\ \A c, d \in 1..n : \A k \in 1..Len(pieces[c]), l \in 1..Len(pieces[d]) :
           from[c] + k = from[d] + l => c = d /\ k = l
  BY <1>1, SplitPlaces
<1>3. /\ from[n + 1] <= z /\ from[n + 1] \in Nat
      /\ \A c \in 1..n : Len(pieces[c]) \in Nat
      /\ \A c \in 1..n : \A k \in 1..Len(pieces[c]) : pieces[c][k] = sorted[from[c] + k]
  <2>1. n + 1 \in 1..(n + 1)
    BY <1>1
  <2> QED
    BY <1>1, <2>1 DEF IsSplit
<1>4. \A k, l \in 1..z : k # l => sorted[k] # sorted[l]
  BY ReorderedFacts
<1>5. \A c \in 1..n : \A k \in 1..Len(pieces[c]) : pieces[c][k] = file <=> from[c] + k = j
  <2> TAKE c \in 1..n
  <2> TAKE k \in 1..Len(pieces[c])
  <2> DEFINE i == from[c] + k
             e == from[n + 1]
  <2>1. i \in 1..e /\ e <= z /\ e \in Nat
    BY <1>2, <1>3
  <2>2. i \in 1..z
    <3> HIDE DEF i, e
    <3> QED
      BY <1>1, <2>1
  <2>3. pieces[c][k] = sorted[i]
    BY <1>3
  <2> HIDE DEF i
  <2>4. pieces[c][k] = file <=> i = j
    BY <1>4, <2>2, <2>3
  <2> QED
    BY <2>4 DEF i
<1>6. Here = {p \in Places : from[p[1]] + p[2] = j}
  <2>1. \A p \in (1..n) \X (1..z) : p[2] <= Len(pieces[p[1]]) => p[1] \in 1..n /\ p[2] \in 1..Len(pieces[p[1]])
    BY <1>1, <1>3
  <2> QED
    BY <1>5, <2>1
<1>7. Occurrences(pieces, file) = Cardinality(Here)
  BY DEF Occurrences
<1> HIDE DEF Here
<1>8. CASE j <= from[n + 1]
  <2>1. j \in 1..from[n + 1]
    BY <1>1, <1>3, <1>8
  <2>2. PICK c \in 1..n : \E k \in 1..Len(pieces[c]) : from[c] + k = j
    BY <1>2, <2>1
  <2>3. PICK k \in 1..Len(pieces[c]) : from[c] + k = j
    BY <2>2
  <2>4. \A p \in Places : p = <<p[1], p[2]>> /\ p[1] \in 1..n /\ p[2] \in 1..Len(pieces[p[1]])
    BY <1>1, <1>3
  <2>5. Here = {<<c, k>>}
    <3>1. <<c, k>> \in Here
      BY <1>2, <1>6, <2>3
    <3>2. ASSUME NEW p \in Here PROVE p = <<c, k>>
      <4>1. p \in Places /\ from[p[1]] + p[2] = j
        BY <1>6
      <4>2. p = <<p[1], p[2]>> /\ p[1] \in 1..n /\ p[2] \in 1..Len(pieces[p[1]])
        BY <2>4, <4>1
      <4>3. p[1] = c /\ p[2] = k
        BY <1>2, <2>3, <4>1, <4>2
      <4> QED
        BY <4>2, <4>3
    <3> QED
      BY <3>1, <3>2
  <2> QED
    BY <1>7, <1>8, <2>5, FS_Singleton
<1>9. CASE ~(j <= from[n + 1])
  <2>1. Here = {}
    <3> SUFFICES ASSUME NEW p \in Here PROVE FALSE
      OBVIOUS
    <3>1. p \in Places /\ from[p[1]] + p[2] = j
      BY <1>6
    <3>2. p[1] \in 1..n /\ p[2] \in 1..Len(pieces[p[1]])
      BY <1>1, <1>3, <3>1
    <3>3. j \in 1..from[n + 1]
      BY <1>2, <3>1, <3>2
    <3> QED
      BY <1>3, <1>9, <3>3
  <2> QED
    BY <1>7, <1>9, <2>1, FS_EmptySet
<1> QED
  BY <1>8, <1>9

\* The batches after one more file.
Batched(state, file, n) ==
  IF Len(state.batch) >= n
  THEN [done |-> Append(state.done, state.batch), batch |-> <<file>>]
  ELSE [done |-> state.done, batch |-> Append(state.batch, file)]

NoneBatched == [done |-> <<>>, batch |-> <<>>]
BatchingStates(S) == [done : Seq(Seq(S)), batch : Seq(S)]

IsBatched(g, S, list, n) ==
  /\ g \in [0..Len(list) -> BatchingStates(S)]
  /\ g[0] = NoneBatched
  /\ \A i \in 1..Len(list) : g[i] = Batched(g[i - 1], list[i], n)
  /\ LET end == g[Len(list)]
     IN  BatchesOf(list, n) = IF end.batch = <<>> THEN end.done ELSE Append(end.done, end.batch)

LEMMA AppendList ==
  ASSUME NEW S, NEW lists \in Seq(Seq(S)), NEW list \in Seq(S)
  PROVE  Append(lists, list) \in Seq(Seq(S))
<1> DEFINE T == Seq(S)
<1>1. lists \in Seq(T) /\ list \in T
  OBVIOUS
<1>2. Append(lists, list) \in Seq(T)
  <2> HIDE DEF T
  <2> QED
    BY <1>1
<1> QED
  BY <1>2

LEMMA BatchedIsState ==
  ASSUME NEW S, NEW state \in BatchingStates(S), NEW file \in S, NEW n
  PROVE  Batched(state, file, n) \in BatchingStates(S)
<1>1. /\ state.done \in Seq(Seq(S)) /\ state.batch \in Seq(S)
      /\ <<file>> \in Seq(S) /\ Append(state.batch, file) \in Seq(S)
  BY DEF BatchingStates
<1>2. Append(state.done, state.batch) \in Seq(Seq(S))
  BY <1>1, AppendList
<1> QED
  BY <1>1, <1>2 DEF Batched, BatchingStates

LEMMA BatchRounds ==
  ASSUME NEW S, NEW list \in Seq(S), NEW n \in Nat
  PROVE  \E g : IsBatched(g, S, list, n)
<1> DEFINE m == Len(list)
           T == BatchingStates(S)
           step == [i \in 1..m |-> [state \in T |-> Batched(state, list[i], n)]]
           Body(p) == [i \in 0..m |-> IF i = 0 THEN NoneBatched ELSE Batched(p[i - 1], list[i], n)]
           f == CHOOSE p : p = Body(p)
           end == f[m]
<1>1. m \in Nat /\ NoneBatched \in T /\ \A i \in 1..m : list[i] \in S
  BY DEF NoneBatched, BatchingStates
<1>2. \A i \in 1..m, state \in T : Batched(state, list[i], n) \in T /\ step[i][state] = Batched(state, list[i], n)
  BY <1>1, BatchedIsState
<1>3. step \in [1..m -> [T -> T]]
  <2>1. \A i \in 1..m, state \in T : Batched(state, list[i], n) \in T
    BY <1>2
  <2> HIDE DEF T
  <2> QED
    BY <2>1
<1>4. BatchesOf(list, n) = IF end.batch = <<>> THEN end.done ELSE Append(end.done, end.batch)
  BY DEF BatchesOf, Batched, NoneBatched
<1> HIDE DEF step, m, T
<1>5. PICK g : IsLoop(g, m, T, NoneBatched, step)
  BY <1>1, <1>3, LoopExists
<1>6. g \in [0..m -> T] /\ g[0] = NoneBatched /\ \A i \in 1..m : g[i] = Batched(g[i - 1], list[i], n)
  <2>1. \A i \in 1..m : i - 1 \in 0..m
    BY <1>1
  <2> QED
    BY <1>2, <1>5, <2>1 DEF IsLoop
<1>7. g = Body(g)
  <2>1. \A i \in 0..m : g[i] = Body(g)[i]
    BY <1>1, <1>6
  <2> QED
    BY <1>6, <2>1
<1>8. f = Body(f)
  <2> HIDE DEF Body
  <2> QED
    BY <1>7
<1> HIDE DEF f
<1>9. f[0] = NoneBatched /\ \A i \in 1..m : f[i - 1] \in T => f[i] = step[i][f[i - 1]]
  <2>1. \A i \in 0..m : f[i] = IF i = 0 THEN NoneBatched ELSE Batched(f[i - 1], list[i], n)
    BY <1>8
  <2>2. 0 \in 0..m /\ \A i \in 1..m : i \in 0..m /\ i # 0
    BY <1>1
  <2> HIDE DEF Body
  <2> QED
    BY <1>2, <2>1, <2>2
<1>10. f[m] = g[m]
  <2>1. m \in 0..m
    BY <1>1
  <2> HIDE DEF Body
  <2>2. \A i \in 0..m : f[i] = g[i]
    BY <1>1, <1>5, <1>9, LoopUnique
  <2> QED
    BY <2>1, <2>2
<1> QED
  BY <1>4, <1>6, <1>10 DEF IsBatched, m, T

\* The longest a batch gets.
Fits(n) == IF n = 0 THEN 1 ELSE n

\* After i files the batches put away and the open one hold these files in order.
BatchesHold(state, list, n, i) ==
  /\ \E from : /\ IsSplit(state.done, from, list)
               /\ i = from[Len(state.done) + 1] + Len(state.batch)
               /\ \A k \in 1..Len(state.batch) : state.batch[k] = list[from[Len(state.done) + 1] + k]
  /\ \A c \in 1..Len(state.done) :
       Len(state.done[c]) <= Fits(n) /\ (n # 0 => Len(state.done[c]) = n)
  /\ Len(state.batch) <= Fits(n)

LEMMA BatchesHoldMore ==
  ASSUME NEW S, NEW list \in Seq(S), NEW n \in Nat, NEW i \in 1..Len(list),
         NEW state \in BatchingStates(S), BatchesHold(state, list, n, i - 1)
  PROVE  BatchesHold(Batched(state, list[i], n), list, n, i)
<1> DEFINE done == state.done
           batch == state.batch
           file == list[i]
           d == Len(done)
           l == Len(batch)
<1>1. /\ done \in Seq(Seq(S)) /\ batch \in Seq(S) /\ file \in S /\ d \in Nat /\ l \in Nat
      /\ Len(list) \in Nat /\ i \in Nat /\ i <= Len(list)
  BY DEF BatchingStates
<1>2. PICK from : /\ IsSplit(done, from, list)
                  /\ i - 1 = from[d + 1] + l
                  /\ \A k \in 1..l : batch[k] = list[from[d + 1] + k]
  BY DEF BatchesHold
<1>3. from[d + 1] \in Nat
  <2>1. d + 1 \in 1..(d + 1)
    BY <1>1
  <2> QED
    BY <1>2, <2>1 DEF IsSplit
<1>4. /\ \A c \in 1..d : Len(done[c]) <= Fits(n) /\ (n # 0 => Len(done[c]) = n)
      /\ l <= Fits(n)
  BY DEF BatchesHold
<1> DEFINE e == from[d + 1]
<1> HIDE DEF done, batch, file, d, l, e
<1>5. e \in Nat /\ i - 1 = e + l /\ \A k \in 1..l : batch[k] = list[e + k]
  BY <1>2, <1>3 DEF e
<1>6. CASE l >= n
  <2> DEFINE all == Append(done, batch)
             new == [done |-> all, batch |-> <<file>>]
  <2>1. Batched(state, file, n) = new
    BY <1>6 DEF Batched, done, batch, l
  <2>2. /\ Len(all) = d + 1 /\ all[d + 1] = batch
        /\ \A c \in 1..d : all[c] = done[c]
    <3> DEFINE T == Seq(S)
    <3>1. done \in Seq(T) /\ batch \in T
      BY <1>1
    <3> HIDE DEF T
    <3> QED
      BY <3>1 DEF d
  <2>3. \E next : IsSplit(all, next, list) /\ next[d + 2] = e + l
    <3> DEFINE T == Seq(S)
    <3>1. done \in Seq(T) /\ batch \in T /\ Len(batch) \in Nat /\ Len(list) \in Nat
      BY <1>1 DEF l
    <3>2. from[Len(done) + 1] + Len(batch) <= Len(list)
      <4>1. e + l <= Len(list)
        BY <1>1, <1>5
      <4> QED
        BY <4>1 DEF e, l, d
    <3>3. \A k \in 1..Len(batch) : batch[k] = list[from[Len(done) + 1] + k]
      BY <1>2 DEF l, d
    <3> HIDE DEF T
    <3> QED
      BY <1>2, <3>1, <3>2, <3>3, SplitAppend DEF e, l, d
  <2>4. PICK next : IsSplit(all, next, list) /\ next[d + 2] = e + l
    BY <2>3
  <2>5. Len(all) + 1 = d + 2 /\ i = (e + l) + 1
    BY <1>1, <1>5, <2>2
  <2>6. Len(<<file>>) = 1 /\ \A k \in 1..1 : k = 1 /\ <<file>>[k] = file
    OBVIOUS
  <2>7. i = next[Len(all) + 1] + Len(<<file>>)
        /\ \A k \in 1..Len(<<file>>) : <<file>>[k] = list[next[Len(all) + 1] + k]
    BY <2>4, <2>5, <2>6 DEF file
  <2>8. 1 <= Fits(n) /\ l <= Fits(n) /\ (n # 0 => l = n)
    <3>1. n # 0 => l <= n
      BY <1>4 DEF Fits
    <3>2. n # 0 => l = n
      BY <1>1, <1>6, <3>1
    <3>3. 1 <= Fits(n)
      BY DEF Fits
    <3> QED
      BY <1>4, <3>2, <3>3
  <2>9. \A c \in 1..Len(all) : Len(all[c]) <= Fits(n) /\ (n # 0 => Len(all[c]) = n)
    <3> TAKE c \in 1..Len(all)
    <3>1. c = d + 1 \/ c \in 1..d
      BY <1>1, <2>2
    <3> QED
      BY <1>4, <2>2, <2>8, <3>1 DEF l
  <2>10. new.done = all /\ new.batch = <<file>>
    OBVIOUS
  <2> HIDE DEF new, all
  <2>11. BatchesHold(new, list, n, i)
    BY <2>4, <2>6, <2>7, <2>8, <2>9, <2>10 DEF BatchesHold
  <2> QED
    BY <2>1, <2>11 DEF file
<1>7. CASE ~(l >= n)
  <2> DEFINE more == Append(batch, file)
             new == [done |-> done, batch |-> more]
  <2>1. Batched(state, file, n) = new
    BY <1>7 DEF Batched, done, batch, l
  <2>2. Len(more) = l + 1 /\ more[l + 1] = file /\ \A k \in 1..l : more[k] = batch[k]
    BY <1>1 DEF l
  <2>3. i = e + Len(more)
    BY <1>1, <1>5, <2>2
  <2>4. \A k \in 1..Len(more) : more[k] = list[e + k]
    <3> TAKE k \in 1..Len(more)
    <3>1. k = l + 1 \/ k \in 1..l
      BY <1>1, <2>2
    <3>2. e + (l + 1) = i
      BY <2>2, <2>3
    <3> QED
      BY <1>5, <2>2, <3>1, <3>2 DEF file
  <2>5. Len(more) <= Fits(n)
    BY <1>1, <1>7, <2>2 DEF Fits
  <2>6. new.done = done /\ new.batch = more
    OBVIOUS
  <2> HIDE DEF new, more
  <2>7. BatchesHold(new, list, n, i)
    BY <1>2, <1>4, <2>3, <2>4, <2>5, <2>6 DEF BatchesHold, e, d
  <2> QED
    BY <2>1, <2>7 DEF file
<1> QED
  BY <1>6, <1>7

LEMMA BatchesAreSplit ==
  ASSUME NEW S, NEW list \in Seq(S), NEW n \in Nat
  PROVE  LET batches == BatchesOf(list, n)
         IN  /\ batches \in Seq(Seq(S))
             /\ \E from : IsSplit(batches, from, list) /\ from[Len(batches) + 1] = Len(list)
             /\ \A c \in 1..Len(batches) :
                  Len(batches[c]) <= Fits(n) /\ (n # 0 /\ c < Len(batches) => Len(batches[c]) = n)
<1> DEFINE m == Len(list)
           batches == BatchesOf(list, n)
<1>1. m \in Nat /\ \A i \in 1..m : list[i] \in S
  OBVIOUS
<1>2. PICK g : IsBatched(g, S, list, n)
  BY BatchRounds
<1> DEFINE Good == {i \in 0..m : BatchesHold(g[i], list, n, i)}
           zero == [c \in 1..1 |-> 0]
<1>3. BatchesHold(NoneBatched, list, n, 0)
  <2>1. Len(<<>>) = 0 /\ NoneBatched.done = <<>> /\ NoneBatched.batch = <<>> /\ 1..0 = {} /\ zero[0 + 1] = 0
    BY DEF NoneBatched
  <2>2. IsSplit(<<>>, zero, list)
    BY <1>1, SplitEmpty
  <2>3. 0 <= Fits(n) /\ 0 = 0 + 0
    BY DEF Fits
  <2> HIDE DEF zero
  <2> QED
    BY <2>1, <2>2, <2>3 DEF BatchesHold
<1>4. 0..m \subseteq Good
  <2>1. 0 \in Good
    BY <1>1, <1>2, <1>3 DEF IsBatched
  <2>2. ASSUME NEW i \in (0 + 1)..m, i - 1 \in Good PROVE i \in Good
    <3>1. i \in 1..m /\ i - 1 \in 0..m /\ i \in 0..m
      BY <1>1, <2>2
    <3>2. g[i - 1] \in BatchingStates(S) /\ g[i] = Batched(g[i - 1], list[i], n)
      BY <1>2, <3>1 DEF IsBatched
    <3>3. BatchesHold(g[i - 1], list, n, i - 1)
      BY <2>2
    <3>4. BatchesHold(g[i], list, n, i)
      BY <3>1, <3>2, <3>3, BatchesHoldMore
    <3> QED
      BY <3>1, <3>4
  <2> HIDE DEF Good, m
  <2> QED
    BY <1>1, <2>1, <2>2, RoundInduction
<1> DEFINE end == g[m]
           done == end.done
           batch == end.batch
           d == Len(done)
           l == Len(batch)
<1>5. m \in 0..m
  BY <1>1
<1>6. BatchesHold(end, list, n, m)
  BY <1>4, <1>5
<1>7. /\ done \in Seq(Seq(S)) /\ batch \in Seq(S) /\ d \in Nat /\ l \in Nat
      /\ batches = IF batch = <<>> THEN done ELSE Append(done, batch)
  <2>1. end \in BatchingStates(S)
    BY <1>2, <1>5 DEF IsBatched
  <2> QED
    BY <1>2, <2>1 DEF IsBatched, BatchingStates
<1>8. PICK from : /\ IsSplit(done, from, list)
                  /\ m = from[d + 1] + l
                  /\ \A k \in 1..l : batch[k] = list[from[d + 1] + k]
  BY <1>6 DEF BatchesHold
<1>9. /\ \A c \in 1..d : Len(done[c]) <= Fits(n) /\ (n # 0 => Len(done[c]) = n)
      /\ l <= Fits(n)
  BY <1>6 DEF BatchesHold
<1>10. from[d + 1] \in Nat
  <2>1. d + 1 \in 1..(d + 1)
    BY <1>7
  <2> QED
    BY <1>8, <2>1 DEF IsSplit
<1> HIDE DEF end, done, batch, batches
<1>11. CASE batch = <<>>
  <2>1. l = 0 /\ batches = done /\ Len(batches) = d
    BY <1>7, <1>11
  <2>2. from[d + 1] = m
    <3> DEFINE e == from[d + 1]
    <3>1. e \in Nat /\ m = e + 0
      BY <1>8, <1>10, <2>1
    <3> HIDE DEF e, m
    <3> QED
      BY <3>1 DEF e
  <2> QED
    BY <1>7, <1>8, <1>9, <2>1, <2>2 DEF batches
<1>12. CASE batch # <<>>
  <2> DEFINE all == Append(done, batch)
  <2>1. batches = all /\ all \in Seq(Seq(S))
    BY <1>7, <1>12, AppendList
  <2>2. /\ Len(all) = d + 1 /\ all[d + 1] = batch
        /\ \A c \in 1..d : all[c] = done[c]
    <3> DEFINE T == Seq(S)
    <3>1. done \in Seq(T) /\ batch \in T
      BY <1>7
    <3> HIDE DEF T
    <3> QED
      BY <3>1
  <2>3. \E next : IsSplit(all, next, list) /\ next[d + 2] = m
    <3> DEFINE T == Seq(S)
    <3>1. done \in Seq(T) /\ batch \in T /\ Len(batch) \in Nat /\ Len(list) \in Nat
      BY <1>1, <1>7
    <3>2. from[Len(done) + 1] + Len(batch) <= Len(list)
      BY <1>1, <1>8
    <3>3. \A k \in 1..Len(batch) : batch[k] = list[from[Len(done) + 1] + k]
      BY <1>8
    <3> HIDE DEF T
    <3>4. PICK next : IsSplit(all, next, list) /\ next[Len(done) + 2] = from[Len(done) + 1] + Len(batch)
      BY <1>8, <3>1, <3>2, <3>3, SplitAppend
    <3> QED
      BY <1>8, <3>4
  <2>4. PICK next : IsSplit(all, next, list) /\ next[d + 2] = m
    BY <2>3
  <2> HIDE DEF all
  <2>5. Len(all) + 1 = d + 2
    BY <1>7, <2>2
  <2>6. ASSUME NEW c \in 1..Len(all)
        PROVE  Len(all[c]) <= Fits(n) /\ (n # 0 /\ c < Len(all) => Len(all[c]) = n)
    <3>1. (c = d + 1 /\ ~(c < Len(all))) \/ c \in 1..d
      BY <1>7, <2>2
    <3> QED
      BY <1>9, <2>2, <3>1
  <2> QED
    BY <2>1, <2>4, <2>5, <2>6 DEF batches
<1> QED
  BY <1>11, <1>12

\* The merges after one more round.
Merging(state, sorted, n) ==
  LET i == state.i
      size == IF n < Len(sorted) - i THEN n ELSE Len(sorted) - i
  IN  IF i + 2 > Len(sorted) THEN state
      ELSE [i |-> i + size, candidates |-> Append(state.candidates, SubSeq(sorted, i + 1, i + size))]

NoneMerging == [i |-> 0, candidates |-> <<>>]
MergingStates(S, z) == [i : 0..z, candidates : Seq(Seq(S))]

LEMMA MergingFacts ==
  ASSUME NEW S, NEW sorted \in Seq(S), NEW state \in MergingStates(S, Len(sorted)), NEW n \in Nat, n # 0,
         ~(state.i + 2 > Len(sorted))
  PROVE  LET i == state.i
             size == IF n < Len(sorted) - i THEN n ELSE Len(sorted) - i
             part == SubSeq(sorted, i + 1, i + size)
         IN  /\ size \in 1..n /\ (n > 1 => size >= 2) /\ i + size \in 0..Len(sorted)
             /\ part \in Seq(S) /\ Len(part) = size
             /\ \A k \in 1..size : part[k] = sorted[i + k]
             /\ Merging(state, sorted, n) = [i |-> i + size, candidates |-> Append(state.candidates, part)]
<1> DEFINE i == state.i
           z == Len(sorted)
           size == IF n < z - i THEN n ELSE z - i
           part == SubSeq(sorted, i + 1, i + size)
<1>1. i \in 0..z /\ z \in Nat /\ i + 2 <= z
  BY DEF MergingStates
<1>2. Merging(state, sorted, n) = [i |-> i + size, candidates |-> Append(state.candidates, part)]
  BY DEF Merging
<1> HIDE DEF i, z
<1>3. size \in 1..n /\ (n > 1 => size >= 2) /\ i + size \in 0..z
  BY <1>1
<1> HIDE DEF size
<1>4. /\ i + 1 \in Nat /\ i + size \in Nat /\ 1 <= i + 1 /\ i + 1 <= (i + size) + 1 /\ i + size <= z
      /\ (i + size) - (i + 1) + 1 = size
  BY <1>1, <1>3
<1>5. /\ part \in Seq(S) /\ Len(part) = (i + size) - (i + 1) + 1
      /\ \A k \in 1..((i + size) - (i + 1) + 1) : part[k] = sorted[(i + 1) + k - 1]
  <2> DEFINE a == i + 1
             b == i + size
  <2>1. a \in Nat /\ b \in Nat /\ 1 <= a /\ a <= b + 1 /\ b <= Len(sorted)
    BY <1>4 DEF z
  <2> HIDE DEF a, b
  <2>2. /\ SubSeq(sorted, a, b) \in Seq(S) /\ Len(SubSeq(sorted, a, b)) = b - a + 1
        /\ \A k \in 1..(b - a + 1) : SubSeq(sorted, a, b)[k] = sorted[a + k - 1]
    BY <2>1, SubSeqFacts
  <2> QED
    BY <2>2 DEF a, b
<1> HIDE DEF part
<1>6. Len(part) = size /\ \A k \in 1..size : part[k] = sorted[i + k]
  <2>1. \A k \in 1..size : (i + 1) + k - 1 = i + k
    BY <1>1, <1>3
  <2> QED
    BY <1>4, <1>5, <2>1
<1> QED
  BY <1>2, <1>3, <1>5, <1>6 DEF i, z, size, part

LEMMA MergingIsState ==
  ASSUME NEW S, NEW sorted \in Seq(S), NEW state \in MergingStates(S, Len(sorted)), NEW n \in Nat, n # 0
  PROVE  Merging(state, sorted, n) \in MergingStates(S, Len(sorted))
<1>1. CASE state.i + 2 > Len(sorted)
  BY <1>1 DEF Merging
<1>2. CASE ~(state.i + 2 > Len(sorted))
  <2> DEFINE i == state.i
             size == IF n < Len(sorted) - i THEN n ELSE Len(sorted) - i
             part == SubSeq(sorted, i + 1, i + size)
  <2>1. /\ i + size \in 0..Len(sorted) /\ part \in Seq(S)
        /\ Merging(state, sorted, n) = [i |-> i + size, candidates |-> Append(state.candidates, part)]
    BY <1>2, MergingFacts
  <2>2. state.candidates \in Seq(Seq(S))
    BY DEF MergingStates
  <2> HIDE DEF part, size
  <2>3. Append(state.candidates, part) \in Seq(Seq(S))
    BY <2>1, <2>2, AppendList
  <2> QED
    BY <2>1, <2>3 DEF MergingStates
<1> QED
  BY <1>1, <1>2

IsMerging(g, S, sorted, n, candidates) ==
  /\ g \in [0..Len(sorted) -> MergingStates(S, Len(sorted))]
  /\ g[0] = NoneMerging
  /\ \A r \in 1..Len(sorted) : g[r] = Merging(g[r - 1], sorted, n)
  /\ candidates = g[Len(sorted)].candidates

LEMMA MergeRounds ==
  ASSUME NEW S, NEW list, NEW sorted \in Seq(S), NEW n \in Nat, n # 0, Len(sorted) = Len(list),
         sorted = Arranged(list, StableOrder(Len(list), EarlierFirst(list)))
  PROVE  \E g : IsMerging(g, S, sorted, n, SelectMergeCandidates(list, n))
<1> DEFINE m == Len(sorted)
           T == MergingStates(S, m)
           step == [r \in 1..m |-> [state \in T |-> Merging(state, sorted, n)]]
           Body(p) == [r \in 0..m |-> IF r = 0 THEN NoneMerging ELSE Merging(p[r - 1], sorted, n)]
           f == CHOOSE p : p = Body(p)
<1>1. m \in Nat /\ NoneMerging \in T
  BY DEF NoneMerging, MergingStates
<1>2. \A state \in T : Merging(state, sorted, n) \in T
  BY MergingIsState
<1>3. \A r \in 1..m, state \in T : step[r][state] = Merging(state, sorted, n)
  OBVIOUS
<1>4. step \in [1..m -> [T -> T]]
  <2> HIDE DEF T
  <2> QED
    BY <1>2
<1>5. SelectMergeCandidates(list, n) = f[m].candidates
  BY DEF SelectMergeCandidates, Merging, NoneMerging
<1> HIDE DEF step, m, T
<1>6. PICK g : IsLoop(g, m, T, NoneMerging, step)
  BY <1>1, <1>4, LoopExists
<1>7. g \in [0..m -> T] /\ g[0] = NoneMerging /\ \A r \in 1..m : g[r] = Merging(g[r - 1], sorted, n)
  <2>1. \A r \in 1..m : r - 1 \in 0..m
    BY <1>1
  <2> QED
    BY <1>3, <1>6, <2>1 DEF IsLoop
<1>8. g = Body(g)
  <2>1. \A r \in 0..m : g[r] = Body(g)[r]
    BY <1>1, <1>7
  <2> QED
    BY <1>7, <2>1
<1>9. f = Body(f)
  <2> HIDE DEF Body
  <2> QED
    BY <1>8
<1> HIDE DEF f
<1>10. f[0] = NoneMerging /\ \A r \in 1..m : f[r - 1] \in T => f[r] = step[r][f[r - 1]]
  <2>1. \A r \in 0..m : f[r] = IF r = 0 THEN NoneMerging ELSE Merging(f[r - 1], sorted, n)
    BY <1>9
  <2>2. 0 \in 0..m /\ \A r \in 1..m : r \in 0..m /\ r # 0
    BY <1>1
  <2> HIDE DEF Body
  <2> QED
    BY <1>3, <2>1, <2>2
<1>11. f[m] = g[m]
  <2>1. m \in 0..m
    BY <1>1
  <2> HIDE DEF Body
  <2>2. \A r \in 0..m : f[r] = g[r]
    BY <1>1, <1>6, <1>10, LoopUnique
  <2> QED
    BY <2>1, <2>2
<1> QED
  BY <1>5, <1>7, <1>11 DEF IsMerging, m, T

\* After r rounds the candidates hold the files up to where the loop is, in order,
\* and no candidate is short unless the limit is 1.
MergesHold(state, sorted, n, r) ==
  /\ \E from : IsSplit(state.candidates, from, sorted) /\ state.i = from[Len(state.candidates) + 1]
  /\ \A c \in 1..Len(state.candidates) :
       Len(state.candidates[c]) >= 1 /\ (n > 1 => Len(state.candidates[c]) >= 2)
  /\ state.i + 2 > Len(sorted) \/ state.i >= r

LEMMA MergesHoldMore ==
  ASSUME NEW S, NEW sorted \in Seq(S), NEW n \in Nat, n # 0, NEW r \in 1..Len(sorted),
         NEW state \in MergingStates(S, Len(sorted)), MergesHold(state, sorted, n, r - 1)
  PROVE  MergesHold(Merging(state, sorted, n), sorted, n, r)
<1>1. CASE state.i + 2 > Len(sorted)
  BY <1>1 DEF Merging, MergesHold
<1>2. CASE ~(state.i + 2 > Len(sorted))
  <2> DEFINE i == state.i
             cs == state.candidates
             size == IF n < Len(sorted) - i THEN n ELSE Len(sorted) - i
             part == SubSeq(sorted, i + 1, i + size)
             all == Append(cs, part)
             new == [i |-> i + size, candidates |-> all]
             d == Len(cs)
  <2>1. /\ size \in 1..n /\ (n > 1 => size >= 2) /\ i + size \in 0..Len(sorted)
        /\ part \in Seq(S) /\ Len(part) = size
        /\ \A k \in 1..size : part[k] = sorted[i + k]
        /\ Merging(state, sorted, n) = new
    BY <1>2, MergingFacts
  <2>2. i \in Nat /\ cs \in Seq(Seq(S)) /\ d \in Nat /\ Len(sorted) \in Nat
    BY DEF MergingStates
  <2>3. PICK from : IsSplit(cs, from, sorted) /\ i = from[d + 1]
    BY DEF MergesHold
  <2>4. /\ \A c \in 1..d : Len(cs[c]) >= 1 /\ (n > 1 => Len(cs[c]) >= 2)
        /\ i >= r - 1
    BY <1>2 DEF MergesHold
  <2>5. new.i = i + size /\ new.candidates = all
    OBVIOUS
  <2> HIDE DEF new, part, size, i, cs
  <2>6. /\ Len(all) = d + 1 /\ all[d + 1] = part
        /\ \A c \in 1..d : all[c] = cs[c]
    <3> DEFINE T == Seq(S)
    <3>1. cs \in Seq(T) /\ part \in T
      BY <2>1, <2>2
    <3> HIDE DEF T
    <3> QED
      BY <3>1
  <2>7. size \in Nat /\ 1 <= size
    BY <2>1
  <2>8. \E next : IsSplit(all, next, sorted) /\ next[d + 2] = i + size
    <3> DEFINE T == Seq(S)
    <3>1. cs \in Seq(T) /\ part \in T /\ Len(part) \in Nat
      BY <2>1, <2>2, <2>7
    <3>2. from[Len(cs) + 1] + Len(part) <= Len(sorted)
      BY <2>1, <2>2, <2>3
    <3>3. \A k \in 1..Len(part) : part[k] = sorted[from[Len(cs) + 1] + k]
      BY <2>1, <2>3
    <3> HIDE DEF T
    <3>4. PICK next : IsSplit(all, next, sorted) /\ next[Len(cs) + 2] = from[Len(cs) + 1] + Len(part)
      BY <2>2, <2>3, <3>1, <3>2, <3>3, SplitAppend
    <3> QED
      BY <2>1, <2>3, <3>4
  <2>9. PICK next : IsSplit(all, next, sorted) /\ next[d + 2] = i + size
    BY <2>8
  <2> HIDE DEF all, d
  <2>10. Len(all) + 1 = d + 2 /\ i + size >= r
    BY <2>2, <2>4, <2>6, <2>7
  <2>11. \A c \in 1..Len(all) : Len(all[c]) >= 1 /\ (n > 1 => Len(all[c]) >= 2)
    <3> TAKE c \in 1..Len(all)
    <3>1. c = d + 1 \/ c \in 1..d
      BY <2>2, <2>6
    <3> QED
      BY <2>1, <2>4, <2>6, <2>7, <3>1
  <2>12. MergesHold(new, sorted, n, r)
    BY <2>5, <2>9, <2>10, <2>11 DEF MergesHold
  <2> QED
    BY <2>1, <2>12
<1> QED
  BY <1>1, <1>2

LEMMA MergesAreSplit ==
  ASSUME NEW S, NEW list, NEW sorted \in Seq(S), NEW n \in Nat, n # 0, Len(sorted) = Len(list),
         sorted = Arranged(list, StableOrder(Len(list), EarlierFirst(list))),
         NEW cs, cs = SelectMergeCandidates(list, n)
  PROVE  /\ cs \in Seq(Seq(S))
         /\ \E from : IsSplit(cs, from, sorted) /\ from[Len(cs) + 1] + 2 > Len(sorted)
         /\ \A c \in 1..Len(cs) : Len(cs[c]) >= 1 /\ (n > 1 => Len(cs[c]) >= 2)
<1> DEFINE m == Len(sorted)
<1>1. m \in Nat
  OBVIOUS
<1>2. PICK g : IsMerging(g, S, sorted, n, cs)
  BY MergeRounds
<1> DEFINE Good == {r \in 0..m : MergesHold(g[r], sorted, n, r)}
           zero == [c \in 1..1 |-> 0]
<1>3. MergesHold(NoneMerging, sorted, n, 0)
  <2>1. Len(<<>>) = 0 /\ NoneMerging.candidates = <<>> /\ NoneMerging.i = 0 /\ 1..0 = {} /\ zero[0 + 1] = 0
    BY DEF NoneMerging
  <2>2. IsSplit(<<>>, zero, sorted)
    BY <1>1, SplitEmpty
  <2>3. 0 >= 0
    OBVIOUS
  <2> HIDE DEF zero
  <2> QED
    BY <2>1, <2>2, <2>3 DEF MergesHold
<1>4. 0..m \subseteq Good
  <2>1. 0 \in Good
    BY <1>1, <1>2, <1>3 DEF IsMerging
  <2>2. ASSUME NEW r \in (0 + 1)..m, r - 1 \in Good PROVE r \in Good
    <3>1. r \in 1..m /\ r - 1 \in 0..m /\ r \in 0..m
      BY <1>1, <2>2
    <3>2. g[r - 1] \in MergingStates(S, m) /\ g[r] = Merging(g[r - 1], sorted, n)
      BY <1>2, <3>1 DEF IsMerging
    <3>3. MergesHold(g[r - 1], sorted, n, r - 1)
      BY <2>2
    <3>4. MergesHold(g[r], sorted, n, r)
      BY <3>1, <3>2, <3>3, MergesHoldMore
    <3> QED
      BY <3>1, <3>4
  <2> HIDE DEF Good, m
  <2> QED
    BY <1>1, <2>1, <2>2, RoundInduction
<1> DEFINE end == g[m]
<1>5. m \in 0..m
  BY <1>1
<1>6. MergesHold(end, sorted, n, m)
  BY <1>4, <1>5
<1>7. end \in MergingStates(S, m) /\ cs = end.candidates
  BY <1>2, <1>5 DEF IsMerging
<1>8. end.i + 2 > m
  <2> DEFINE i == end.i
  <2>1. i \in Nat /\ (i + 2 > m \/ i >= m)
    BY <1>6, <1>7 DEF MergesHold, MergingStates
  <2> HIDE DEF i, m
  <2>2. i + 2 > m
    BY <1>1, <2>1
  <2> QED
    BY <2>2 DEF i
<1> HIDE DEF end
<1> QED
  BY <1>6, <1>7, <1>8 DEF MergesHold, MergingStates

\* The range of a candidate covers the times of its files.
LEMMA RangeCovers ==
  ASSUME NEW S, NEW batch \in Seq(S), \A f \in S : f.min \in Int /\ f.max \in Int,
         NEW file \in ToSet(batch)
  PROVE  Candidate(batch).range[1] <= file.min /\ file.max <= Candidate(batch).range[2]
<1> DEFINE n == Len(batch)
           low == [i \in 1..n |-> batch[i].min]
           high == [i \in 1..n |-> batch[i].max]
           Lows == {f.min : f \in ToSet(batch)}
           Highs == {f.max : f \in ToSet(batch)}
<1>1. n \in Nat /\ DOMAIN batch = 1..n /\ \A i \in 1..n : batch[i] \in S
  OBVIOUS
<1>2. /\ \A f \in ToSet(batch) : \E i \in 1..n : f = batch[i]
      /\ \A i \in 1..n : batch[i] \in ToSet(batch)
  BY <1>1 DEF ToSet
<1>3. n # 0 /\ batch # <<>>
  BY <1>1, <1>2
<1>4. Candidate(batch).range = <<Least(Lows), Greatest(Highs)>>
  BY <1>3 DEF Candidate
<1> HIDE DEF n
<1>5. \A i \in 1..n : low[i] \in Int /\ high[i] \in Int
  BY <1>1
<1>6. PICK k \in 1..n : \A i \in 1..n : low[k] <= low[i]
  <2> HIDE DEF low, high
  <2> QED
    BY <1>1, <1>3, <1>5, ExtremesExist
<1>7. PICK l \in 1..n : \A i \in 1..n : high[i] <= high[l]
  <2> HIDE DEF low, high
  <2> QED
    BY <1>1, <1>3, <1>5, ExtremesExist
<1>8. batch[k].min \in Lows /\ \A y \in Lows : batch[k].min <= y
  BY <1>2, <1>6
<1>9. batch[l].max \in Highs /\ \A y \in Highs : y <= batch[l].max
  BY <1>2, <1>7
<1>10. \A y \in Lows : Least(Lows) <= y
  <2> HIDE DEF Lows
  <2> QED
    BY <1>8 DEF Least
<1>11. \A y \in Highs : y <= Greatest(Highs)
  <2> HIDE DEF Highs
  <2> QED
    BY <1>9 DEF Greatest
<1> QED
  BY <1>4, <1>10, <1>11

\* Each file is in one batch.
LEMMA CompactionsFaithful ==
  ASSUME IsFileList(files), NEW n \in Nat, compactions = SelectCompactionCandidates(files, n)
  PROVE  LET batches == [i \in DOMAIN compactions |-> compactions[i].files]
         IN  /\ \A f \in ToSet(files) : Occurrences(batches, f) = 1
             /\ \A i \in DOMAIN batches :
                  /\ Len(batches[i]) <= Fits(n)
                  /\ n # 0 /\ i < Len(batches) => Len(batches[i]) = Fits(n)
                  /\ \A f \in ToSet(batches[i]) :
                       compactions[i].range[1] <= f.min /\ f.max <= compactions[i].range[2]
<1> DEFINE S == ToSet(files)
           sorted == Arranged(files, StableOrder(Len(files), LargerFirst(files)))
           cut == BatchesOf(sorted, n)
           d == Len(cut)
<1>1. IsReordered(sorted, files)
  BY SortedBySize
<1>2. sorted \in Seq(S) /\ Len(sorted) = Len(files)
  BY <1>1 DEF IsReordered
<1>3. \A f \in S : f.min \in Int /\ f.max \in Int
  BY DEF IsFileList
<1>4. compactions = [i \in DOMAIN cut |-> Candidate(cut[i])]
  BY DEF SelectCompactionCandidates
<1> HIDE DEF sorted, S
<1>5. /\ cut \in Seq(Seq(S))
      /\ \A c \in 1..Len(cut) : Len(cut[c]) <= Fits(n) /\ (n # 0 /\ c < Len(cut) => Len(cut[c]) = n)
  BY <1>2, BatchesAreSplit
<1>6. PICK from : IsSplit(cut, from, sorted) /\ from[Len(cut) + 1] = Len(sorted)
  BY <1>2, BatchesAreSplit
<1> HIDE DEF cut
<1>7. d \in Nat /\ DOMAIN cut = 1..d /\ Len(cut) \in Nat /\ \A c \in 1..d : cut[c] \in Seq(S)
  <2> DEFINE T == Seq(S)
  <2>1. cut \in Seq(T)
    BY <1>5
  <2> HIDE DEF T
  <2>2. d \in Nat /\ DOMAIN cut = 1..d /\ Len(cut) \in Nat /\ \A c \in 1..d : cut[c] \in T
    BY <2>1
  <2> QED
    BY <2>2 DEF T
<1> HIDE DEF d
<1>8. cut = [i \in DOMAIN compactions |-> compactions[i].files] /\ DOMAIN compactions = 1..d
  <2>1. DOMAIN compactions = 1..d /\ \A i \in 1..d : compactions[i].files = cut[i]
    BY <1>4, <1>7 DEF Candidate
  <2>2. cut = [i \in DOMAIN cut |-> cut[i]]
    BY <1>5
  <2> QED
    BY <1>7, <2>1, <2>2
<1>9. \A f \in ToSet(files) : Occurrences(cut, f) = 1
  <2> TAKE f \in ToSet(files)
  <2>1. PICK j \in 1..Len(files) : sorted[j] = f
    BY <1>1, ReorderedFacts
  <2>2. Occurrences(cut, sorted[j]) = IF j <= from[Len(cut) + 1] THEN 1 ELSE 0
    BY <1>1, <1>6, <1>7, OccursOnce DEF d
  <2>3. Len(files) \in Nat
    BY FileFacts
  <2>4. j <= from[Len(cut) + 1]
    BY <1>2, <1>6, <2>3
  <2> QED
    BY <2>1, <2>2, <2>4
<1>10. ASSUME NEW i \in 1..d
       PROVE  /\ Len(cut[i]) <= Fits(n)
              /\ n # 0 /\ i < Len(cut) => Len(cut[i]) = Fits(n)
              /\ \A f \in ToSet(cut[i]) :
                   compactions[i].range[1] <= f.min /\ f.max <= compactions[i].range[2]
  <2>1. Len(cut[i]) <= Fits(n) /\ (n # 0 /\ i < Len(cut) => Len(cut[i]) = Fits(n))
    BY <1>5, <1>10 DEF Fits, d
  <2>2. compactions[i] = Candidate(cut[i])
    BY <1>4, <1>7, <1>10
  <2>3. \A f \in ToSet(cut[i]) : Candidate(cut[i]).range[1] <= f.min /\ f.max <= Candidate(cut[i]).range[2]
    BY <1>3, <1>7, <1>10, RangeCovers
  <2> QED
    BY <2>1, <2>2, <2>3
<1> QED
  BY <1>7, <1>8, <1>9, <1>10

\* Each file is in one merge, but the last one may be in none.
LEMMA MergesFaithful ==
  ASSUME IsFileList(files), NEW n \in Nat, n # 0, merges = SelectMergeCandidates(files, n)
  PROVE  LET left == {f \in ToSet(files) : Occurrences(merges, f) = 0}
         IN  /\ \A f \in ToSet(files) : Occurrences(merges, f) <= 1
             /\ Cardinality(left) <= 1
             /\ \A f \in left, g \in ToSet(files) : g.min <= f.min
             /\ n > 1 => Len(Merged(merges)) = Len(merges)
             /\ \A i, j \in DOMAIN merges : i < j =>
                  \A f \in ToSet(merges[i]), g \in ToSet(merges[j]) : f.min <= g.min
<1> DEFINE S == ToSet(files)
           z == Len(files)
           sorted == Arranged(files, StableOrder(Len(files), EarlierFirst(files)))
           d == Len(merges)
           left == {f \in ToSet(files) : Occurrences(merges, f) = 0}
<1>1. /\ IsReordered(sorted, files)
      /\ \A k, l \in 1..z : k < l => sorted[k].min <= sorted[l].min
  BY SortedByTime
<1>2. sorted \in Seq(S) /\ Len(sorted) = Len(files)
  BY <1>1 DEF IsReordered
<1>3. z \in Nat /\ \A f \in S : f.min \in Int
  BY FileFacts DEF IsFileList
<1>4. /\ merges \in Seq(Seq(S))
      /\ \E from : IsSplit(merges, from, sorted) /\ from[Len(merges) + 1] + 2 > Len(sorted)
      /\ \A c \in 1..Len(merges) : Len(merges[c]) >= 1 /\ (n > 1 => Len(merges[c]) >= 2)
  <2> HIDE DEF S
  <2> QED
    BY <1>2, MergesAreSplit
<1>5. PICK from : IsSplit(merges, from, sorted) /\ from[Len(merges) + 1] + 2 > Len(sorted)
  BY <1>4
<1> HIDE DEF sorted, S
<1>6. d \in Nat /\ DOMAIN merges = 1..d /\ \A c \in 1..d : merges[c] \in Seq(S)
  <2> DEFINE T == Seq(S)
  <2>1. merges \in Seq(T)
    BY <1>4
  <2> HIDE DEF T
  <2>2. d \in Nat /\ DOMAIN merges = 1..d /\ \A c \in 1..d : merges[c] \in T
    BY <2>1
  <2> QED
    BY <2>2 DEF T
<1> DEFINE e == from[d + 1]
<1>7. e \in Nat /\ e <= z /\ e + 2 > z
  <2>1. d + 1 \in 1..(d + 1)
    BY <1>6
  <2> QED
    BY <1>2, <1>5, <1>6, <2>1 DEF IsSplit
<1>8. \A j \in 1..z : Occurrences(merges, sorted[j]) = IF j <= e THEN 1 ELSE 0
  BY <1>1, <1>5, <1>6, OccursOnce
<1>9. \A f \in ToSet(files) : \E j \in 1..z : sorted[j] = f
  BY <1>1, ReorderedFacts
<1> HIDE DEF e
<1>10. \A f \in left : z \in 1..z /\ f = sorted[z]
  <2> TAKE f \in left
  <2>1. PICK j \in 1..z : sorted[j] = f
    BY <1>9
  <2>2. ~(j <= e)
    BY <1>8, <2>1
  <2>3. j = z /\ z \in 1..z
    <3> HIDE DEF z
    <3> QED
      BY <1>3, <1>7, <2>2
  <2> QED
    BY <2>1, <2>3
<1>11. Cardinality(left) <= 1
  <2>1. CASE left = {}
    BY <2>1, FS_EmptySet
  <2>2. CASE left # {}
    <3> DEFINE last == sorted[z]
    <3>1. left = {last}
      BY <1>10, <2>2
    <3> HIDE DEF left, last
    <3>2. Cardinality(left) = 1
      BY <3>1, FS_Singleton
    <3> QED
      BY <3>2
  <2> QED
    BY <2>1, <2>2
<1>12. ASSUME NEW f \in left, NEW g \in ToSet(files) PROVE g.min <= f.min
  <2>1. PICK k \in 1..z : sorted[k] = g
    BY <1>9
  <2>2. z \in 1..z /\ f = sorted[z]
    BY <1>10
  <2>3. g.min \in Int
    BY <1>3 DEF S
  <2>4. k = z \/ k < z
    <3> HIDE DEF z
    <3> QED
      BY <1>3
  <2> QED
    BY <1>1, <2>1, <2>2, <2>3, <2>4
<1>13. \A f \in ToSet(files) : Occurrences(merges, f) <= 1
  BY <1>8, <1>9
<1>14. n > 1 => Len(Merged(merges)) = Len(merges)
  <2> SUFFICES ASSUME n > 1 PROVE Len(Merged(merges)) = Len(merges)
    OBVIOUS
  <2> DEFINE keep == {i \in DOMAIN merges : Len(merges[i]) >= 2}
             T == Seq(S)
  <2>1. 1..Len(merges) \subseteq keep /\ merges \in Seq(T)
    BY <1>4, <1>6
  <2> HIDE DEF keep, T
  <2>2. Kept(merges, keep) = merges
    BY <2>1, KeptAll
  <2> QED
    BY <2>2 DEF Merged, keep
<1>15. ASSUME NEW i \in 1..d, NEW j \in 1..d, i < j,
              NEW f \in ToSet(merges[i]), NEW g \in ToSet(merges[j])
       PROVE  f.min <= g.min
  <2>1. /\ Len(merges[i]) \in Nat /\ DOMAIN merges[i] = 1..Len(merges[i])
        /\ Len(merges[j]) \in Nat /\ DOMAIN merges[j] = 1..Len(merges[j])
    <3>1. merges[i] \in Seq(S) /\ merges[j] \in Seq(S)
      BY <1>6
    <3> QED
      BY <3>1
  <2>2. PICK k \in 1..Len(merges[i]) : f = merges[i][k]
    BY <2>1 DEF ToSet
  <2>3. PICK l \in 1..Len(merges[j]) : g = merges[j][l]
    BY <2>1 DEF ToSet
  <2> DEFINE a == from[i] + k
             b == from[j] + l
  <2>4. from[i] \in Nat /\ from[j] \in Nat
    <3>1. from \in [1..(d + 1) -> Nat] /\ i \in 1..(d + 1) /\ j \in 1..(d + 1)
      BY <1>5, <1>6 DEF IsSplit
    <3> QED
      BY <3>1
  <2>5. a \in 1..e /\ b \in 1..e /\ from[i] + Len(merges[i]) <= from[j]
    <3>1. /\ \A c \in 1..d : \A p \in 1..Len(merges[c]) : from[c] + p \in 1..from[d + 1]
          /\ \A c, t \in 1..d : c < t => from[c] + Len(merges[c]) <= from[t]
      <4> DEFINE Places == {p \in (1..d) \X (1..Len(sorted)) : p[2] <= Len(merges[p[1]])}
      <4>1. Len(merges) \in Nat /\ Len(sorted) \in Nat /\ IsSplit(merges, from, sorted)
        BY <1>2, <1>3, <1>5, <1>6
      <4>2. /\ \A c \in 1..d : \A p \in 1..Len(merges[c]) : <<c, p>> \in Places /\ from[c] + p \in 1..from[d + 1]
            /\ \A c, t \in 1..d : c < t => from[c] + Len(merges[c]) <= from[t]
        BY <4>1, SplitPlaces
      <4> HIDE DEF Places
      <4> QED
        BY <4>2
    <3>2. a \in 1..from[d + 1] /\ b \in 1..from[d + 1]
      BY <3>1
    <3> QED
      BY <1>15, <3>1, <3>2 DEF e
  <2>6. f = sorted[a] /\ g = sorted[b]
    BY <1>5, <1>6, <2>2, <2>3 DEF IsSplit
  <2>7. a < b
    <3> DEFINE p == from[i]
               q == from[j]
               m == Len(merges[i])
    <3>1. p \in Nat /\ q \in Nat /\ m \in Nat /\ p + m <= q /\ k \in 1..m
      BY <2>1, <2>4, <2>5
    <3>2. l \in Nat /\ 1 <= l
      BY <2>1
    <3>3. a = p + k /\ b = q + l
      OBVIOUS
    <3> HIDE DEF a, b, p, q, m
    <3> QED
      BY <3>1, <3>2, <3>3
  <2> HIDE DEF a, b
  <2>8. a \in 1..z /\ b \in 1..z
    <3> HIDE DEF z
    <3> QED
      BY <1>3, <1>7, <2>5
  <2> QED
    BY <1>1, <2>6, <2>7, <2>8
<1> HIDE DEF left
<1>16. \A f \in left, g \in ToSet(files) : g.min <= f.min
  BY <1>12
<1>17. \A i, j \in DOMAIN merges : i < j =>
          \A f \in ToSet(merges[i]), g \in ToSet(merges[j]) : f.min <= g.min
  BY <1>6, <1>15
<1> QED
  BY <1>11, <1>13, <1>14, <1>16, <1>17 DEF left

\* What has been selected is what the two functions make of the list.
SelectionInv ==
  /\ files \in FileLists
  /\ limits[2] # 0 =>
       /\ limits[1] \in CompactLimits /\ limits[2] \in MergeLimits
       /\ compactions = SelectCompactionCandidates(files, limits[1])
       /\ merges = SelectMergeCandidates(files, limits[2])

\* Whatever the files and the limits are, no selection of the planner or of the
\* merge tool loses a file or takes one twice.
THEOREM SelectionsAreFaithful == SelectionSpec => []EveryFileOnce
<1>1. SelectionInit => SelectionInv
  BY DEF SelectionInit, SelectionInv
<1>2. SelectionInv /\ [SelectionNext]_selectionVars => SelectionInv'
  <2> SUFFICES ASSUME SelectionInv, [SelectionNext]_selectionVars PROVE SelectionInv'
    OBVIOUS
  <2>1. CASE UNCHANGED selectionVars
    BY <2>1 DEF SelectionInv, selectionVars
  <2>2. ASSUME NEW compact \in CompactLimits, NEW merge \in MergeLimits, Select(compact, merge)
        PROVE  SelectionInv'
    BY <2>2 DEF SelectionInv, Select
  <2> QED
    BY <2>1, <2>2 DEF SelectionNext
<1>3. SelectionInv => EveryFileOnce
  <2> SUFFICES ASSUME SelectionInv, limits[2] # 0 PROVE EveryFileOnce
    BY DEF EveryFileOnce
  <2>1. /\ IsFileList(files) /\ limits[1] \in Nat /\ limits[2] \in Nat
        /\ compactions = SelectCompactionCandidates(files, limits[1])
        /\ merges = SelectMergeCandidates(files, limits[2])
    BY SelectionAssumption DEF SelectionInv
  <2> DEFINE batches == [i \in DOMAIN compactions |-> compactions[i].files]
             left == {f \in ToSet(files) : Occurrences(merges, f) = 0}
  <2>2. /\ \A f \in ToSet(files) : Occurrences(batches, f) = 1
        /\ \A i \in DOMAIN batches :
             /\ Len(batches[i]) <= Fits(limits[1])
             /\ limits[1] # 0 /\ i < Len(batches) => Len(batches[i]) = Fits(limits[1])
             /\ \A f \in ToSet(batches[i]) :
                  compactions[i].range[1] <= f.min /\ f.max <= compactions[i].range[2]
    BY <2>1, CompactionsFaithful
  <2>3. /\ \A f \in ToSet(files) : Occurrences(merges, f) <= 1
        /\ Cardinality(left) <= 1
        /\ \A f \in left, g \in ToSet(files) : g.min <= f.min
        /\ limits[2] > 1 => Len(Merged(merges)) = Len(merges)
        /\ \A i, j \in DOMAIN merges : i < j =>
             \A f \in ToSet(merges[i]), g \in ToSet(merges[j]) : f.min <= g.min
    BY <2>1, MergesFaithful
  <2> HIDE DEF left, batches
  <2> QED
    BY <2>2, <2>3 DEF EveryFileOnce, Fits, left, batches
<1> QED
  BY <1>1, <1>2, <1>3, PTL DEF SelectionSpec

-----------------------------------------------------------------------------
(* Ageing: buckets, and the means that replace the points in them. *)

\* A multiple is no greater than another that it does not pass by a whole interval.
LEMMA MultipleAtMost ==
  ASSUME NEW d \in Nat \ {0}, NEW a \in Int, NEW b \in Int, a * d < b * d + d
  PROVE  a <= b
<1> SUFFICES ASSUME b < a PROVE FALSE
  OBVIOUS
<1>1. PICK k \in Nat : a = b + 1 + k
  <2>1. a - b - 1 \in Nat /\ a = b + 1 + (a - b - 1)
    OBVIOUS
  <2> QED
    BY <2>1
<1>2. a * d = b * d + d + k * d
  BY <1>1
<1>3. k * d \in Nat /\ b * d \in Int
  BY <1>1
<1> QED
  BY <1>2, <1>3

LEMMA QuotientIs ==
  ASSUME NEW n \in Nat, NEW d \in Nat \ {0}, NEW q \in Nat, NEW r \in Nat, r < d, n = q * d + r
  PROVE  n \div d = q
<1> DEFINE p == n \div d
<1>1. p \in Nat /\ p * d <= n /\ n < p * d + d
  BY QuotientEncloses
<1>2. q * d <= n /\ n < q * d + d
  <2>1. q * d \in Nat
    OBVIOUS
  <2> QED
    BY <2>1
<1> HIDE DEF p
<1>3. p = q
  BY <1>1, <1>2, SameMultiple
<1> QED
  BY <1>3 DEF p

\* A quotient in two steps.
LEMMA NestedQuotient ==
  ASSUME NEW n \in Nat, NEW f \in Nat \ {0}, NEW k \in Nat \ {0}
  PROVE  /\ n \div (f * k) = (n \div f) \div k
         /\ ((n \div f) * f) \div (f * k) = (n \div f) \div k
<1> DEFINE q == n \div f
           p == q \div k
           d == f * k
<1>1. q \in Nat /\ q * f <= n /\ n < q * f + f
  BY QuotientEncloses
<1> HIDE DEF q
<1>2. p \in Nat /\ p * k <= q /\ q < p * k + k
  BY <1>1, QuotientEncloses
<1> HIDE DEF p
<1> DEFINE r == n - q * f
           s == q - p * k
<1>3. r \in Nat /\ r < f /\ n = q * f + r
  <2> DEFINE w == q * f
  <2>1. w \in Nat /\ w <= n /\ n < w + f
    BY <1>1
  <2> HIDE DEF w
  <2>2. n - w \in Nat /\ n - w < f /\ n = w + (n - w)
    BY <2>1
  <2> QED
    BY <2>2 DEF w
<1>4. s \in Nat /\ s <= k - 1 /\ q = p * k + s
  <2> DEFINE w == p * k
  <2>1. w \in Nat /\ w <= q /\ q < w + k
    BY <1>2
  <2> HIDE DEF w
  <2>2. q - w \in Nat /\ q - w <= k - 1 /\ q = w + (q - w)
    BY <1>1, <2>1
  <2> QED
    BY <2>2 DEF w
<1> HIDE DEF r, s
<1>5. d \in Nat \ {0}
  <2>1. f * k # 0 /\ f * k \in Nat
    OBVIOUS
  <2> QED
    BY <2>1
<1>6. q * f = p * d + s * f
  <2>1. q * f = (p * k + s) * f
    BY <1>4
  <2>2. (p * k + s) * f = (p * k) * f + s * f
    BY <1>2, <1>4
  <2>3. (p * k) * f = p * (f * k)
    BY <1>2
  <2> QED
    BY <2>1, <2>2, <2>3
<1>7. s * f \in Nat /\ s * f + f <= d
  <2>1. PICK t \in Nat : k = s + 1 + t
    <3>1. k - s - 1 \in Nat /\ k = s + 1 + (k - s - 1)
      BY <1>4
    <3> QED
      BY <3>1
  <2>2. f * k = s * f + f + t * f
    BY <1>4, <2>1
  <2>3. t * f \in Nat /\ s * f \in Nat
    BY <1>4, <2>1
  <2> QED
    BY <2>2, <2>3
<1>8. n = p * d + (s * f + r) /\ s * f + r \in Nat /\ s * f + r < d
  <2> DEFINE u == p * d
             v == s * f
  <2>1. u \in Nat /\ v \in Nat /\ v + f <= d /\ q * f = u + v
    BY <1>2, <1>5, <1>6, <1>7
  <2> HIDE DEF u, v, d
  <2>2. n = u + (v + r) /\ v + r \in Nat /\ v + r < d
    BY <1>3, <1>5, <2>1
  <2> QED
    BY <2>2 DEF u, v
<1> HIDE DEF d
<1>9. n \div d = p
  <2> DEFINE v == s * f + r
  <2>1. v \in Nat /\ v < d /\ n = p * d + v
    BY <1>8
  <2> HIDE DEF v
  <2> QED
    BY <1>2, <1>5, <2>1, QuotientIs
<1>10. (q * f) \div d = p
  <2> DEFINE v == s * f
             m == q * f
  <2>1. v \in Nat /\ v < d /\ m = p * d + v /\ m \in Nat
    <3>1. v \in Nat /\ v + f <= d
      BY <1>7
    <3>2. v < d
      <4> HIDE DEF v
      <4> QED
        BY <1>5, <3>1
    <3> QED
      BY <1>1, <1>6, <3>1, <3>2
  <2> HIDE DEF v, m
  <2>2. m \div d = p
    BY <1>2, <1>5, <2>1, QuotientIs
  <2> QED
    BY <2>2 DEF m
<1> QED
  BY <1>9, <1>10 DEF p, q, d

\* The bucket of a time is a multiple of the interval that covers it.
LEMMA BucketCovers ==
  ASSUME NEW time \in Int, NEW interval \in Nat \ {0}
  PROVE  /\ \E q \in Int : BucketTime(time, interval) = q * interval
         /\ BucketTime(time, interval) \in Int
         /\ Covers(BucketTime(time, interval), time, interval)
<1>1. CASE time >= 0
  <2> DEFINE q == time \div interval
  <2>1. q \in Nat /\ q * interval <= time /\ time < q * interval + interval
    BY <1>1, QuotientEncloses
  <2>2. BucketTime(time, interval) = q * interval
    BY <1>1 DEF BucketTime, TruncDiv
  <2> HIDE DEF q
  <2>3. q * interval \in Int /\ q \in Int
    BY <2>1
  <2> QED
    BY <1>1, <2>1, <2>2, <2>3 DEF Covers
<1>2. CASE ~(time >= 0)
  <2> DEFINE n == -time
             q == n \div interval
  <2>1. n \in Nat
    BY <1>2
  <2>2. BucketTime(time, interval) = (-q) * interval
    BY <1>2 DEF BucketTime, TruncDiv
  <2> HIDE DEF n
  <2>3. q \in Nat /\ q * interval <= n /\ n < q * interval + interval
    BY <2>1, QuotientEncloses
  <2> HIDE DEF q
  <2>4. (-q) * interval = -(q * interval) /\ q * interval \in Nat /\ -q \in Int
    BY <2>3
  <2> DEFINE w == q * interval
  <2>5. w \in Nat /\ w <= -time /\ -time < w + interval
    BY <2>3, <2>4 DEF n
  <2> HIDE DEF w
  <2>6. (-w) - interval < time /\ time <= -w /\ -w \in Int
    BY <2>5
  <2>7. BucketTime(time, interval) = -w
    BY <2>2, <2>4 DEF w
  <2> QED
    BY <1>2, <2>2, <2>4, <2>6, <2>7 DEF Covers
<1> QED
  BY <1>1, <1>2

\* Only one multiple does.
LEMMA OneCovers ==
  ASSUME NEW time \in Int, NEW interval \in Nat \ {0}, NEW a \in Int, NEW b \in Int,
         Covers(a * interval, time, interval), Covers(b * interval, time, interval)
  PROVE  a = b
<1>1. CASE time >= 0
  BY <1>1, SameMultiple DEF Covers
<1>2. CASE ~(time >= 0)
  <2> DEFINE u == a * interval
             v == b * interval
             c == -a
             d == -b
             n == -time
  <2>1. u \in Int /\ v \in Int /\ u - interval < time /\ time <= u /\ v - interval < time /\ time <= v
    BY <1>2 DEF Covers
  <2>2. c \in Int /\ d \in Int /\ n \in Int /\ c * interval = -u /\ d * interval = -v
    OBVIOUS
  <2>3. c * interval <= n /\ n < c * interval + interval /\ d * interval <= n /\ n < d * interval + interval
    <3> HIDE DEF u, v, c, d
    <3> QED
      BY <2>1, <2>2
  <2> HIDE DEF c, d, n
  <2>4. c = d
    BY <2>2, <2>3, SameMultiple
  <2> QED
    BY <2>4 DEF c, d
<1> QED
  BY <1>1, <1>2

LEMMA BucketUnique ==
  ASSUME NEW time \in Int, NEW other \in Int, NEW interval \in Nat \ {0}
  PROVE  Covers(BucketTime(other, interval), time, interval)
           <=> BucketTime(time, interval) = BucketTime(other, interval)
<1>1. PICK a \in Int : BucketTime(time, interval) = a * interval
  BY BucketCovers
<1>2. PICK b \in Int : BucketTime(other, interval) = b * interval
  BY BucketCovers
<1>3. Covers(BucketTime(time, interval), time, interval)
  BY BucketCovers
<1>4. Covers(BucketTime(other, interval), time, interval) => a = b
  BY <1>1, <1>2, <1>3, OneCovers
<1> QED
  BY <1>1, <1>2, <1>3, <1>4

\* The coarse bucket of a time is that of its fine bucket.
LEMMA BucketOfBucket ==
  ASSUME NEW time \in Int, NEW f \in Nat \ {0}, NEW k \in Nat \ {0}
  PROVE  BucketTime(BucketTime(time, f), f * k) = BucketTime(time, f * k)
<1> DEFINE d == f * k
<1>1. CASE time >= 0
  <2> DEFINE q == time \div f
  <2>1. q \in Nat /\ q * f \in Nat /\ BucketTime(time, f) = q * f
    BY <1>1, QuotientEncloses DEF BucketTime, TruncDiv
  <2>2. (q * f) \div d = time \div d
    BY <1>1, NestedQuotient
  <2> HIDE DEF q, d
  <2>3. BucketTime(q * f, d) = (time \div d) * d /\ BucketTime(time, d) = (time \div d) * d
    BY <1>1, <2>1, <2>2 DEF BucketTime, TruncDiv
  <2> QED
    BY <2>1, <2>3 DEF d
<1>2. CASE ~(time >= 0)
  <2> DEFINE n == -time
             q == n \div f
             w == q * f
  <2>1. n \in Nat /\ BucketTime(time, f) = (-q) * f
    BY <1>2 DEF BucketTime, TruncDiv
  <2> HIDE DEF n
  <2>2. q \in Nat /\ w \in Nat
    BY <2>1, QuotientEncloses
  <2>3. w \div d = n \div d
    BY <2>1, NestedQuotient
  <2>4. (-q) * f = -w
    BY <2>2
  <2> HIDE DEF q, d
  <2>5. BucketTime(time, f) = -w
    BY <2>1, <2>4
  <2> HIDE DEF w
  <2>6. BucketTime(time, d) = (-(n \div d)) * d
    BY <1>2 DEF BucketTime, TruncDiv, n
  <2>7. BucketTime(-w, d) = (-(n \div d)) * d
    <3>1. CASE w = 0
      <4>1. -w = 0 /\ -w >= 0
        <5>1. \A x \in Nat : x <= 0 => -x = 0 /\ -x >= 0
          OBVIOUS
        <5>2. w <= 0
          BY <3>1
        <5> QED
          BY <2>2, <5>1, <5>2
      <4>2. BucketTime(-w, d) = (0 \div d) * d
        BY <4>1 DEF BucketTime, TruncDiv
      <4>3. n \div d = 0 \div d
        BY <2>3, <3>1
      <4>4. 0 \div d = 0
        <5>1. d \in Nat \ {0} /\ 0 = 0 * d + 0
          <6>1. f * k # 0 /\ f * k \in Nat
            OBVIOUS
          <6>2. d \in Nat \ {0}
            BY <6>1 DEF d
          <6> QED
            BY <6>2
        <5>2. 0 < d
          BY <5>1
        <5> QED
          BY <5>1, <5>2, QuotientIs
      <4> QED
        BY <4>2, <4>3, <4>4
    <3>2. CASE w # 0
      <4>1. ~(-w >= 0) /\ -(-w) = w
        BY <2>2, <3>2
      <4> QED
        BY <2>3, <4>1 DEF BucketTime, TruncDiv
    <3> QED
      BY <3>1, <3>2
  <2> QED
    BY <2>5, <2>6, <2>7 DEF d
<1> QED
  BY <1>1, <1>2

\* A mean, truncated towards zero, lies between the bounds of its numbers.
LEMMA MeanBetween ==
  ASSUME NEW s \in Int, NEW n \in Nat \ {0}, NEW low \in Int, NEW high \in Int,
         n * low <= s, s <= n * high
  PROVE  TruncDiv(s, n) \in Int /\ low <= TruncDiv(s, n) /\ TruncDiv(s, n) <= high
<1> DEFINE u == n * low
           v == n * high
<1>1. u \in Int /\ v \in Int /\ u = low * n /\ v = high * n /\ u <= s /\ s <= v
  OBVIOUS
<1> HIDE DEF u, v
<1>2. CASE s >= 0
  <2> DEFINE q == s \div n
             w == q * n
  <2>1. q \in Nat /\ w \in Nat /\ w <= s /\ s < w + n
    BY <1>2, QuotientEncloses
  <2>2. TruncDiv(s, n) = q
    BY <1>2 DEF TruncDiv
  <2> HIDE DEF q
  <2>3. low * n < q * n + n /\ q * n < high * n + n
    <3>1. u < w + n /\ w < v + n
      <4> HIDE DEF w
      <4> QED
        BY <1>1, <2>1
    <3> QED
      BY <1>1, <3>1
  <2>4. low <= q /\ q <= high
    BY <2>1, <2>3, MultipleAtMost
  <2> QED
    BY <2>1, <2>2, <2>4
<1>3. CASE ~(s >= 0)
  <2> DEFINE m == -s
             q == m \div n
             w == q * n
             c == -q
  <2>1. m \in Nat /\ TruncDiv(s, n) = c
    BY <1>3 DEF TruncDiv
  <2> HIDE DEF m
  <2>2. q \in Nat /\ w \in Nat /\ w <= m /\ m < w + n
    BY <2>1, QuotientEncloses
  <2> HIDE DEF q
  <2>3. c \in Int /\ c * n = -w
    BY <2>2
  <2>4. low * n < c * n + n /\ c * n < high * n + n
    <3>1. u < (-w) + n /\ -w < v + n
      <4> HIDE DEF w
      <4> QED
        BY <1>1, <2>2 DEF m
    <3> QED
      BY <1>1, <2>3, <3>1
  <2> HIDE DEF c
  <2>5. low <= c /\ c <= high
    BY <2>3, <2>4, MultipleAtMost
  <2> QED
    BY <2>1, <2>3, <2>5
<1> QED
  BY <1>2, <1>3

\* The buckets of points come in order, each with the mean of its values.
LEMMA DownsampleFacts ==
  ASSUME NEW points \in Seq(Int \X Int), NEW interval \in Nat \ {0}
  PROVE  LET buckets == Buckets(points, interval)
             down == DownsamplePoints(points, interval)
             n == Len(buckets)
             m == Len(points)
         IN  /\ n \in Nat /\ m \in Nat /\ buckets \in [1..n -> Int] /\ DOMAIN down = 1..n
             /\ \A i \in 1..n :
                  down[i] = <<buckets[i], AggregateOf("mean", ValuesIn(points, buckets[i], interval))>>
             /\ \A i, j \in 1..n : i < j => buckets[i] < buckets[j]
             /\ \A i \in 1..n : \E j \in 1..m : buckets[i] = BucketTime(points[j][1], interval)
             /\ \A j \in 1..m : \E i \in 1..n : buckets[i] = BucketTime(points[j][1], interval)
<1> DEFINE m == Len(points)
           f == [i \in 1..m |-> BucketTime(points[i][1], interval)]
           S == {BucketTime(points[i][1], interval) : i \in DOMAIN points}
           buckets == Buckets(points, interval)
           down == DownsamplePoints(points, interval)
           n == Len(buckets)
<1>1. m \in Nat /\ DOMAIN points = 1..m /\ \A i \in 1..m : points[i][1] \in Int
  OBVIOUS
<1>2. \A i \in 1..m : BucketTime(points[i][1], interval) \in Int
  BY <1>1, BucketCovers
<1>3. S \subseteq Int /\ \A x \in S : \E i \in 1..m : x = BucketTime(points[i][1], interval)
  BY <1>1, <1>2
<1>4. \A i \in 1..m : BucketTime(points[i][1], interval) \in S
  BY <1>1
<1>5. IsFiniteSet(S)
  <2>1. f \in Surjection(1..m, S)
    <3>1. f \in [1..m -> S] /\ \A x \in S : \E i \in 1..m : f[i] = x
      BY <1>3, <1>4
    <3> HIDE DEF f, S, m
    <3> QED
      BY <3>1 DEF Surjection
  <2>2. IsFiniteSet(1..m)
    BY <1>1, FS_Interval
  <2> HIDE DEF f, S, m
  <2> QED
    BY <2>1, <2>2, FS_Surjection
<1>6. buckets = Increasing(S)
  BY DEF Buckets
<1> HIDE DEF S, buckets
<1>7. /\ n \in Nat /\ buckets \in Seq(S) /\ DOMAIN buckets = 1..n
      /\ \A k, l \in 1..n : k < l => buckets[k] < buckets[l]
      /\ \A x \in S : \E k \in 1..n : buckets[k] = x
  BY <1>3, <1>5, <1>6, IncreasingFacts
<1>8. buckets \in [1..n -> Int] /\ \A i \in 1..n : buckets[i] \in S
  <2>1. buckets \in [1..n -> S]
    BY <1>7
  <2> QED
    BY <1>3, <2>1
<1>9. down = [i \in 1..n |-> <<buckets[i], AggregateOf("mean", ValuesIn(points, buckets[i], interval))>>]
  BY <1>7 DEF DownsamplePoints, buckets
<1> HIDE DEF down, n, m
<1>10. \A i \in 1..n : \E j \in 1..m : buckets[i] = BucketTime(points[j][1], interval)
  BY <1>3, <1>8
<1>11. \A j \in 1..m : \E i \in 1..n : buckets[i] = BucketTime(points[j][1], interval)
  BY <1>4, <1>7
<1> QED
  BY <1>1, <1>7, <1>8, <1>9, <1>10, <1>11 DEF n, m, buckets, down

\* The mean of the values of a bucket that has any.
LEMMA MeanFacts ==
  ASSUME NEW points \in Seq(Int \X Int), NEW interval \in Nat \ {0}, NEW j \in 1..Len(points),
         NEW bucket, bucket = BucketTime(points[j][1], interval),
         NEW values, values = ValuesIn(points, bucket, interval)
  PROVE  LET mean == AggregateOf("mean", values)
         IN  /\ mean \in Int
             /\ mean = TruncDiv(AggregateOf("sum", values), AggregateOf("count", values))
             /\ AggregateOf("min", values) <= mean /\ mean <= AggregateOf("max", values)
<1> DEFINE m == Len(points)
           column == [i \in DOMAIN points |-> points[i][2]]
           keep == {i \in DOMAIN points : BucketTime(points[i][1], interval) = bucket}
           n == Len(values)
<1>1. m \in Nat /\ DOMAIN points = 1..m /\ \A i \in 1..m : points[i][2] \in Int
  OBVIOUS
<1>2. column \in Seq(Int) /\ Len(column) = m
  <2>1. column \in [1..m -> Int]
    BY <1>1
  <2> HIDE DEF column, m
  <2> QED
    BY <1>1, <2>1
<1>3. j \in keep \cap (1..m) /\ IsFiniteSet(keep \cap (1..m))
  <2>1. IsFiniteSet(1..m)
    <3>1. m \in Int /\ 1 \in Int
      BY <1>1
    <3> HIDE DEF m
    <3> QED
      BY <3>1, FS_Interval
  <2>2. keep \cap (1..m) \subseteq 1..m
    OBVIOUS
  <2>3. IsFiniteSet(keep \cap (1..m))
    <3> HIDE DEF keep, m
    <3> QED
      BY <2>1, <2>2, FS_Subset
  <2> QED
    BY <1>1, <2>3
<1>4. values = Kept(column, keep)
  BY DEF ValuesIn
<1> HIDE DEF column, keep
<1>5. values \in Seq(Int) /\ n = Cardinality(keep \cap (1..m))
  <2> DEFINE T == Int
  <2>1. column \in Seq(T)
    BY <1>2
  <2> HIDE DEF T
  <2>2. Kept(column, keep) \in Seq(T) /\ Len(Kept(column, keep)) = Cardinality(keep \cap (1..Len(column)))
    BY <2>1, KeptPicks, KeptLen
  <2> QED
    BY <1>2, <1>4, <2>2 DEF T
<1>6. n # 0
  <2> DEFINE P == keep \cap (1..m)
  <2>1. IsFiniteSet(P) /\ j \in P
    BY <1>3
  <2> HIDE DEF P
  <2>2. Cardinality(P) # 0
    BY <2>1, FS_EmptySet
  <2> QED
    BY <1>5, <2>2 DEF P
<1>7. n \in Nat \ {0} /\ values # <<>> /\ DOMAIN values = 1..n /\ \A i \in 1..n : values[i] \in Int
  <2>1. values \in Seq(Int)
    BY <1>5
  <2>2. n \in Nat /\ DOMAIN values = 1..n /\ \A i \in 1..n : values[i] \in Int
    BY <2>1
  <2>3. values # <<>>
    <3>1. Len(<<>>) = 0
      OBVIOUS
    <3> QED
      BY <1>6, <3>1
  <2> HIDE DEF n
  <2> QED
    BY <1>6, <2>2, <2>3
<1> HIDE DEF n
<1>8. PICK k \in 1..n : \A i \in 1..n : values[k] <= values[i]
  BY <1>7, ExtremesExist
<1>9. PICK l \in 1..n : \A i \in 1..n : values[i] <= values[l]
  BY <1>7, ExtremesExist
<1>10. /\ SumOf(values) \in Int
       /\ n * values[k] <= SumOf(values) /\ SumOf(values) <= n * values[l]
  <2> DEFINE low == values[k]
             high == values[l]
  <2>1. low \in Int /\ high \in Int /\ \A i \in 1..Len(values) : low <= values[i] /\ values[i] <= high
    BY <1>7, <1>8, <1>9 DEF n
  <2> HIDE DEF low, high
  <2>2. /\ SumOf(values) \in Int
        /\ Len(values) * low <= SumOf(values) /\ SumOf(values) <= Len(values) * high
    BY <1>5, <2>1, SumBetween
  <2> QED
    BY <2>2 DEF low, high, n
<1> DEFINE mean == TruncDiv(SumOf(values), n)
<1>11. mean \in Int /\ values[k] <= mean /\ mean <= values[l]
  <2>1. values[k] \in Int /\ values[l] \in Int
    BY <1>7
  <2> QED
    BY <1>7, <1>10, <2>1, MeanBetween
<1> HIDE DEF mean
<1>12. ToSet(values) \subseteq Int /\ values[k] \in ToSet(values) /\ values[l] \in ToSet(values)
       /\ \A y \in ToSet(values) : values[k] <= y /\ y <= values[l]
  BY <1>7, <1>8, <1>9 DEF ToSet
<1>13. Least(ToSet(values)) <= values[k] /\ values[l] <= Greatest(ToSet(values))
       /\ Least(ToSet(values)) \in Int /\ Greatest(ToSet(values)) \in Int
  <2> DEFINE S == ToSet(values)
  <2> HIDE DEF S
  <2>1. S \subseteq Int /\ values[k] \in S /\ values[l] \in S /\ \A y \in S : values[k] <= y /\ y <= values[l]
    BY <1>12 DEF S
  <2>2. Least(S) \in S /\ \A y \in S : Least(S) <= y
    BY <2>1, LeastIs
  <2>3. Greatest(S) \in S /\ \A y \in S : y <= Greatest(S)
    BY <2>1, GreatestIs
  <2> QED
    BY <2>1, <2>2, <2>3 DEF S
<1>14. Least(ToSet(values)) <= mean /\ mean <= Greatest(ToSet(values))
  <2> DEFINE a == Least(ToSet(values))
             b == values[k]
             c == values[l]
             d == Greatest(ToSet(values))
  <2>1. a \in Int /\ b \in Int /\ c \in Int /\ d \in Int /\ a <= b /\ b <= mean /\ mean <= c /\ c <= d
    BY <1>7, <1>11, <1>13
  <2> HIDE DEF a, b, c, d
  <2>2. a <= mean /\ mean <= d
    BY <1>11, <2>1
  <2> QED
    BY <2>2 DEF a, d
<1>15. /\ AggregateOf("mean", values) = mean
       /\ AggregateOf("sum", values) = SumOf(values) /\ AggregateOf("count", values) = n
       /\ AggregateOf("min", values) = Least(ToSet(values))
       /\ AggregateOf("max", values) = Greatest(ToSet(values))
  BY <1>7 DEF AggregateOf, n, mean
<1> QED
  BY <1>11, <1>14, <1>15 DEF mean

\* Means that replace points give the same coarse buckets as the points.
LEMMA SameBuckets ==
  ASSUME NEW points \in Seq(Int \X Int), NEW f \in Nat \ {0}, NEW k \in Nat \ {0}
  PROVE  /\ DownsamplePoints(points, f) \in Seq(Int \X Int)
         /\ Buckets(DownsamplePoints(points, f), f * k) = Buckets(points, f * k)
<1> DEFINE down == DownsamplePoints(points, f)
           buckets == Buckets(points, f)
           n == Len(buckets)
           m == Len(points)
           d == f * k
<1>1. /\ n \in Nat /\ m \in Nat /\ buckets \in [1..n -> Int] /\ DOMAIN down = 1..n
      /\ \A i \in 1..n :
           down[i] = <<buckets[i], AggregateOf("mean", ValuesIn(points, buckets[i], f))>>
      /\ \A i \in 1..n : \E j \in 1..m : buckets[i] = BucketTime(points[j][1], f)
      /\ \A j \in 1..m : \E i \in 1..n : buckets[i] = BucketTime(points[j][1], f)
  BY DownsampleFacts
<1>2. DOMAIN points = 1..m /\ \A j \in 1..m : points[j][1] \in Int
  OBVIOUS
<1>3. \A i \in 1..n : AggregateOf("mean", ValuesIn(points, buckets[i], f)) \in Int
  <2> TAKE i \in 1..n
  <2>1. PICK j \in 1..m : buckets[i] = BucketTime(points[j][1], f)
    BY <1>1
  <2> QED
    BY <2>1, MeanFacts
<1>4. down = [i \in 1..n |-> down[i]]
  BY <1>1 DEF DownsamplePoints
<1> HIDE DEF n, m, buckets, down, d
<1>5. down \in Seq(Int \X Int)
  <2> DEFINE T == Int \X Int
  <2>1. \A i \in 1..n : down[i] \in T
    <3> TAKE i \in 1..n
    <3> DEFINE a == buckets[i]
               b == AggregateOf("mean", ValuesIn(points, buckets[i], f))
    <3>1. a \in Int /\ b \in Int /\ down[i] = <<a, b>>
      BY <1>1, <1>3
    <3> HIDE DEF a, b
    <3> QED
      BY <3>1
  <2> HIDE DEF T
  <2>2. down \in [1..n -> T]
    BY <1>4, <2>1
  <2>3. down \in Seq(T)
    BY <1>1, <2>2
  <2> QED
    BY <2>3 DEF T
<1>6. \A i \in 1..n : \E j \in 1..m : BucketTime(down[i][1], d) = BucketTime(points[j][1], d)
  <2> TAKE i \in 1..n
  <2>1. PICK j \in 1..m : buckets[i] = BucketTime(points[j][1], f)
    BY <1>1
  <2>2. BucketTime(BucketTime(points[j][1], f), d) = BucketTime(points[j][1], d)
    BY <1>2, BucketOfBucket DEF d
  <2> QED
    BY <1>1, <2>1, <2>2
<1>7. \A j \in 1..m : \E i \in 1..n : BucketTime(down[i][1], d) = BucketTime(points[j][1], d)
  <2> TAKE j \in 1..m
  <2>1. PICK i \in 1..n : buckets[i] = BucketTime(points[j][1], f)
    BY <1>1
  <2>2. BucketTime(BucketTime(points[j][1], f), d) = BucketTime(points[j][1], d)
    BY <1>2, BucketOfBucket DEF d
  <2> QED
    BY <1>1, <2>1, <2>2
<1>8. {BucketTime(down[i][1], d) : i \in DOMAIN down} = {BucketTime(points[j][1], d) : j \in DOMAIN points}
  <2>1. ASSUME NEW i \in DOMAIN down
        PROVE  BucketTime(down[i][1], d) \in {BucketTime(points[j][1], d) : j \in DOMAIN points}
    <3>1. PICK j \in 1..m : BucketTime(down[i][1], d) = BucketTime(points[j][1], d)
      BY <1>1, <1>6
    <3> QED
      BY <1>2, <3>1
  <2>2. ASSUME NEW j \in DOMAIN points
        PROVE  BucketTime(points[j][1], d) \in {BucketTime(down[i][1], d) : i \in DOMAIN down}
    <3>1. PICK i \in 1..n : BucketTime(down[i][1], d) = BucketTime(points[j][1], d)
      BY <1>2, <1>7
    <3> QED
      BY <1>1, <3>1
  <2> QED
    BY <2>1, <2>2
<1>9. Buckets(down, d) = Buckets(points, d)
  BY <1>8 DEF Buckets
<1> QED
  BY <1>5, <1>9 DEF down, d

\* The points that a bucket covers are the points in it.
LEMMA CoveredAreInside ==
  ASSUME NEW points \in Seq(Int \X Int), NEW interval \in Nat \ {0}, NEW j \in 1..Len(points),
         NEW bucket, bucket = BucketTime(points[j][1], interval)
  PROVE  {i \in DOMAIN points : Covers(bucket, points[i][1], interval)}
           = {i \in DOMAIN points : BucketTime(points[i][1], interval) = bucket}
<1>1. \A i \in DOMAIN points : points[i][1] \in Int
  OBVIOUS
<1>2. points[j][1] \in Int
  OBVIOUS
<1>3. \A i \in DOMAIN points :
        Covers(bucket, points[i][1], interval) <=> BucketTime(points[i][1], interval) = bucket
  BY <1>1, <1>2, BucketUnique
<1> QED
  BY <1>3

DownsampledFrom(points) ==
  /\ points \in Seq(Int \X Int)
  /\ means.points = points
  /\ means.fine = DownsamplePoints(points, Fine)
  /\ means.coarse = DownsamplePoints(points, Coarse)
  /\ means.twice = DownsamplePoints(means.fine, Coarse)

MeansInv ==
  \/ means = [points |-> <<>>, fine |-> <<>>, coarse |-> <<>>, twice |-> <<>>]
  \/ \E points \in PointLists : DownsampledFrom(points)

\* What the buckets are told to be is what the points make of them.
LEMMA MeansAreFaithful ==
  ASSUME NEW points, DownsampledFrom(points)
  PROVE  DownsampleFaithful
<1> DEFINE fine == means.fine
           buckets == Buckets(points, Fine)
           n == Len(buckets)
           m == Len(points)
           column == [j \in DOMAIN points |-> points[j][2]]
           inside(i) == {j \in DOMAIN points : Covers(fine[i][1], points[j][1], Fine)}
           values(i) == Kept([j \in DOMAIN points |-> points[j][2]], inside(i))
<1>1. /\ points \in Seq(Int \X Int) /\ means.points = points
      /\ fine = DownsamplePoints(points, Fine)
      /\ means.coarse = DownsamplePoints(points, Coarse)
      /\ means.twice = DownsamplePoints(fine, Coarse)
  BY DEF DownsampledFrom
<1>2. Fine \in Nat \ {0} /\ \E k \in Nat \ {0} : Coarse = Fine * k
  <2>1. Fine \in Nat \ {0} /\ Coarse \in {Fine * k : k \in 1..Coarse}
    BY AgeingAssumption DEF AgeingAssumption
  <2>2. PICK k \in 1..Coarse : Coarse = Fine * k
    BY <2>1
  <2>3. k \in Nat \ {0}
    OBVIOUS
  <2> QED
    BY <2>1, <2>2, <2>3
<1>3. PICK k \in Nat \ {0} : Coarse = Fine * k
  BY <1>2
<1>4. /\ n \in Nat /\ m \in Nat /\ buckets \in [1..n -> Int] /\ DOMAIN fine = 1..n
      /\ \A i \in 1..n :
           fine[i] = <<buckets[i], AggregateOf("mean", ValuesIn(points, buckets[i], Fine))>>
      /\ \A i, j \in 1..n : i < j => buckets[i] < buckets[j]
      /\ \A i \in 1..n : \E j \in 1..m : buckets[i] = BucketTime(points[j][1], Fine)
      /\ \A j \in 1..m : \E i \in 1..n : buckets[i] = BucketTime(points[j][1], Fine)
  <2> DEFINE down == DownsamplePoints(points, Fine)
  <2>1. /\ n \in Nat /\ m \in Nat /\ buckets \in [1..n -> Int] /\ DOMAIN down = 1..n
        /\ \A i \in 1..n :
             down[i] = <<buckets[i], AggregateOf("mean", ValuesIn(points, buckets[i], Fine))>>
        /\ \A i, j \in 1..n : i < j => buckets[i] < buckets[j]
        /\ \A i \in 1..n : \E j \in 1..m : buckets[i] = BucketTime(points[j][1], Fine)
        /\ \A j \in 1..m : \E i \in 1..n : buckets[i] = BucketTime(points[j][1], Fine)
    BY <1>1, <1>2, DownsampleFacts
  <2>2. fine = down
    BY <1>1
  <2> HIDE DEF down, fine, buckets, n, m
  <2> QED
    BY <2>1, <2>2
<1>5. DOMAIN points = 1..m
  BY <1>1
<1> HIDE DEF fine, buckets, n, m
<1>6. \A i \in 1..n : inside(i) = {j \in DOMAIN points : BucketTime(points[j][1], Fine) = buckets[i]}
  <2> TAKE i \in 1..n
  <2>1. PICK j \in 1..m : buckets[i] = BucketTime(points[j][1], Fine)
    BY <1>4
  <2>2. fine[i][1] = buckets[i]
    BY <1>4
  <2> QED
    BY <1>1, <1>2, <2>1, <2>2, CoveredAreInside DEF m
<1>7. \A i, j \in DOMAIN fine : i < j => fine[i][1] < fine[j][1]
  BY <1>4
<1>8. \A j \in DOMAIN points : \E i \in DOMAIN fine : \A l \in DOMAIN fine : j \in inside(l) <=> l = i
  <2> TAKE j \in DOMAIN points
  <2>1. PICK i \in 1..n : buckets[i] = BucketTime(points[j][1], Fine)
    BY <1>4, <1>5
  <2>2. ASSUME NEW l \in 1..n PROVE j \in inside(l) <=> l = i
    <3>1. j \in inside(l) <=> buckets[l] = buckets[i]
      BY <1>6, <2>1
    <3>2. buckets[l] = buckets[i] => l = i
      <4>1. buckets[l] \in Int /\ buckets[i] \in Int
        BY <1>4
      <4>2. (l < i => buckets[l] < buckets[i]) /\ (i < l => buckets[i] < buckets[l])
        BY <1>4
      <4>3. l < i \/ l = i \/ i < l
        BY <1>4
      <4>4. \A x \in Int : ~(x < x)
        OBVIOUS
      <4> QED
        BY <4>1, <4>2, <4>3, <4>4
    <3> QED
      BY <3>1, <3>2
  <2> HIDE DEF inside
  <2>3. DOMAIN fine = 1..n
    BY <1>4
  <2>4. i \in DOMAIN fine /\ \A l \in DOMAIN fine : j \in inside(l) <=> l = i
    BY <2>2, <2>3
  <2> QED
    BY <2>4
<1>9. ASSUME NEW i \in DOMAIN fine
      PROVE  /\ AggregateOf("min", values(i)) <= fine[i][2]
             /\ fine[i][2] <= AggregateOf("max", values(i))
             /\ fine[i][2] = TruncDiv(AggregateOf("sum", values(i)), AggregateOf("count", values(i)))
  <2>1. i \in 1..n
    BY <1>4
  <2>2. values(i) = ValuesIn(points, buckets[i], Fine)
    BY <1>6, <2>1 DEF ValuesIn
  <2>3. PICK j \in 1..m : buckets[i] = BucketTime(points[j][1], Fine)
    BY <1>4, <2>1
  <2> DEFINE v == values(i)
  <2>4. fine[i][2] = AggregateOf("mean", v)
    BY <1>4, <2>1, <2>2
  <2> HIDE DEF v
  <2>5. /\ AggregateOf("mean", v) = TruncDiv(AggregateOf("sum", v), AggregateOf("count", v))
        /\ AggregateOf("min", v) <= AggregateOf("mean", v)
        /\ AggregateOf("mean", v) <= AggregateOf("max", v)
    BY <1>1, <1>2, <2>2, <2>3, MeanFacts DEF m, v
  <2> QED
    BY <2>4, <2>5 DEF v
<1>10. [i \in DOMAIN means.twice |-> means.twice[i][1]] = [i \in DOMAIN means.coarse |-> means.coarse[i][1]]
  <2> DEFINE c == Buckets(points, Coarse)
  <2>1. Coarse \in Nat \ {0}
    <3>1. Fine * k # 0 /\ Fine * k \in Nat
      BY <1>2
    <3> QED
      BY <1>3, <3>1
  <2>2. fine \in Seq(Int \X Int) /\ Buckets(fine, Coarse) = c
    BY <1>1, <1>2, <1>3, SameBuckets
  <2>3. DOMAIN means.coarse = 1..Len(c) /\ \A i \in 1..Len(c) : means.coarse[i][1] = c[i]
    <3>1. /\ DOMAIN DownsamplePoints(points, Coarse) = 1..Len(Buckets(points, Coarse))
          /\ \A i \in 1..Len(Buckets(points, Coarse)) :
               DownsamplePoints(points, Coarse)[i] =
                 <<Buckets(points, Coarse)[i],
                   AggregateOf("mean", ValuesIn(points, Buckets(points, Coarse)[i], Coarse))>>
      BY <1>1, <2>1, DownsampleFacts
    <3> QED
      BY <1>1, <3>1
  <2>4. DOMAIN means.twice = 1..Len(c) /\ \A i \in 1..Len(c) : means.twice[i][1] = c[i]
    <3>1. /\ DOMAIN DownsamplePoints(fine, Coarse) = 1..Len(Buckets(fine, Coarse))
          /\ \A i \in 1..Len(Buckets(fine, Coarse)) :
               DownsamplePoints(fine, Coarse)[i] =
                 <<Buckets(fine, Coarse)[i],
                   AggregateOf("mean", ValuesIn(fine, Buckets(fine, Coarse)[i], Coarse))>>
      BY <2>1, <2>2, DownsampleFacts
    <3> HIDE DEF c
    <3> QED
      BY <1>1, <2>2, <3>1
  <2> HIDE DEF c
  <2> QED
    BY <2>3, <2>4
<1> HIDE DEF inside
<1> HIDE DEF values
<1>11. means.fine = fine
  BY DEF fine
<1> QED
  BY <1>1, <1>7, <1>8, <1>9, <1>10 DEF DownsampleFaithful, inside, values, fine

\* Whatever the points and the intervals, every point counts in one bucket, each
\* mean lies between the extremes of the values in its bucket, and means of means
\* have the buckets of the points.
THEOREM DownsamplingIsFaithful == AgeingSpec => []DownsampleFaithful
<1>1. AgeingInit => MeansInv
  BY DEF AgeingInit, MeansInv
<1>2. MeansInv /\ [AgeingNext]_ageingVars => MeansInv'
  <2> SUFFICES ASSUME MeansInv, [AgeingNext]_ageingVars PROVE MeansInv'
    OBVIOUS
  <2>1. ASSUME UNCHANGED means PROVE MeansInv'
    BY <2>1 DEF MeansInv, DownsampledFrom
  <2>2. ASSUME NEW points \in PointLists, Downsample(points) PROVE MeansInv'
    <3>1. points \in Seq(Int \X Int)
      BY AgeingAssumption DEF AgeingAssumption
    <3> DEFINE fine == DownsamplePoints(points, Fine)
    <3>2. means' = [points |-> points, fine |-> fine, coarse |-> DownsamplePoints(points, Coarse),
                    twice |-> DownsamplePoints(fine, Coarse)]
      BY <2>2 DEF Downsample
    <3> HIDE DEF fine
    <3>3. /\ means'.points = points /\ means'.fine = fine
          /\ means'.coarse = DownsamplePoints(points, Coarse)
          /\ means'.twice = DownsamplePoints(fine, Coarse)
      BY <3>2
    <3>4. (DownsampledFrom(points))'
      BY <3>1, <3>3 DEF DownsampledFrom, fine
    <3> QED
      BY <3>4 DEF MeansInv
  <2>3. CASE Tick \/ Migrate \/ (\E time \in PieceTimes : PlaceInTier(time)) \/ UNCHANGED ageingVars
    BY <2>1, <2>3 DEF Tick, Migrate, PlaceInTier, ageingVars
  <2> QED
    BY <2>2, <2>3 DEF AgeingNext
<1>3. MeansInv => DownsampleFaithful
  <2> SUFFICES ASSUME MeansInv PROVE DownsampleFaithful
    OBVIOUS
  <2>1. CASE means = [points |-> <<>>, fine |-> <<>>, coarse |-> <<>>, twice |-> <<>>]
    <3>1. means.points = <<>> /\ means.fine = <<>> /\ means.coarse = <<>> /\ means.twice = <<>>
      BY <2>1
    <3>2. DOMAIN <<>> = {}
      OBVIOUS
    <3> QED
      BY <3>1, <3>2 DEF DownsampleFaithful
  <2> QED
    BY <2>1, MeansAreFaithful DEF MeansInv
<1> QED
  BY <1>1, <1>2, <1>3, PTL DEF AgeingSpec

=============================================================================
