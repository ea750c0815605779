------------------------------- MODULE Ageing --------------------------------
(***************************************************************************)
(* What becomes of data as it grows old: the tier it belongs to, its       *)
(* expiry, and the means that replace it, all functions of timestamps and  *)
(* the clock.  The engine holds a tier manager and asks it nothing; the    *)
(* caller modelled here does what it says.  Pieces of data do not interact:*)
(* one stands for all.                                                     *)
(***************************************************************************)
EXTENDS Lists, SequencesExt, Tables

CONSTANTS
  HotSeconds, WarmSeconds,   \* the durations of a TierConfig
  U64,                       \* 2^64: what a negative age gains when it is cast
  PieceTimes,                \* timestamps of pieces of data, in seconds
  Ttls,                      \* times to live of tables, in seconds, 0 for none
  Nanos,                     \* 10^9 in the code
  RowLists,                  \* sequences of timestamps of rows, in nanoseconds
  Fine, Coarse,              \* the intervals of two rules, one a multiple of the other
  PointLists,                \* sequences of <<timestamp, value>>
  FirstNow, MaxNow           \* the clock at the start, and its bound

ASSUME AgeingAssumption ==
  /\ {HotSeconds, WarmSeconds, U64} \cup Ttls \cup PieceTimes \subseteq Nat
  /\ Nanos \in Nat \ {0, 1} /\ Fine \in Nat \ {0} /\ Coarse \in {Fine * k : k \in 1..Coarse}
  /\ FirstNow \in 2..MaxNow /\ RowLists \subseteq Seq(Int)
  /\ PointLists \subseteq Seq(Int \X Int)
  /\ \A t \in PieceTimes : U64 > HotSeconds + WarmSeconds + t

VARIABLES
  now,      \* the clock, in seconds
  piece,    \* the data: its time, its tier, whether it came ahead of the clock
  means     \* points that were downsampled: by the fine rule, the coarse, and both

ageingVars == <<now, piece, means>>

-----------------------------------------------------------------------------
(* Tiers. *)

\* A timestamp ahead of the clock gives a negative age, cast to u64.
Age(timestamp) == IF timestamp <= now THEN now - timestamp ELSE now - timestamp + U64

DetermineTier(timestamp) ==
  CASE Age(timestamp) < HotSeconds -> 0
    [] Age(timestamp) \in HotSeconds..(HotSeconds + WarmSeconds - 1) -> 1
    [] Age(timestamp) >= HotSeconds + WarmSeconds -> 2

IsTierExpired(timestamp, tier) ==
  tier = 2 \/ (tier = 1 /\ Age(timestamp) >= HotSeconds + WarmSeconds)

\* Mutant: the age of warm data is counted from the moment it became warm.
ShouldMigrateFromWarm(timestamp, tier) ==
  \/ tier = 0 /\ Age(timestamp) >= HotSeconds
  \/ tier = 1 /\ Age(timestamp) >= WarmSeconds

ShouldMigrate(timestamp, tier) ==
  \/ tier = 0 /\ Age(timestamp) >= HotSeconds
  \/ tier = 1 /\ Age(timestamp) >= HotSeconds + WarmSeconds

-----------------------------------------------------------------------------
(* Expiry. *)

IsExpired(timestamp, ttl) == ttl # 0 /\ now - TruncDiv(timestamp, Nanos) > ttl

\* Mutant: the clock is scaled to nanoseconds and the time to live is not.
ExpiredThresholdScaled(ttl) == IF ttl = 0 THEN 0 ELSE now * Nanos - ttl

\* The clock stays in seconds while the time to live becomes nanoseconds.
ExpiredThreshold(ttl) == IF ttl = 0 THEN 0 ELSE now - ttl * Nanos

\* Every row is judged by the first timestamp.
FilterExpiredRows(rows, ttl) ==
  LET first == IF rows = <<>> THEN 0 ELSE Head(rows)
  IN  IF ttl = 0 \/ first > ExpiredThreshold(ttl) THEN rows ELSE <<>>

-----------------------------------------------------------------------------
(* Downsampling. *)

\* Mutant: a time goes to the nearest bucket.
BucketTimeNearest(timestamp, interval) ==
  TruncDiv(timestamp + interval \div 2, interval) * interval

BucketTime(timestamp, interval) == TruncDiv(timestamp, interval) * interval

\* The aggregators of a rule; of no values each is 0.
AggregateOf(kind, values) ==
  IF values = <<>> THEN 0
  ELSE CASE kind = "sum" -> SumOf(values)
         [] kind = "min" -> Least(ToSet(values))
         [] kind = "max" -> Greatest(ToSet(values))
         [] kind = "mean" -> TruncDiv(SumOf(values), Len(values))
         [] kind = "first" -> Head(values)
         [] kind = "last" -> values[Len(values)]
         [] kind = "count" -> Len(values)

\* The values of the points of one bucket, in their order.
ValuesIn(points, bucket, interval) ==
  Kept([i \in DOMAIN points |-> points[i][2]],
       {i \in DOMAIN points : BucketTime(points[i][1], interval) = bucket})

\* The buckets that have points, in the order of time.
Buckets(points, interval) ==
  Increasing({BucketTime(points[i][1], interval) : i \in DOMAIN points})

DownsamplePoints(points, interval) ==
  LET buckets == Buckets(points, interval)
  IN  [i \in DOMAIN buckets |->
         <<buckets[i], AggregateOf("mean", ValuesIn(points, buckets[i], interval))>>]

-----------------------------------------------------------------------------
NoPiece == [tier |-> -1]

AgeingInit ==
  /\ now = FirstNow
  /\ piece = NoPiece
  /\ means = [points |-> <<>>, fine |-> <<>>, coarse |-> <<>>, twice |-> <<>>]

Tick ==
  /\ now < MaxNow
  /\ now' = now + 1
  /\ UNCHANGED <<piece, means>>

PlaceInTier(time) ==
  /\ piece = NoPiece
  /\ piece' = [time |-> time, tier |-> DetermineTier(time), ahead |-> time > now]
  /\ UNCHANGED <<now, means>>

Migrate ==
  /\ piece # NoPiece /\ ShouldMigrate(piece.time, piece.tier)
  /\ piece' = [piece EXCEPT !.tier = @ + 1]
  /\ UNCHANGED <<now, means>>

\* Points are downsampled for the two rules, and the fine means once more.
Downsample(points) ==
  /\ means.points = <<>>
  /\ LET fine == DownsamplePoints(points, Fine)
     IN  means' = [points |-> points, fine |-> fine, coarse |-> DownsamplePoints(points, Coarse),
                   twice |-> DownsamplePoints(fine, Coarse)]
  /\ UNCHANGED <<now, piece>>

AgeingNext ==
  \/ Tick \/ Migrate
  \/ \E time \in PieceTimes : PlaceInTier(time)
  \/ \E points \in PointLists : Downsample(points)

AgeingSpec == AgeingInit /\ [][AgeingNext]_ageingVars

-----------------------------------------------------------------------------
(* Properties. *)

\* The three answers about tiers agree as the clock goes on: data that is moved
\* when should_migrate_to_next_tier says so is never in a colder tier than
\* determine_tier gives, and in another one only while a migration is due; for
\* warm data is_tier_expired says the same.  Data that was placed ahead of the
\* clock is the exception: it counts as cold, and stays there.
TiersFollowAge ==
  piece # NoPiece =>
    IF piece.ahead THEN piece.tier = 2
    ELSE /\ piece.tier <= DetermineTier(piece.time)
         /\ ShouldMigrate(piece.time, piece.tier) <=> (piece.tier < DetermineTier(piece.time))
         /\ piece.tier = 1 =>
              (IsTierExpired(piece.time, 1) <=> ShouldMigrate(piece.time, 1))

\* filter_expired_rows, which mixes seconds with nanoseconds and looks at one
\* timestamp only, errs on one side: it drops rows only if that one has expired.
FilterDropsOnlyExpired ==
  \A rows \in RowLists, ttl \in Ttls :
    FilterExpiredRows(rows, ttl) # rows => IsExpired(Head(rows), ttl)

Covers(bucket, time, interval) ==
  IF time >= 0 THEN bucket <= time /\ time < bucket + interval
  ELSE bucket - interval < time /\ time <= bucket

\* Every point counts in one bucket, which starts less than an interval nearer
\* to the epoch (the one at 0 reaches both ways); buckets come in order, each
\* with a mean between the extremes of its values; and the buckets of means of
\* means are those of the points themselves.
DownsampleFaithful ==
  LET points == means.points
      fine == means.fine
      inside(i) == {j \in DOMAIN points : Covers(fine[i][1], points[j][1], Fine)}
      values(i) == Kept([j \in DOMAIN points |-> points[j][2]], inside(i))
  IN  /\ \A i, j \in DOMAIN fine : i < j => fine[i][1] < fine[j][1]
      /\ \A j \in DOMAIN points : \E i \in DOMAIN fine : \A k \in DOMAIN fine : j \in inside(k) <=> k = i
      /\ \A i \in DOMAIN fine :
           /\ AggregateOf("min", values(i)) <= fine[i][2]
           /\ fine[i][2] <= AggregateOf("max", values(i))
           /\ fine[i][2] = TruncDiv(AggregateOf("sum", values(i)), AggregateOf("count", values(i)))
      /\ [i \in DOMAIN means.twice |-> means.twice[i][1]]
           = [i \in DOMAIN means.coarse |-> means.coarse[i][1]]
=============================================================================
