----------------------------- MODULE QueryProofs ------------------------------
(***************************************************************************)
(* Proofs about queries and the cache of their results.  QueryCache: what  *)
(* a get returns is the last insertion, the statistics count the entries   *)
(* and the bytes they hold, and a result goes only when those used since   *)
(* are more than fit.  Query: the filter that a condition becomes passes   *)
(* rows that meet it, and the aggregates are those of the rows as far as   *)
(* they fit 64 bits; what was asked never changes, so the claims are about *)
(* what the operators compute.                                             *)
(***************************************************************************)
EXTENDS QueryCache, Query, ListProofs

\* Every entry is the last insertion of its key, at the time it carries: an
\* access moves only used, and what is forgotten is removed.
HitsInv ==
    /\ DOMAIN entries \subseteq Key
    /\ entries = [k \in DOMAIN entries |-> entries[k]]
    /\ \A k \in DOMAIN entries :
         /\ entries[k] \in CacheEntry
         /\ last[k] = [value |-> entries[k].value, at |-> entries[k].born]
    /\ last \in [Key -> {None} \cup Insertion]
    /\ now \in Nat

LEMMA HitsInvInit == Init => HitsInv
BY DEF Init, HitsInv

\* Entries that go take nothing from those that stay, whether or not the
\* insertions of the former are forgotten (get, invalidate).
LEMMA RemovalKeepsHits ==
    ASSUME HitsInv, NEW keys, RemoveAll(keys), UNCHANGED now,
           Forget(keys) \/ UNCHANGED last
    PROVE  HitsInv'
<1>1. DOMAIN entries' = DOMAIN entries \ keys
  BY DEF RemoveAll
<1>2. \A k \in DOMAIN entries' : entries'[k] = entries[k] /\ k \in Key
  BY <1>1 DEF RemoveAll, HitsInv
<1>3. \A k \in DOMAIN entries' : last'[k] = last[k]
  BY <1>1, <1>2 DEF Forget
<1>4. last' \in [Key -> {None} \cup Insertion]
  BY DEF Forget, HitsInv
<1>5. entries' = [k \in DOMAIN entries' |-> entries'[k]]
  BY <1>1, <1>2 DEF RemoveAll
<1> QED
  BY <1>1, <1>2, <1>3, <1>4, <1>5 DEF HitsInv

LEMMA HitsInvStep == HitsInv /\ [Next]_vars => HitsInv'
<1> SUFFICES ASSUME HitsInv, [Next]_vars PROVE HitsInv'
  OBVIOUS
<1> USE DEF HitsInv
<1>1. ASSUME NEW k \in Key, GetHit(k) PROVE HitsInv'
  <2>1. entries' = [entries EXCEPT ![k].used = now] /\ k \in DOMAIN entries
    BY <1>1 DEF GetHit, Touch
  <2>2. DOMAIN entries' = DOMAIN entries
    BY <2>1
  <2>3. ASSUME NEW j \in DOMAIN entries
        PROVE  /\ entries'[j] \in CacheEntry
               /\ entries'[j].value = entries[j].value
               /\ entries'[j].born = entries[j].born
    BY <2>1, <2>3 DEF CacheEntry
  <2>4. entries' = [j \in DOMAIN entries' |-> entries'[j]]
    BY <2>1
  <2>5. UNCHANGED <<now, last>>
    BY <1>1 DEF GetHit
  <2> QED
    BY <2>2, <2>3, <2>4, <2>5
<1>2. ASSUME NEW k \in Key, GetExpired(k) PROVE HitsInv'
  BY <1>2, RemovalKeepsHits DEF GetExpired
<1>3. ASSUME NEW k \in Key, Invalidate(k) PROVE HitsInv'
  BY <1>3, RemovalKeepsHits DEF Invalidate
<1>4. ASSUME NEW k \in Key, NEW v \in Value, Insert(k, v) PROVE HitsInv'
  <2>1. PICK gone \in SUBSET DOMAIN entries :
          entries' = [j \in (DOMAIN entries \ gone) \cup {k} |->
                        IF j = k THEN [value |-> v, born |-> now, used |-> now]
                                 ELSE entries[j]]
    BY <1>4 DEF Insert, Victims
  <2>2. last' = [last EXCEPT ![k] = [value |-> v, at |-> now]] /\ now' = now
    BY <1>4 DEF Insert, Inserted
  <2>3. DOMAIN entries' = (DOMAIN entries \ gone) \cup {k}
    BY <2>1
  <2>4. entries'[k] = [value |-> v, born |-> now, used |-> now]
    BY <2>1
  <2>5. \A j \in DOMAIN entries' : j # k => entries'[j] = entries[j] /\ last'[j] = last[j]
    BY <2>1, <2>2, <2>3
  <2>6. last' \in [Key -> {None} \cup Insertion]
    BY <2>2 DEF Insertion
  <2>7. last'[k] = [value |-> v, at |-> now]
    BY <2>2
  <2>8. ASSUME NEW j \in DOMAIN entries'
        PROVE  /\ entries'[j] \in CacheEntry
               /\ last'[j] = [value |-> entries'[j].value, at |-> entries'[j].born]
    <3>1. CASE j = k
      BY <3>1, <2>4, <2>7 DEF CacheEntry
    <3>2. CASE j # k
      BY <3>2, <2>3, <2>5
    <3> QED
      BY <3>1, <3>2
  <2>9. entries' = [j \in DOMAIN entries' |-> entries'[j]]
    BY <2>1
  <2>10. DOMAIN entries' \subseteq Key
    BY <2>3
  <2> QED
    BY <2>2, <2>6, <2>8, <2>9, <2>10
<1>5. ASSUME NEW p, InvalidatePrefix(p)
      PROVE  HitsInv'
  BY <1>5, RemovalKeepsHits DEF InvalidatePrefix
<1>6. CASE Clear
  BY <1>6 DEF Clear, Forget
<1>7. CASE Stats
  BY <1>7 DEF Stats
<1>8. CASE Tick
  BY <1>8 DEF Tick
<1>9. CASE UNCHANGED vars
  BY <1>9 DEF vars
<1> QED
  BY <1>1, <1>2, <1>3, <1>4, <1>5, <1>6, <1>7, <1>8, <1>9 DEF Next

\* A get never returns a result that was replaced, invalidated or cleared, nor
\* one older than the time to live, after any sequence of calls (get, insert,
\* evict_lru, invalidate, invalidate_prefix, clear).
THEOREM HitsStayCurrent == Spec => []HitsAreCurrent
<1>1. HitsInv => HitsAreCurrent
  <2> SUFFICES ASSUME HitsInv, NEW k \in DOMAIN entries, ~Expired(entries[k])
               PROVE  /\ last[k] # None
                      /\ last[k].value = entries[k].value
                      /\ now - last[k].at <= Ttl
    BY DEF HitsAreCurrent
  <2>1. /\ entries[k].value \in Value /\ entries[k].born \in Nat
        /\ last[k] = [value |-> entries[k].value, at |-> entries[k].born]
        /\ now \in Nat
    BY DEF HitsInv, CacheEntry
  <2>2. last[k] # None
    BY <2>1, CacheAssumption DEF Insertion
  <2>3. now - entries[k].born <= Ttl
    BY <2>1, CacheAssumption DEF Expired
  <2> QED
    BY <2>1, <2>2, <2>3
<1> QED
  BY HitsInvInit, HitsInvStep, <1>1, PTL DEF Spec

-----------------------------------------------------------------------------
(* Types, ages and the count of entries. *)

\* No entry was used before it was born, or in the future.
AgesInv ==
    /\ \A k \in DOMAIN entries : entries[k].born <= entries[k].used /\ entries[k].used <= now
    /\ stats.entries = Cardinality(DOMAIN entries)

\* Entries that go leave the ages and the count of those that stay.
LEMMA RemovalKeepsAges ==
    ASSUME AgesInv, NEW keys, RemoveAll(keys), UNCHANGED now
    PROVE  AgesInv'
<1>1. DOMAIN entries' = DOMAIN entries \ keys
  BY DEF RemoveAll
<1>2. \A k \in DOMAIN entries' : entries'[k] = entries[k]
  BY DEF RemoveAll
<1>3. stats'.entries = Cardinality(DOMAIN entries \ keys)
  BY DEF RemoveAll
<1> QED
  BY <1>1, <1>2, <1>3 DEF AgesInv

LEMMA AgesInvStep == HitsInv /\ AgesInv /\ [Next]_vars => AgesInv'
<1> SUFFICES ASSUME HitsInv, AgesInv, [Next]_vars PROVE AgesInv'
  OBVIOUS
<1>1. ASSUME NEW k \in Key, GetHit(k) PROVE AgesInv'
  <2>1. /\ DOMAIN entries' = DOMAIN entries
        /\ \A j \in DOMAIN entries : entries'[j].born = entries[j].born
                                     /\ entries'[j].used \in {entries[j].used, now}
    BY <1>1 DEF GetHit, Touch, HitsInv, CacheEntry
  <2>2. \A j \in DOMAIN entries : entries[j].born \in Nat /\ entries[j].used \in Nat /\ now \in Nat
    BY DEF HitsInv, CacheEntry
  <2> QED
    BY <1>1, <2>1, <2>2 DEF GetHit, AgesInv
<1>2. ASSUME NEW k \in Key, GetExpired(k) \/ Invalidate(k) PROVE AgesInv'
  BY <1>2, RemovalKeepsAges DEF GetExpired, Invalidate
<1>3. ASSUME NEW k \in Key, NEW v \in Value, Insert(k, v) PROVE AgesInv'
  <2>1. PICK gone \in SUBSET DOMAIN entries :
          /\ entries' = [j \in (DOMAIN entries \ gone) \cup {k} |->
                           IF j = k THEN [value |-> v, born |-> now, used |-> now]
                                    ELSE entries[j]]
          /\ stats' = [entries |-> Cardinality((DOMAIN entries \ gone) \cup {k}),
                       bytes |-> (stats.bytes - Held(gone)) + Size[v]]
    BY <1>3 DEF Insert, Victims
  <2>2. stats'.entries = Cardinality(DOMAIN entries') /\ now' = now
    BY <1>3, <2>1 DEF Insert
  <2>3. /\ k \in DOMAIN entries' => entries'[k].born = now /\ entries'[k].used = now
        /\ \A j \in DOMAIN entries' : j # k => j \in DOMAIN entries /\ entries'[j] = entries[j]
    BY <2>1
  <2> QED
    BY <2>2, <2>3 DEF AgesInv, HitsInv
<1>4. ASSUME NEW p, InvalidatePrefix(p)
      PROVE  AgesInv'
  BY <1>4, RemovalKeepsAges DEF InvalidatePrefix
<1>5. CASE Clear
  BY <1>5, FS_EmptySet DEF Clear, AgesInv
<1>6. CASE Stats
  BY <1>6 DEF Stats, AgesInv
<1>7. CASE Tick
  <2>1. \A j \in DOMAIN entries : entries[j].used \in Nat
    BY DEF HitsInv, CacheEntry
  <2>2. now \in Nat /\ now' = now + 1 /\ entries' = entries /\ stats' = stats
    BY <1>7 DEF Tick, HitsInv
  <2> QED
    BY <2>1, <2>2 DEF AgesInv
<1>8. CASE UNCHANGED vars
  BY <1>8 DEF vars, AgesInv
<1> QED
  BY <1>1, <1>2, <1>3, <1>4, <1>5, <1>6, <1>7, <1>8 DEF Next

\* The types of the cache's state; the statistics count the entries, and no
\* entry is used before it is made (get, insert, invalidate, stats).
THEOREM CacheTypeCorrect == Spec => []CacheTypeOK
<1>1. Init => AgesInv
  BY FS_EmptySet DEF Init, AgesInv
<1>2. HitsInv /\ AgesInv => CacheTypeOK
  BY DEF HitsInv, AgesInv, CacheTypeOK
<1> QED
  BY HitsInvInit, HitsInvStep, AgesInvStep, <1>1, <1>2, PTL DEF Spec

-----------------------------------------------------------------------------
(* The bytes held. *)

\* Finitely many entries hold finitely many bytes.
LEMMA BytesFinite ==
    ASSUME NEW es, NEW keys, IsFiniteSet(keys), \A k \in keys : es[k].value \in Value
    PROVE  /\ IsFiniteSet(BytesOf(es, keys))
           /\ Cardinality(BytesOf(es, keys)) \in Nat
<1> DEFINE block == [k \in keys |-> {k} \X (1 .. Size[es[k].value])]
           blocks == {{k} \X (1 .. Size[es[k].value]) : k \in keys}
<1>1. block \in Surjection(keys, blocks)
  BY DEF Surjection
<1>2. IsFiniteSet(blocks)
  BY <1>1, FS_Surjection
<1>3. ASSUME NEW k \in keys PROVE IsFiniteSet({k} \X (1 .. Size[es[k].value]))
  <2>1. Size[es[k].value] \in Int
    BY CacheAssumption
  <2>2. IsFiniteSet(1 .. Size[es[k].value])
    BY <2>1, FS_Interval
  <2>3. IsFiniteSet({k})
    BY FS_Singleton
  <2> QED
    BY <2>2, <2>3, FS_Product
<1>4. IsFiniteSet(UNION blocks)
  BY <1>2, <1>3, FS_UNION
<1> QED
  BY <1>4, FS_CardinalityType DEF BytesOf

\* The bytes of two disjoint sets of keys add up.
LEMMA BytesAdd ==
    ASSUME NEW es, NEW S, NEW T, IsFiniteSet(S), IsFiniteSet(T), S \cap T = {},
           \A k \in S \cup T : es[k].value \in Value
    PROVE  Cardinality(BytesOf(es, S \cup T))
             = Cardinality(BytesOf(es, S)) + Cardinality(BytesOf(es, T))
<1>1. BytesOf(es, S \cup T) = BytesOf(es, S) \cup BytesOf(es, T)
  BY DEF BytesOf
<1>2. \A K, b : b \in BytesOf(es, K) => b[1] \in K
  BY DEF BytesOf
<1>3. BytesOf(es, S) \cap BytesOf(es, T) = {}
  BY <1>2
<1>4. /\ IsFiniteSet(BytesOf(es, S)) /\ Cardinality(BytesOf(es, S)) \in Nat
      /\ IsFiniteSet(BytesOf(es, T)) /\ Cardinality(BytesOf(es, T)) \in Nat
  BY BytesFinite
<1>5. Cardinality(BytesOf(es, S) \cap BytesOf(es, T)) = 0
  BY <1>3, FS_EmptySet
<1>6. Cardinality(BytesOf(es, S) \cup BytesOf(es, T))
        = Cardinality(BytesOf(es, S)) + Cardinality(BytesOf(es, T))
          - Cardinality(BytesOf(es, S) \cap BytesOf(es, T))
  BY <1>4, FS_Union
<1> DEFINE a == Cardinality(BytesOf(es, S))
           b == Cardinality(BytesOf(es, T))
           c == Cardinality(BytesOf(es, S) \cap BytesOf(es, T))
<1>7. Cardinality(BytesOf(es, S \cup T)) = a + b - c
  BY <1>1, <1>6, Zenon
<1>8. a \in Nat /\ b \in Nat /\ c = 0
  BY <1>4, <1>5
<1> HIDE DEF a, b, c
<1>9. a + b - c = a + b
  BY <1>8
<1> QED
  BY <1>7, <1>9, Zenon DEF a, b

\* Fewer keys hold no more bytes.
LEMMA BytesMonotone ==
    ASSUME NEW es, NEW S, NEW T, IsFiniteSet(T), S \subseteq T,
           \A k \in T : es[k].value \in Value
    PROVE  Cardinality(BytesOf(es, S)) <= Cardinality(BytesOf(es, T))
<1>1. BytesOf(es, S) \subseteq BytesOf(es, T)
  BY DEF BytesOf
<1> QED
  BY <1>1, BytesFinite, FS_Subset

\* Entries with the same results hold the same bytes.
LEMMA BytesSame ==
    ASSUME NEW es, NEW fs, NEW keys, \A k \in keys : es[k].value = fs[k].value
    PROVE  BytesOf(es, keys) = BytesOf(fs, keys)
BY DEF BytesOf

\* One entry holds the bytes of its result.
LEMMA BytesOne ==
    ASSUME NEW es, NEW k, es[k].value \in Value
    PROVE  Cardinality(BytesOf(es, {k})) = Size[es[k].value]
<1> DEFINE n == Size[es[k].value]
<1>1. BytesOf(es, {k}) = {k} \X (1 .. n)
  BY DEF BytesOf
<1>2. n \in Nat
  BY CacheAssumption
<1> HIDE DEF n
<1>3. IsFiniteSet({k}) /\ Cardinality({k}) = 1
  BY FS_Singleton
<1>4. 1 \in Int /\ n \in Int /\ (IF 1 > n THEN 0 ELSE n - 1 + 1) = n
  BY <1>2
<1>5. IsFiniteSet(1 .. n) /\ Cardinality(1 .. n) = n
  BY <1>4, FS_Interval, Zenon
<1>8. Cardinality({k} \X (1 .. n)) = Cardinality({k}) * Cardinality(1 .. n)
  BY <1>3, <1>5, FS_Product
<1>6. Cardinality({k} \X (1 .. n)) = 1 * n
  BY <1>3, <1>5, <1>8, Zenon
<1>7. 1 * n = n
  BY <1>2
<1> QED
  BY <1>1, <1>6, <1>7, Zenon DEF n

-----------------------------------------------------------------------------
(* The count of bytes and the limits. *)

\* The entries are finitely many, their bytes within the count and the limits.
HeldInv ==
    /\ IsFiniteSet(DOMAIN entries)
    /\ stats.bytes \in Int
    /\ BytesCoverHeld
    /\ WithinLimits

\* The same of given entries and a given count.
Covered(es, bytes) ==
    /\ IsFiniteSet(DOMAIN es)
    /\ bytes \in Int
    /\ bytes >= Cardinality(BytesOf(es, DOMAIN es))

Limited(es) ==
    \/ Cardinality(DOMAIN es) <= 1
    \/ /\ Cardinality(DOMAIN es) <= MaxEntries
       /\ Cardinality(BytesOf(es, DOMAIN es)) <= MaxMemory

LEMMA HeldIsCovered == HeldInv <=> Covered(entries, stats.bytes) /\ Limited(entries)
BY DEF HeldInv, BytesCoverHeld, WithinLimits, Held, Covered, Limited

\* Results left in place under the keys left in place change nothing.
LEMMA SameBytes ==
    ASSUME NEW es, NEW fs, NEW bytes, DOMAIN fs = DOMAIN es,
           \A k \in DOMAIN es : fs[k].value = es[k].value,
           Covered(es, bytes), Limited(es)
    PROVE  Covered(fs, bytes) /\ Limited(fs)
<1>1. BytesOf(fs, DOMAIN fs) = BytesOf(es, DOMAIN es)
  BY BytesSame
<1> QED
  BY <1>1 DEF Covered, Limited

\* Entries that go take their bytes with them, off the count as well.
LEMMA RemovalKeepsBytes ==
    ASSUME NEW es, NEW bytes, NEW keys,
           \A k \in DOMAIN es : es[k].value \in Value,
           Covered(es, bytes)
    PROVE  LET fs == [k \in DOMAIN es \ keys |-> es[k]] IN
           /\ Covered(fs, bytes - Cardinality(BytesOf(es, DOMAIN es \cap keys)))
           /\ Cardinality(DOMAIN fs) <= Cardinality(DOMAIN es)
           /\ Cardinality(BytesOf(fs, DOMAIN fs)) <= Cardinality(BytesOf(es, DOMAIN es))
<1> DEFINE D == DOMAIN es
           gone == D \cap keys
           kept == D \ keys
           fs == [k \in kept |-> es[k]]
<1>1. IsFiniteSet(D) /\ Cardinality(D) \in Nat
  BY FS_CardinalityType DEF Covered
<1>2. /\ IsFiniteSet(gone) /\ IsFiniteSet(kept)
      /\ Cardinality(kept) <= Cardinality(D)
  BY <1>1, FS_Subset
<1>3. gone \cap kept = {} /\ D = gone \cup kept
  OBVIOUS
<1>4. Cardinality(BytesOf(es, D)) = Cardinality(BytesOf(es, gone)) + Cardinality(BytesOf(es, kept))
  BY <1>2, <1>3, BytesAdd
<1>5. /\ Cardinality(BytesOf(es, gone)) \in Nat
      /\ Cardinality(BytesOf(es, kept)) \in Nat
  BY <1>2, BytesFinite
<1>6. DOMAIN fs = kept /\ BytesOf(fs, kept) = BytesOf(es, kept)
  BY DEF BytesOf
<1> HIDE DEF gone, kept, fs
<1>7. bytes - Cardinality(BytesOf(es, gone)) >= Cardinality(BytesOf(fs, DOMAIN fs))
  BY <1>4, <1>5, <1>6 DEF Covered
<1>8. Covered(fs, bytes - Cardinality(BytesOf(es, gone)))
  BY <1>2, <1>5, <1>6, <1>7 DEF Covered
<1>9. Cardinality(BytesOf(fs, DOMAIN fs)) <= Cardinality(BytesOf(es, D))
  BY <1>4, <1>5, <1>6
<1> QED
  BY <1>2, <1>6, <1>8, <1>9 DEF gone, kept, fs

\* One entry more, in place of the old one of its key or new.
LEMMA InsertionAddsBytes ==
    ASSUME NEW es, NEW bytes, NEW k, NEW e, e.value \in Value,
           \A j \in DOMAIN es : es[j].value \in Value,
           Covered(es, bytes)
    PROVE  LET fs == [j \in DOMAIN es \cup {k} |-> IF j = k THEN e ELSE es[j]] IN
           /\ Covered(fs, bytes + Size[e.value])
           /\ Cardinality(DOMAIN fs) <= Cardinality(DOMAIN es) + 1
           /\ Cardinality(BytesOf(fs, DOMAIN fs))
                 <= Cardinality(BytesOf(es, DOMAIN es)) + Size[e.value]
<1> DEFINE D == DOMAIN es
           rest == D \ {k}
           fs == [j \in D \cup {k} |-> IF j = k THEN e ELSE es[j]]
<1>1. IsFiniteSet(D) /\ Cardinality(D) \in Nat
  BY FS_CardinalityType DEF Covered
<1>2. IsFiniteSet(rest)
  BY <1>1, FS_Subset
<1>3. IsFiniteSet({k})
  BY FS_Singleton
<1>4. DOMAIN fs = rest \cup {k} /\ rest \cap {k} = {} /\ fs[k] = e
      /\ \A j \in rest : fs[j] = es[j] /\ j \in D
  OBVIOUS
<1>5. \A j \in rest \cup {k} : fs[j].value \in Value
  BY <1>4
<1> HIDE DEF fs, rest
<1>6. Cardinality(BytesOf(fs, DOMAIN fs))
        = Cardinality(BytesOf(fs, rest)) + Cardinality(BytesOf(fs, {k}))
  BY <1>2, <1>3, <1>4, <1>5, BytesAdd
<1>7. Cardinality(BytesOf(fs, {k})) = Size[e.value]
  BY <1>4, <1>5, BytesOne
<1>8. BytesOf(fs, rest) = BytesOf(es, rest)
  BY <1>4, BytesSame
<1>9. Cardinality(BytesOf(es, rest)) <= Cardinality(BytesOf(es, D))
  BY <1>1, <1>2, BytesMonotone DEF rest
<1>10. /\ Cardinality(BytesOf(es, rest)) \in Nat
       /\ Cardinality(BytesOf(es, D)) \in Nat
       /\ Size[e.value] \in Nat
  BY <1>1, <1>2, BytesFinite, CacheAssumption DEF rest
<1>11. IsFiniteSet(DOMAIN fs) /\ Cardinality(DOMAIN fs) <= Cardinality(D) + 1
  <2>1. DOMAIN fs = D \cup {k}
    BY DEF fs
  <2>2. /\ IsFiniteSet(D \cup {k})
        /\ Cardinality(D \cup {k}) = IF k \in D THEN Cardinality(D) ELSE Cardinality(D) + 1
    BY <1>1, FS_AddElement
  <2>3. Cardinality(D \cup {k}) <= Cardinality(D) + 1
    BY <1>1, <2>2
  <2> QED
    BY <2>1, <2>2, <2>3
<1>12. Cardinality(BytesOf(fs, DOMAIN fs)) <= Cardinality(BytesOf(es, D)) + Size[e.value]
  BY <1>6, <1>7, <1>8, <1>9, <1>10
<1>13. bytes + Size[e.value] \in Int /\ bytes + Size[e.value] >= Cardinality(BytesOf(fs, DOMAIN fs))
  BY <1>6, <1>7, <1>8, <1>9, <1>10 DEF Covered
<1>14. Covered(fs, bytes + Size[e.value])
  BY <1>11, <1>13 DEF Covered
<1> QED
  BY <1>11, <1>12, <1>14 DEF fs

LEMMA HeldInvInit == Init => HeldInv
<1> SUFFICES ASSUME Init PROVE HeldInv
  OBVIOUS
<1>1. DOMAIN entries = {} /\ stats.bytes = 0
  BY DEF Init
<1>2. BytesOf(entries, {}) = {}
  BY DEF BytesOf
<1>3. IsFiniteSet({}) /\ Cardinality({}) = 0
  BY FS_EmptySet
<1> QED
  BY <1>1, <1>2, <1>3 DEF HeldInv, BytesCoverHeld, WithinLimits, Held

\* Insert evicts until the new entry fits, or until nothing is left.
LEMMA InsertKeepsHeld ==
    ASSUME HitsInv, HeldInv, NEW k \in Key, NEW v \in Value, Insert(k, v)
    PROVE  HeldInv'
<1>1. PICK gone \in Victims(Size[v]) :
        /\ entries' = [j \in (DOMAIN entries \ gone) \cup {k} |->
                         IF j = k THEN [value |-> v, born |-> now, used |-> now]
                                  ELSE entries[j]]
        /\ stats'.bytes = (stats.bytes - Held(gone)) + Size[v]
  BY DEF Insert
<1> DEFINE e  == [value |-> v, born |-> now, used |-> now]
           kept == DOMAIN entries \ gone
           es == [j \in kept |-> entries[j]]
           fs == [j \in DOMAIN es \cup {k} |-> IF j = k THEN e ELSE es[j]]
           left == stats.bytes - Held(gone)
<1>2. gone \subseteq DOMAIN entries /\ ~Pressed(kept, Size[v])
  BY <1>1 DEF Victims
<1>3. \A j \in DOMAIN entries : entries[j].value \in Value
  BY DEF HitsInv, CacheEntry
<1>4. DOMAIN es = kept /\ \A j \in DOMAIN es : es[j] = entries[j]
  OBVIOUS
<1>5. entries' = fs
  BY <1>1, <1>4
<1>6. Covered(es, left)
  <2>1. Covered(entries, stats.bytes)
    BY HeldIsCovered
  <2>2. DOMAIN entries \cap gone = gone
    BY <1>2
  <2> QED
    BY <1>3, <2>1, <2>2, RemovalKeepsBytes DEF Held
<1>7. \A j \in DOMAIN es : es[j].value \in Value
  BY <1>3, <1>4
<1>8. BytesOf(es, DOMAIN es) = BytesOf(entries, kept)
  BY <1>4, BytesSame
<1>9. IsFiniteSet(DOMAIN es) /\ Cardinality(DOMAIN es) \in Nat
      /\ Cardinality(BytesOf(es, DOMAIN es)) \in Nat
  BY <1>6, <1>7, BytesFinite, FS_CardinalityType DEF Covered
<1>10. e.value = v /\ Size[v] \in Nat
  BY CacheAssumption
<1>11. kept # {} => /\ Cardinality(kept) + 1 <= MaxEntries
                    /\ Cardinality(BytesOf(entries, kept)) + Size[v] <= MaxMemory
  BY <1>2, <1>4, <1>8, <1>9, <1>10, CacheAssumption DEF Pressed, Held
<1> HIDE DEF es, e, left, kept
<1>12. /\ Covered(fs, left + Size[v])
       /\ Cardinality(DOMAIN fs) <= Cardinality(DOMAIN es) + 1
       /\ Cardinality(BytesOf(fs, DOMAIN fs)) <= Cardinality(BytesOf(es, DOMAIN es)) + Size[v]
  BY <1>6, <1>7, <1>10, InsertionAddsBytes
<1> HIDE DEF fs
<1>13. Cardinality(DOMAIN fs) \in Nat /\ Cardinality(BytesOf(fs, DOMAIN fs)) \in Nat
  <2>1. \A j \in DOMAIN fs : fs[j].value \in Value
    BY <1>7, <1>10 DEF fs
  <2> QED
    BY <1>12, <2>1, BytesFinite, FS_CardinalityType DEF Covered
<1>14. Limited(fs)
  <2>1. CASE kept = {}
    BY <1>4, <1>12, <1>13, <2>1, FS_EmptySet DEF Limited
  <2>2. CASE kept # {}
    BY <1>4, <1>8, <1>9, <1>10, <1>11, <1>12, <1>13, <2>2, CacheAssumption DEF Limited
  <2> QED
    BY <2>1, <2>2
<1>15. Covered(entries, stats.bytes)' /\ Limited(entries)'
  BY <1>1, <1>5, <1>12, <1>14 DEF left
<1> QED
  BY <1>15, HeldIsCovered, PTL

\* A removal keeps the count over what is held and the limits.
LEMMA RemovalKeepsHeld ==
    ASSUME HitsInv, HeldInv, NEW keys, RemoveAll(keys)
    PROVE  HeldInv'
<1> DEFINE fs == [k \in DOMAIN entries \ keys |-> entries[k]]
<1>1. Covered(entries, stats.bytes) /\ Limited(entries)
  BY HeldIsCovered
<1>2. \A k \in DOMAIN entries : entries[k].value \in Value
  BY DEF HitsInv, CacheEntry
<1>3. /\ Covered(fs, stats.bytes - Held(DOMAIN entries \cap keys))
      /\ Cardinality(DOMAIN fs) <= Cardinality(DOMAIN entries)
      /\ Cardinality(BytesOf(fs, DOMAIN fs)) <= Cardinality(BytesOf(entries, DOMAIN entries))
  BY <1>1, <1>2, RemovalKeepsBytes DEF Held
<1>4. \A k \in DOMAIN fs : fs[k].value \in Value
  BY <1>2
<1>5. entries' = fs /\ stats'.bytes = stats.bytes - Held(DOMAIN entries \cap keys)
  BY DEF RemoveAll
<1> HIDE DEF fs
<1>6. /\ Cardinality(DOMAIN fs) \in Nat /\ Cardinality(BytesOf(fs, DOMAIN fs)) \in Nat
      /\ Cardinality(DOMAIN entries) \in Nat
      /\ Cardinality(BytesOf(entries, DOMAIN entries)) \in Nat
  BY <1>1, <1>2, <1>3, <1>4, BytesFinite, FS_CardinalityType DEF Covered
<1>7. Limited(fs)
  BY <1>1, <1>3, <1>6, CacheAssumption DEF Limited
<1>8. Covered(entries, stats.bytes)' /\ Limited(entries)'
  BY <1>3, <1>5, <1>7
<1> QED
  BY <1>8, HeldIsCovered, PTL

LEMMA HeldInvStep == HitsInv /\ HeldInv /\ [Next]_vars => HeldInv'
<1> SUFFICES ASSUME HitsInv, HeldInv, [Next]_vars PROVE HeldInv'
  OBVIOUS
<1>1. ASSUME NEW k \in Key, GetHit(k) PROVE HeldInv'
  <2>1. /\ DOMAIN entries' = DOMAIN entries
        /\ \A j \in DOMAIN entries : entries'[j].value = entries[j].value
        /\ stats' = stats
    BY <1>1 DEF GetHit, Touch, HitsInv, CacheEntry
  <2>2. Covered(entries, stats.bytes)' /\ Limited(entries)'
    BY <2>1, HeldIsCovered, SameBytes
  <2> QED
    BY <2>2, HeldIsCovered, PTL
<1>2. ASSUME NEW k \in Key, GetExpired(k) \/ Invalidate(k) PROVE HeldInv'
  BY <1>2, RemovalKeepsHeld DEF GetExpired, Invalidate
<1>3. ASSUME NEW k \in Key, NEW v \in Value, Insert(k, v) PROVE HeldInv'
  BY <1>3, InsertKeepsHeld
<1>4. ASSUME NEW p, InvalidatePrefix(p)
      PROVE  HeldInv'
  BY <1>4, RemovalKeepsHeld DEF InvalidatePrefix
<1>5. CASE Clear
  <2>1. DOMAIN entries' = {} /\ stats'.bytes = 0
    BY <1>5 DEF Clear
  <2>2. BytesOf(entries', {}) = {}
    BY DEF BytesOf
  <2>3. IsFiniteSet({}) /\ Cardinality({}) = 0
    BY FS_EmptySet
  <2> QED
    BY <2>1, <2>2, <2>3 DEF HeldInv, BytesCoverHeld, WithinLimits, Held
<1>6. CASE Stats
  <2>1. entries' = entries /\ stats'.bytes = Held(DOMAIN entries)
    BY <1>6 DEF Stats
  <2>2. Held(DOMAIN entries) \in Nat
    BY BytesFinite DEF HeldInv, HitsInv, CacheEntry, Held
  <2> QED
    BY <2>1, <2>2 DEF HeldInv, BytesCoverHeld, WithinLimits, Held
<1>7. CASE Tick
  BY <1>7 DEF Tick, HeldInv, BytesCoverHeld, WithinLimits, Held
<1>8. CASE UNCHANGED vars
  BY <1>8 DEF vars, HeldInv, BytesCoverHeld, WithinLimits, Held
<1> QED
  BY <1>1, <1>2, <1>3, <1>4, <1>5, <1>6, <1>7, <1>8 DEF Next

\* No sequence of calls takes more bytes off the count than were put on it:
\* the unsigned subtractions of get, evict_lru and invalidate never underflow.
THEOREM CountCoversHeld == Spec => []BytesCoverHeld
<1>1. HeldInv => BytesCoverHeld
  BY DEF HeldInv
<1> QED
  BY HitsInvInit, HitsInvStep, HeldInvInit, HeldInvStep, <1>1, PTL DEF Spec

\* However many results are inserted, the cache keeps to its two limits, but
\* for one result that is larger than the memory by itself (insert).
THEOREM CacheWithinLimits == Spec => []WithinLimits
<1>1. HeldInv => WithinLimits
  BY DEF HeldInv
<1> QED
  BY HitsInvInit, HitsInvStep, HeldInvInit, HeldInvStep, <1>1, PTL DEF Spec

-----------------------------------------------------------------------------
(* Results in use stay. *)

\* Numbered elements, n[k] of them for each key k, as Slotted and Asked count.
Pieces(n, keys) == UNION {{k} \X (1 .. n[k]) : k \in keys}

LEMMA PiecesFinite ==
    ASSUME NEW n, NEW keys, IsFiniteSet(keys), \A k \in keys : n[k] \in Nat
    PROVE  IsFiniteSet(Pieces(n, keys)) /\ Cardinality(Pieces(n, keys)) \in Nat
<1> DEFINE piece == [k \in keys |-> {k} \X (1 .. n[k])]
           pieces == {{k} \X (1 .. n[k]) : k \in keys}
<1>1. piece \in Surjection(keys, pieces)
  BY DEF Surjection
<1>2. IsFiniteSet(pieces)
  BY <1>1, FS_Surjection
<1>3. ASSUME NEW k \in keys PROVE IsFiniteSet({k} \X (1 .. n[k]))
  <2>1. IsFiniteSet(1 .. n[k])
    BY FS_Interval
  <2>2. IsFiniteSet({k})
    BY FS_Singleton
  <2> QED
    BY <2>1, <2>2, FS_Product
<1>4. IsFiniteSet(UNION pieces)
  BY <1>2, <1>3, FS_UNION
<1> QED
  BY <1>4, FS_CardinalityType DEF Pieces

\* More keys with as much for each are as many pieces.
LEMMA PiecesGrow ==
    ASSUME NEW m, NEW n, NEW S, NEW T, IsFiniteSet(T), S \subseteq T,
           \A k \in T : n[k] \in Nat,
           \A k \in S : m[k] \in Nat /\ m[k] <= n[k]
    PROVE  Cardinality(Pieces(m, S)) <= Cardinality(Pieces(n, T))
<1>1. Pieces(m, S) \subseteq Pieces(n, T)
  <2> SUFFICES ASSUME NEW k \in S, NEW i \in 1 .. m[k] PROVE <<k, i>> \in Pieces(n, T)
    BY DEF Pieces
  <2>1. k \in T /\ i \in 1 .. n[k]
    OBVIOUS
  <2> QED
    BY <2>1 DEF Pieces
<1>2. IsFiniteSet(Pieces(n, T))
  BY PiecesFinite
<1> QED
  BY <1>1, <1>2, FS_Subset

\* The properties' words for uses u in place of use, and the crowd they count.
SinceIn(u, k) == {j \in Key : u[j].at >= u[k].at}
SlotsOf(u) == [k \in Key |-> u[k].slots]
RoomOf(u)  == [k \in Key |-> u[k].room]
CrowdedIn(u, k) ==
    \/ Cardinality(Pieces(SlotsOf(u), SinceIn(u, k))) > MaxEntries
    \/ Cardinality(Pieces(RoomOf(u), SinceIn(u, k))) > MaxMemory

LEMMA PiecesAreCounts ==
    ASSUME NEW u, NEW keys, keys \subseteq Key
    PROVE  /\ UNION {{k} \X (1 .. u[k].slots) : k \in keys} = Pieces(SlotsOf(u), keys)
           /\ UNION {{k} \X (1 .. u[k].room) : k \in keys} = Pieces(RoomOf(u), keys)
<1>1. \A k \in keys : SlotsOf(u)[k] = u[k].slots /\ RoomOf(u)[k] = u[k].room
  BY DEF SlotsOf, RoomOf
<1> QED
  BY <1>1 DEF Pieces

LEMMA CrowdedNow == ASSUME NEW k PROVE Crowded(k) <=> CrowdedIn(use, k)
<1>1. UsedSince(k) = SinceIn(use, k) /\ SinceIn(use, k) \subseteq Key
  BY DEF UsedSince, SinceIn
<1> QED
  BY <1>1, PiecesAreCounts DEF Crowded, CrowdedIn, Slotted, Asked

LEMMA CrowdedNext == ASSUME NEW k PROVE Crowded(k)' <=> CrowdedIn(use', k)
<1>1. UsedSince(k)' = SinceIn(use', k) /\ SinceIn(use', k) \subseteq Key
  BY DEF UsedSince, SinceIn
<1> QED
  BY <1>1, PiecesAreCounts DEF Crowded, CrowdedIn, Slotted, Asked

\* Finitely many keys were ever used, none after n.
Uses(u, n) ==
    /\ u \in [Key -> [at : Int, room : Nat, slots : Nat]]
    /\ \A k \in Key : u[k].at <= n
    /\ IsFiniteSet({k \in Key : u[k].at >= 0})

\* What is asked for since a use that is on record can be counted.
LEMMA SinceFinite ==
    ASSUME NEW u, NEW n, Uses(u, n), NEW k \in Key, u[k].at >= 0
    PROVE  /\ IsFiniteSet(SinceIn(u, k)) /\ SinceIn(u, k) \subseteq Key
           /\ \A j \in SinceIn(u, k) :
                /\ SlotsOf(u)[j] = u[j].slots /\ u[j].slots \in Nat
                /\ RoomOf(u)[j] = u[j].room /\ u[j].room \in Nat
<1>1. SinceIn(u, k) \subseteq {j \in Key : u[j].at >= 0}
  BY DEF SinceIn, Uses
<1>2. IsFiniteSet(SinceIn(u, k))
  BY <1>1, FS_Subset DEF Uses
<1> QED
  BY <1>2 DEF Uses, SinceIn, SlotsOf, RoomOf

\* Later uses of other keys only add to a crowd.
LEMMA CrowdsGrow ==
    ASSUME NEW u, NEW n, Uses(u, n), NEW w, NEW m, Uses(w, m),
           NEW k \in Key, u[k].at >= 0, w[k].at = u[k].at,
           \A j \in Key : /\ u[j].at <= w[j].at
                          /\ u[j].slots <= w[j].slots
                          /\ u[j].room <= w[j].room,
           CrowdedIn(u, k)
    PROVE  CrowdedIn(w, k)
<1> DEFINE S == SinceIn(u, k)
           T == SinceIn(w, k)
<1>1. /\ IsFiniteSet(S) /\ S \subseteq Key
      /\ \A j \in S : /\ SlotsOf(u)[j] = u[j].slots /\ u[j].slots \in Nat
                      /\ RoomOf(u)[j] = u[j].room /\ u[j].room \in Nat
  BY SinceFinite
<1>2. /\ IsFiniteSet(T) /\ T \subseteq Key
      /\ \A j \in T : /\ SlotsOf(w)[j] = w[j].slots /\ w[j].slots \in Nat
                      /\ RoomOf(w)[j] = w[j].room /\ w[j].room \in Nat
  BY SinceFinite
<1>3. S \subseteq T
  BY DEF SinceIn, Uses
<1> HIDE DEF S, T
<1>4. /\ \A j \in T : SlotsOf(w)[j] \in Nat /\ RoomOf(w)[j] \in Nat
      /\ \A j \in S : /\ SlotsOf(u)[j] \in Nat /\ SlotsOf(u)[j] <= SlotsOf(w)[j]
                      /\ RoomOf(u)[j] \in Nat /\ RoomOf(u)[j] <= RoomOf(w)[j]
  BY <1>1, <1>2, <1>3
<1>5. Cardinality(Pieces(SlotsOf(u), S)) <= Cardinality(Pieces(SlotsOf(w), T))
  BY <1>2, <1>3, <1>4, PiecesGrow
<1>6. Cardinality(Pieces(RoomOf(u), S)) <= Cardinality(Pieces(RoomOf(w), T))
  BY <1>2, <1>3, <1>4, PiecesGrow
<1>7. /\ Cardinality(Pieces(SlotsOf(u), S)) \in Nat /\ Cardinality(Pieces(SlotsOf(w), T)) \in Nat
      /\ Cardinality(Pieces(RoomOf(u), S)) \in Nat /\ Cardinality(Pieces(RoomOf(w), T)) \in Nat
  BY <1>1, <1>2, <1>4, PiecesFinite
<1> QED
  BY <1>5, <1>6, <1>7, CacheAssumption DEF CrowdedIn, S, T

\* A key used last is one slot more than those before it, and two if it was one
\* of them.
LEMMA OneSlotMore ==
    ASSUME NEW W, NEW k, IsFiniteSet(W), NEW n, NEW T, IsFiniteSet(T),
           W \subseteq T, k \in T, \A j \in T : n[j] \in Nat,
           \A j \in W : n[j] >= 1, n[k] >= 1, k \in W => n[k] >= 2
    PROVE  Cardinality(Pieces(n, T)) >= Cardinality(W) + 1
<1> DEFINE first == {<<j, 1>> : j \in W}
           new == <<k, IF k \in W THEN 2 ELSE 1>>
<1>1. first \cup {new} \subseteq Pieces(n, T)
  <2>1. ASSUME NEW j \in W PROVE <<j, 1>> \in Pieces(n, T)
    <3>1. j \in T /\ 1 \in 1 .. n[j]
      OBVIOUS
    <3> QED
      BY <3>1 DEF Pieces
  <2>2. new \in Pieces(n, T)
    <3>1. new[2] \in 1 .. n[k]
      OBVIOUS
    <3> QED
      BY <3>1 DEF Pieces
  <2> QED
    BY <2>1, <2>2
<1>2. IsFiniteSet(first) /\ Cardinality(first) = Cardinality(W)
  <2> DEFINE f == [j \in W |-> <<j, 1>>]
  <2>1. f \in Bijection(W, first)
    BY DEF Bijection, Injection, Surjection, IsInjective
  <2> QED
    BY <2>1, FS_Bijection DEF ExistsBijection
<1>3. new \notin first
  OBVIOUS
<1>4. Cardinality(first \cup {new}) = Cardinality(W) + 1
  BY <1>2, <1>3, FS_AddElement
<1>5. IsFiniteSet(Pieces(n, T))
  BY PiecesFinite
<1>6. Cardinality(first \cup {new}) <= Cardinality(Pieces(n, T))
  BY <1>1, <1>5, FS_Subset
<1>7. Cardinality(W) \in Nat /\ Cardinality(Pieces(n, T)) \in Nat
  BY <1>5, FS_CardinalityType
<1> QED
  BY <1>4, <1>6, <1>7

\* The bytes of entries and, on top of them, those of a new result for k.
LEMMA RoomForBoth ==
    ASSUME NEW es, NEW W, NEW k, NEW size \in Nat, IsFiniteSet(W),
           \A j \in W : es[j].value \in Value,
           NEW n, NEW T, IsFiniteSet(T), W \subseteq T, k \in T, \A j \in T : n[j] \in Nat,
           \A j \in W : Size[es[j].value] <= n[j],
           n[k] >= size, k \in W => n[k] >= size + Size[es[k].value]
    PROVE  Cardinality(Pieces(n, T)) >= Cardinality(BytesOf(es, W)) + size
<1> DEFINE o == IF k \in W THEN Size[es[k].value] ELSE 0
           B == BytesOf(es, W)
           N == {k} \X ((o + 1) .. (o + size))
<1>1. /\ \A j \in W : Size[es[j].value] \in Nat
      /\ o \in Nat
  BY CacheAssumption
<1>2. B \subseteq Pieces(n, T)
  <2> SUFFICES ASSUME NEW j \in W, NEW i \in 1 .. Size[es[j].value] PROVE <<j, i>> \in Pieces(n, T)
    BY DEF BytesOf
  <2>1. j \in T /\ i \in 1 .. n[j]
    BY <1>1
  <2> QED
    BY <2>1 DEF Pieces
<1>3. N \subseteq Pieces(n, T)
  <2> SUFFICES ASSUME NEW i \in (o + 1) .. (o + size) PROVE <<k, i>> \in Pieces(n, T)
    OBVIOUS
  <2>1. o + size <= n[k]
    <3>1. CASE k \in W
      <4>1. o = Size[es[k].value] /\ n[k] >= size + Size[es[k].value]
        BY <3>1
      <4> QED
        BY <1>1, <4>1
    <3>2. CASE k \notin W
      BY <3>2
    <3> QED
      BY <3>1, <3>2
  <2>2. i \in 1 .. n[k]
    BY <1>1, <2>1
  <2> QED
    BY <2>2 DEF Pieces
<1>4. B \cap N = {}
  <2> SUFFICES ASSUME NEW j \in W, NEW i \in 1 .. Size[es[j].value], <<j, i>> \in N PROVE FALSE
    BY DEF BytesOf
  <2>1. j = k /\ i >= o + 1 /\ o = Size[es[k].value]
    BY <1>1
  <2> QED
    BY <1>1, <2>1
<1>5. IsFiniteSet(B) /\ Cardinality(B) \in Nat
  BY BytesFinite
<1> HIDE DEF o
<1>6. IsFiniteSet(N) /\ Cardinality(N) = size
  <2>1. o + 1 \in Int /\ o + size \in Int
        /\ (IF o + 1 > o + size THEN 0 ELSE (o + size) - (o + 1) + 1) = size
    BY <1>1
  <2>2. IsFiniteSet((o + 1) .. (o + size)) /\ Cardinality((o + 1) .. (o + size)) = size
    BY <2>1, FS_Interval
  <2>3. IsFiniteSet({k}) /\ Cardinality({k}) = 1
    BY FS_Singleton
  <2>4. IsFiniteSet(N) /\ Cardinality(N) = Cardinality({k}) * Cardinality((o + 1) .. (o + size))
    BY <2>2, <2>3, FS_Product
  <2>5. Cardinality(N) = 1 * size
    BY <2>2, <2>3, <2>4, Zenon
  <2> QED
    BY <2>4, <2>5
<1> HIDE DEF B, N
<1>7. Cardinality(B \cap N) = 0
  BY <1>4, FS_EmptySet
<1>8. Cardinality(B \cup N) = Cardinality(B) + Cardinality(N) - Cardinality(B \cap N)
  BY <1>5, <1>6, FS_Union
<1>9. Cardinality(B \cup N) = Cardinality(B) + size
  BY <1>5, <1>6, <1>7, <1>8
<1>10. IsFiniteSet(Pieces(n, T)) /\ Cardinality(Pieces(n, T)) \in Nat
  BY PiecesFinite
<1>11. B \cup N \subseteq Pieces(n, T)
  BY <1>2, <1>3
<1>12. Cardinality(B \cup N) <= Cardinality(Pieces(n, T))
  BY <1>10, <1>11, FS_Subset
<1> QED
  BY <1>5, <1>9, <1>10, <1>12 DEF B

\* Every use is on record, and an entry is as old as its last use and within
\* what its key has asked for.
UseInv ==
    /\ Uses(use, now)
    /\ \A k \in Key : last[k] # None => use[k].at >= 0
    /\ \A k \in DOMAIN entries :
         /\ entries[k].used = use[k].at
         /\ Size[entries[k].value] <= use[k].room
         /\ use[k].slots >= 1

LEMMA MaxOfTwo ==
    \A a, b \in Nat : Max({a, b}) \in Nat /\ Max({a, b}) >= a /\ Max({a, b}) >= b
<1> SUFFICES ASSUME NEW a \in Nat, NEW b \in Nat
             PROVE  Max({a, b}) \in Nat /\ Max({a, b}) >= a /\ Max({a, b}) >= b
  OBVIOUS
<1>1. \E x \in {a, b} : \A y \in {a, b} : x >= y
  <2>1. CASE a >= b
    BY <2>1
  <2>2. CASE ~(a >= b)
    BY <2>2
  <2> QED
    BY <2>1, <2>2
<1> QED
  BY <1>1 DEF Max

\* What an insertion makes of the uses.
LEMMA InsertionIsAUse ==
    ASSUME HitsInv, UseInv, NEW k \in Key, NEW v \in Value, Inserted(k, v), now' = now
    PROVE  /\ Uses(use', now)
           /\ use'[k].at = now
           /\ \A j \in Key : /\ j # k => use'[j] = use[j]
                             /\ use[j].at <= use'[j].at
                             /\ use[j].slots <= use'[j].slots
                             /\ use[j].room <= use'[j].room
           /\ use'[k].slots >= 1 /\ use'[k].room >= Size[v]
           /\ k \in DOMAIN entries =>
                use'[k].slots >= 2 /\ use'[k].room >= Size[v] + Size[entries[k].value]
<1> DEFINE room == Max({use[k].room, Room(k, v)})
           slots == Max({use[k].slots, Slots(k)})
<1>1. use \in [Key -> [at : Int, room : Nat, slots : Nat]] /\ now \in Nat /\ Size[v] \in Nat
  BY CacheAssumption DEF UseInv, Uses, HitsInv
<1>2. use' = [use EXCEPT ![k] = [at |-> now, room |-> room, slots |-> slots]]
  BY DEF Inserted
<1>3. k \in DOMAIN entries => Size[entries[k].value] \in Nat
  BY CacheAssumption DEF HitsInv, CacheEntry
<1>4. /\ Room(k, v) \in Nat /\ Room(k, v) >= Size[v]
      /\ k \in DOMAIN entries => Room(k, v) = Size[v] + Size[entries[k].value]
  BY <1>1, <1>3 DEF Room
<1>5. Slots(k) \in Nat /\ Slots(k) >= 1 /\ (k \in DOMAIN entries => Slots(k) = 2)
  BY DEF Slots
<1>6. use[k].room \in Nat /\ use[k].slots \in Nat /\ use[k].at \in Int /\ use[k].at <= now
  BY <1>1 DEF UseInv, Uses
<1>7. room \in Nat /\ room >= use[k].room /\ room >= Room(k, v)
  BY <1>4, <1>6, MaxOfTwo, Zenon
<1>8. slots \in Nat /\ slots >= use[k].slots /\ slots >= Slots(k)
  BY <1>5, <1>6, MaxOfTwo, Zenon
<1> HIDE DEF room, slots
<1>9. use'[k] = [at |-> now, room |-> room, slots |-> slots]
  BY <1>1, <1>2
<1>10. \A j \in Key : j # k => use'[j] = use[j]
  BY <1>1, <1>2
<1>11. use' \in [Key -> [at : Int, room : Nat, slots : Nat]]
  BY <1>1, <1>2, <1>7, <1>8
<1>12. \A j \in Key : use'[j].at <= now
  <2>1. \A j \in Key : use[j].at <= now
    BY DEF UseInv, Uses
  <2>2. use'[k].at <= now
    BY <1>1, <1>9
  <2> QED
    BY <1>10, <2>1, <2>2
<1>13. IsFiniteSet({j \in Key : use'[j].at >= 0})
  <2>1. IsFiniteSet({j \in Key : use[j].at >= 0} \cup {k})
    BY FS_AddElement DEF UseInv, Uses
  <2>2. {j \in Key : use'[j].at >= 0} \subseteq {j \in Key : use[j].at >= 0} \cup {k}
    BY <1>10
  <2> QED
    BY <2>1, <2>2, FS_Subset
<1>14. Uses(use', now)
  BY <1>11, <1>12, <1>13 DEF Uses
<1>15. ASSUME NEW j \in Key
       PROVE  /\ use[j].at <= use'[j].at
              /\ use[j].slots <= use'[j].slots
              /\ use[j].room <= use'[j].room
  <2>1. CASE j = k
    BY <1>6, <1>7, <1>8, <1>9, <2>1
  <2>2. CASE j # k
    <3>1. use[j].at \in Int /\ use[j].slots \in Int /\ use[j].room \in Int
      BY <1>1
    <3> QED
      BY <1>10, <2>2, <3>1
  <2> QED
    BY <2>1, <2>2
<1>16. /\ use'[k].slots >= 1 /\ use'[k].room >= Size[v]
       /\ k \in DOMAIN entries =>
            use'[k].slots >= 2 /\ use'[k].room >= Size[v] + Size[entries[k].value]
  BY <1>1, <1>3, <1>4, <1>5, <1>7, <1>8, <1>9
<1> QED
  BY <1>9, <1>10, <1>14, <1>15, <1>16

\* Entries that go change no use.
LEMMA RemovalKeepsUses ==
    ASSUME UseInv, NEW keys, RemoveAll(keys), UNCHANGED <<now, use>>,
           Forget(keys) \/ UNCHANGED last
    PROVE  UseInv'
<1>1. \A k \in DOMAIN entries' : k \in DOMAIN entries /\ entries'[k] = entries[k]
  BY DEF RemoveAll
<1>2. \A k \in Key : last'[k] # None => last[k] # None
  BY DEF Forget
<1> QED
  BY <1>1, <1>2 DEF UseInv

LEMMA UseInvStep == HitsInv /\ UseInv /\ [Next]_vars => UseInv'
<1> SUFFICES ASSUME HitsInv, UseInv, [Next]_vars PROVE UseInv'
  OBVIOUS
<1>1. ASSUME NEW k \in Key, GetHit(k) PROVE UseInv'
  <2>1. /\ use' = [use EXCEPT ![k].at = now] /\ now' = now /\ last' = last
        /\ entries' = [entries EXCEPT ![k].used = now] /\ k \in DOMAIN entries
    BY <1>1 DEF GetHit, Touch, Used
  <2>2. use \in [Key -> [at : Int, room : Nat, slots : Nat]] /\ now \in Nat
    BY DEF UseInv, Uses, HitsInv
  <2>3. /\ use'[k].at = now /\ use'[k].room = use[k].room /\ use'[k].slots = use[k].slots
        /\ \A j \in Key : j # k => use'[j] = use[j]
        /\ use' \in [Key -> [at : Int, room : Nat, slots : Nat]]
    BY <2>1, <2>2
  <2>4. \A j \in Key : use'[j].at <= now
    <3>1. \A j \in Key : use[j].at <= now
      BY DEF UseInv, Uses
    <3> QED
      BY <2>2, <2>3, <3>1
  <2>5. IsFiniteSet({j \in Key : use'[j].at >= 0})
    <3>1. IsFiniteSet({j \in Key : use[j].at >= 0} \cup {k})
      BY FS_AddElement DEF UseInv, Uses
    <3>2. {j \in Key : use'[j].at >= 0} \subseteq {j \in Key : use[j].at >= 0} \cup {k}
      BY <2>3
    <3> QED
      BY <3>1, <3>2, FS_Subset
  <2>6. Uses(use, now)'
    BY <2>1, <2>3, <2>4, <2>5 DEF Uses
  <2>7. \A j \in Key : last'[j] # None => use'[j].at >= 0
    <3>1. \A j \in Key : last[j] # None => use[j].at >= 0
      BY DEF UseInv
    <3> QED
      BY <2>1, <2>2, <2>3, <3>1
  <2>8. ASSUME NEW j \in DOMAIN entries'
        PROVE  /\ entries'[j].used = use'[j].at
               /\ Size[entries'[j].value] <= use'[j].room
               /\ use'[j].slots >= 1
    <3>1. j \in DOMAIN entries /\ j \in Key
      BY <2>1 DEF HitsInv
    <3>2. /\ entries[j].used = use[j].at
          /\ Size[entries[j].value] <= use[j].room
          /\ use[j].slots >= 1
      BY <3>1 DEF UseInv
    <3>3. entries[j] \in CacheEntry
      BY <3>1 DEF HitsInv
    <3>4. CASE j = k
      <4>1. entries'[k].used = now /\ entries'[k].value = entries[k].value
        BY <2>1, <3>3, <3>4 DEF CacheEntry
      <4> QED
        BY <2>3, <3>2, <3>4, <4>1
    <3>5. CASE j # k
      <4>1. entries'[j] = entries[j]
        BY <2>1, <3>1, <3>5
      <4> QED
        BY <2>3, <3>1, <3>2, <3>5, <4>1
    <3> QED
      BY <3>4, <3>5
  <2> QED
    BY <2>6, <2>7, <2>8 DEF UseInv
<1>2. ASSUME NEW k \in Key, GetExpired(k) PROVE UseInv'
  BY <1>2, RemovalKeepsUses DEF GetExpired
<1>3. ASSUME NEW k \in Key, Invalidate(k) PROVE UseInv'
  BY <1>3, RemovalKeepsUses DEF Invalidate, Forget
<1>4. ASSUME NEW k \in Key, NEW v \in Value, Insert(k, v) PROVE UseInv'
  <2>1. PICK gone \in SUBSET DOMAIN entries :
          entries' = [j \in (DOMAIN entries \ gone) \cup {k} |->
                        IF j = k THEN [value |-> v, born |-> now, used |-> now]
                                 ELSE entries[j]]
    BY <1>4 DEF Insert, Victims
  <2>2. Inserted(k, v) /\ now' = now
    BY <1>4 DEF Insert
  <2>3. /\ Uses(use', now)
        /\ use'[k].at = now
        /\ \A j \in Key : /\ j # k => use'[j] = use[j]
                          /\ use[j].at <= use'[j].at
                          /\ use[j].slots <= use'[j].slots
                          /\ use[j].room <= use'[j].room
        /\ use'[k].slots >= 1 /\ use'[k].room >= Size[v]
    BY <2>2, InsertionIsAUse
  <2>4. \A j \in Key : last'[j] # None => use'[j].at >= 0
    <3>1. \A j \in Key : j # k => last'[j] = last[j]
      BY <2>2 DEF Inserted, HitsInv
    <3>2. \A j \in Key : last[j] # None => use[j].at >= 0
      BY DEF UseInv
    <3>3. now \in Nat
      BY DEF HitsInv
    <3> QED
      BY <2>3, <3>1, <3>2, <3>3
  <2>5. ASSUME NEW j \in DOMAIN entries'
        PROVE  /\ entries'[j].used = use'[j].at
               /\ Size[entries'[j].value] <= use'[j].room
               /\ use'[j].slots >= 1
    <3>1. CASE j = k
      <4>1. entries'[k].used = now /\ entries'[k].value = v
        BY <2>1
      <4>2. Size[v] \in Nat /\ use'[k].room \in Nat
        BY <2>3, CacheAssumption DEF Uses
      <4> QED
        BY <2>3, <3>1, <4>1, <4>2
    <3>2. CASE j # k
      <4>1. j \in DOMAIN entries /\ entries'[j] = entries[j] /\ j \in Key
        BY <2>1, <3>2 DEF HitsInv
      <4> QED
        BY <2>3, <3>2, <4>1 DEF UseInv
    <3> QED
      BY <3>1, <3>2
  <2>6. Uses(use, now)'
    BY <2>2, <2>3
  <2> QED
    BY <2>4, <2>5, <2>6 DEF UseInv
<1>5. ASSUME NEW p, InvalidatePrefix(p) PROVE UseInv'
  BY <1>5, RemovalKeepsUses DEF InvalidatePrefix, Forget
<1>6. CASE Clear
  BY <1>6 DEF Clear, Forget, UseInv
<1>7. CASE Stats
  BY <1>7 DEF Stats, UseInv
<1>8. CASE Tick
  <2>1. use' = use /\ entries' = entries /\ last' = last /\ now' = now + 1 /\ now \in Nat
    BY <1>8 DEF Tick, HitsInv
  <2>2. \A k \in Key : use[k].at \in Int /\ use[k].at <= now
    BY DEF UseInv, Uses
  <2>3. \A k \in Key : use[k].at <= now + 1
    BY <2>1, <2>2
  <2>4. Uses(use, now)'
    BY <2>1, <2>3 DEF UseInv, Uses
  <2> QED
    BY <2>1, <2>4 DEF UseInv
<1>9. CASE UNCHANGED vars
  BY <1>9 DEF vars, UseInv
<1> QED
  BY <1>1, <1>2, <1>3, <1>4, <1>5, <1>6, <1>7, <1>8, <1>9 DEF Next

\* The keys that were there when an insertion took out the last of its victims:
\* none was used before any victim, and with the new result they are too many.
LEMMA VictimsAreCrowded ==
    ASSUME HitsInv, UseInv, HeldInv, NEW k \in Key, NEW v \in Value, Inserted(k, v), now' = now,
           NEW gone \in Victims(Size[v]), NEW g \in gone, g # k, last[g] # None
    PROVE  CrowdedIn(use', g)
<1> DEFINE kept == DOMAIN entries \ gone
           n == SlotsOf(use')
           r == RoomOf(use')
           T == SinceIn(use', g)
<1>1. /\ gone \subseteq DOMAIN entries
      /\ \A j \in gone, i \in kept : entries[j].used <= entries[i].used
  BY DEF Victims
<1>2. PICK h \in gone :
        /\ \A j \in gone : entries[j].used <= entries[h].used
        /\ Pressed(kept \cup {h}, Size[v])
  BY DEF Victims
<1> DEFINE W == kept \cup {h}
<1>3. W \subseteq DOMAIN entries /\ DOMAIN entries \subseteq Key
  BY <1>1 DEF HitsInv
<1>4. \A j \in W : entries[g].used <= entries[j].used
  BY <1>1, <1>2
<1>5. g \in Key /\ g \in DOMAIN entries /\ use[g].at >= 0 /\ use'[g] = use[g]
  BY <1>1, <1>3, InsertionIsAUse DEF UseInv
<1>6. /\ Uses(use', now)
      /\ use'[k].at = now
      /\ \A j \in Key : /\ use[j].at <= use'[j].at
                        /\ use[j].slots <= use'[j].slots
                        /\ use[j].room <= use'[j].room
      /\ use'[k].slots >= 1 /\ use'[k].room >= Size[v]
      /\ k \in DOMAIN entries =>
           use'[k].slots >= 2 /\ use'[k].room >= Size[v] + Size[entries[k].value]
  BY InsertionIsAUse
<1>7. /\ IsFiniteSet(T) /\ T \subseteq Key
      /\ \A j \in T : n[j] = use'[j].slots /\ n[j] \in Nat /\ r[j] = use'[j].room /\ r[j] \in Nat
  BY <1>5, <1>6, SinceFinite
<1>8. W \subseteq T
  <2> SUFFICES ASSUME NEW j \in W PROVE use'[j].at >= use'[g].at /\ j \in Key
    BY DEF SinceIn
  <2>1. j \in Key /\ j \in DOMAIN entries
    BY <1>3
  <2>2. entries[j].used = use[j].at /\ entries[g].used = use[g].at
    BY <1>5, <2>1 DEF UseInv
  <2>3. use[j].at \in Int /\ use'[j].at \in Int /\ use[g].at \in Int
    BY <1>5, <1>6, <2>1 DEF UseInv, Uses
  <2>4. use[g].at <= use[j].at /\ use[j].at <= use'[j].at
    BY <1>4, <1>6, <2>1, <2>2
  <2> QED
    BY <1>5, <2>1, <2>3, <2>4
<1>9. k \in T
  <2>1. use[g].at <= now /\ use[g].at \in Int /\ now \in Int
    BY <1>5 DEF UseInv, Uses, HitsInv
  <2> QED
    BY <1>5, <1>6, <2>1 DEF SinceIn
<1>10. IsFiniteSet(W)
  BY <1>3, FS_Subset DEF HeldInv
<1>11. \A j \in W : /\ entries[j].value \in Value /\ Size[entries[j].value] \in Nat
                    /\ Size[entries[j].value] <= r[j] /\ n[j] >= 1
  <2> SUFFICES ASSUME NEW j \in W
               PROVE  /\ entries[j].value \in Value /\ Size[entries[j].value] \in Nat
                      /\ Size[entries[j].value] <= r[j] /\ n[j] >= 1
    OBVIOUS
  <2>1. j \in Key /\ j \in DOMAIN entries /\ j \in T
    BY <1>3, <1>8
  <2>2. entries[j].value \in Value /\ Size[entries[j].value] \in Nat
    BY <2>1, CacheAssumption DEF HitsInv, CacheEntry
  <2>3. Size[entries[j].value] <= use[j].room /\ use[j].slots >= 1
    BY <2>1 DEF UseInv
  <2>4. /\ use[j].slots <= use'[j].slots /\ use[j].room <= use'[j].room
        /\ use[j].slots \in Nat /\ use[j].room \in Nat
    BY <1>6, <2>1 DEF UseInv, Uses
  <2> QED
    BY <1>7, <2>1, <2>2, <2>3, <2>4
<1>12. /\ n[k] >= 1 /\ (k \in W => n[k] >= 2)
       /\ r[k] >= Size[v] /\ (k \in W => r[k] >= Size[v] + Size[entries[k].value])
  BY <1>3, <1>6, <1>7, <1>9
<1>13. Size[v] \in Nat
  BY CacheAssumption
<1>14. Cardinality(W) >= MaxEntries \/ Cardinality(BytesOf(entries, W)) + Size[v] > MaxMemory
  BY <1>2 DEF Pressed, Held
<1>15. /\ Cardinality(W) \in Nat /\ Cardinality(BytesOf(entries, W)) \in Nat
       /\ Cardinality(Pieces(n, T)) \in Nat /\ Cardinality(Pieces(r, T)) \in Nat
  BY <1>7, <1>10, <1>11, BytesFinite, PiecesFinite, FS_CardinalityType
<1> HIDE DEF n, r, T, W
<1>16. Cardinality(Pieces(n, T)) >= Cardinality(W) + 1
  BY <1>7, <1>8, <1>9, <1>10, <1>11, <1>12, OneSlotMore
<1>17. Cardinality(Pieces(r, T)) >= Cardinality(BytesOf(entries, W)) + Size[v]
  BY <1>7, <1>8, <1>9, <1>10, <1>11, <1>12, <1>13, RoomForBoth
<1>18. Cardinality(Pieces(n, T)) > MaxEntries \/ Cardinality(Pieces(r, T)) > MaxMemory
  BY <1>13, <1>14, <1>15, <1>16, <1>17, CacheAssumption
<1> QED
  BY <1>18 DEF CrowdedIn, n, r, T

\* The uses of the next state only add to what crowds a key that is not used.
LEMMA CrowdedStays ==
    ASSUME UseInv, UseInv', NEW k \in Key, last[k] # None, Crowded(k),
           use'[k].at = use[k].at,
           \A j \in Key : /\ use[j].at <= use'[j].at
                          /\ use[j].slots <= use'[j].slots
                          /\ use[j].room <= use'[j].room
    PROVE  Crowded(k)'
<1>1. Uses(use, now) /\ Uses(use', now') /\ use[k].at >= 0
  BY DEF UseInv
<1>2. CrowdedIn(use, k)
  BY CrowdedNow
<1>3. CrowdedIn(use', k)
  BY <1>1, <1>2, CrowdsGrow
<1> QED
  BY <1>3, CrowdedNext

LEMMA StayStep ==
    HitsInv /\ UseInv /\ HeldInv /\ RecentlyUsedStay /\ UseInv' /\ [Next]_vars => RecentlyUsedStay'
<1> SUFFICES ASSUME HitsInv, UseInv, UseInv', HeldInv, RecentlyUsedStay, [Next]_vars,
                    NEW g \in Key, Lasting(g)', g \notin DOMAIN entries'
             PROVE  Crowded(g)'
  BY DEF RecentlyUsedStay
<1>1. \A j \in Key : use[j].at \in Int /\ use[j].room \in Int /\ use[j].slots \in Int
  BY DEF UseInv, Uses
<1>2. Lasting(g) => g \in DOMAIN entries \/ Crowded(g)
  BY DEF RecentlyUsedStay
\* Steps that use nothing and forget at most.
<1>3. ASSUME use' = use, last'[g] # None => last'[g] = last[g], now' >= now, now' \in Int,
             Lasting(g) => g \notin DOMAIN entries
      PROVE  Crowded(g)'
  <2>1. last[g] # None /\ last[g].at \in Int /\ last'[g] = last[g]
    BY <1>3, CacheAssumption DEF Lasting, HitsInv, Insertion
  <2>2. now \in Int /\ Ttl \in Int
    BY CacheAssumption DEF HitsInv
  <2>3. Lasting(g)
    BY <1>3, <2>1, <2>2 DEF Lasting
  <2>4. Crowded(g)
    BY <1>2, <1>3, <2>3
  <2>5. \A j \in Key : /\ use[j].at <= use'[j].at
                       /\ use[j].slots <= use'[j].slots
                       /\ use[j].room <= use'[j].room
    BY <1>1, <1>3
  <2> QED
    BY <1>3, <2>1, <2>4, <2>5, CrowdedStays
<1>4. now \in Nat /\ Ttl \in Nat
  BY CacheAssumption DEF HitsInv
<1>5. ASSUME NEW k \in Key, GetHit(k) PROVE Crowded(g)'
  <2>1. /\ use' = [use EXCEPT ![k].at = now] /\ now' = now /\ last' = last
        /\ DOMAIN entries' = DOMAIN entries /\ k \in DOMAIN entries
    BY <1>5 DEF GetHit, Touch, Used
  <2>2. Lasting(g) /\ g # k /\ last[g] # None
    BY <2>1 DEF Lasting
  <2>3. \A j \in Key : /\ j # k => use'[j] = use[j]
                       /\ use'[j].room = use[j].room /\ use'[j].slots = use[j].slots
                       /\ use[j].at <= use'[j].at
    <3>1. use \in [Key -> [at : Int, room : Nat, slots : Nat]] /\ use[k].at <= now
      BY DEF UseInv, Uses
    <3> QED
      BY <1>1, <1>4, <2>1, <3>1
  <2>4. Crowded(g)
    BY <1>2, <2>1, <2>2
  <2>5. /\ use'[g].at = use[g].at
        /\ \A j \in Key : /\ use[j].at <= use'[j].at
                          /\ use[j].slots <= use'[j].slots
                          /\ use[j].room <= use'[j].room
    BY <1>1, <2>2, <2>3
  <2> QED
    BY <2>2, <2>4, <2>5, CrowdedStays
<1>6. ASSUME NEW k \in Key, GetExpired(k) PROVE Crowded(g)'
  <2>1. /\ use' = use /\ last' = last /\ now' = now
        /\ DOMAIN entries' = DOMAIN entries \ {k}
        /\ k \in DOMAIN entries /\ Expired(entries[k])
    BY <1>6 DEF GetExpired, RemoveAll
  <2>2. ~Lasting(k)
    <3>1. last[k] = [value |-> entries[k].value, at |-> entries[k].born] /\ entries[k].born \in Nat
      BY <2>1 DEF HitsInv, CacheEntry
    <3>2. last[k].at = entries[k].born
      BY <3>1
    <3> QED
      BY <1>4, <2>1, <3>1, <3>2 DEF Lasting, Expired
  <2>3. Lasting(g) => g \notin DOMAIN entries
    BY <2>1, <2>2
  <2> QED
    BY <1>3, <1>4, <2>1, <2>3
<1>7. ASSUME NEW keys, RemoveAll(keys), Forget(keys), UNCHANGED now PROVE Crowded(g)'
  <2>1. DOMAIN entries' = DOMAIN entries \ keys
    BY <1>7 DEF RemoveAll
  <2>2. use' = use /\ last'[g] = IF g \in keys THEN None ELSE last[g]
    BY <1>7 DEF Forget
  <2>3. g \notin keys
    BY <2>2 DEF Lasting
  <2> QED
    BY <1>3, <1>4, <1>7, <2>1, <2>2, <2>3
<1>8. ASSUME NEW k \in Key, NEW v \in Value, Insert(k, v) PROVE Crowded(g)'
  <2>1. PICK gone \in Victims(Size[v]) : DOMAIN entries' = (DOMAIN entries \ gone) \cup {k}
    BY <1>8 DEF Insert
  <2>2. Inserted(k, v) /\ now' = now
    BY <1>8 DEF Insert
  <2>3. g # k /\ (g \in gone \/ g \notin DOMAIN entries)
    BY <2>1
  <2>4. last'[g] = last[g] /\ last[g] # None
    BY <2>2, <2>3 DEF Inserted, HitsInv, Lasting
  <2>5. /\ use'[g] = use[g]
        /\ \A j \in Key : /\ use[j].at <= use'[j].at
                          /\ use[j].slots <= use'[j].slots
                          /\ use[j].room <= use'[j].room
    BY <2>2, <2>3, InsertionIsAUse
  <2>6. CASE g \in gone
    <3>1. CrowdedIn(use', g)
      BY <2>2, <2>3, <2>4, <2>6, VictimsAreCrowded
    <3> QED
      BY <3>1, CrowdedNext
  <2>7. CASE g \notin DOMAIN entries
    <3>1. Lasting(g)
      BY <2>2, <2>4 DEF Lasting
    <3>2. Crowded(g)
      BY <1>2, <2>7, <3>1
    <3> QED
      BY <2>4, <2>5, <3>2, CrowdedStays
  <2> QED
    BY <2>3, <2>6, <2>7
<1>9. ASSUME NEW k \in Key, Invalidate(k) PROVE Crowded(g)'
  BY <1>7, <1>9 DEF Invalidate
<1>10. ASSUME NEW p, InvalidatePrefix(p) PROVE Crowded(g)'
  BY <1>7, <1>10 DEF InvalidatePrefix
<1>11. CASE Clear
  BY <1>11 DEF Clear, Forget, Lasting
<1>12. CASE Stats
  BY <1>3, <1>4, <1>12 DEF Stats
<1>13. CASE Tick
  BY <1>3, <1>4, <1>13 DEF Tick
<1>14. CASE UNCHANGED vars
  BY <1>3, <1>4, <1>14 DEF vars
<1> QED
  BY <1>5, <1>6, <1>8, <1>9, <1>10, <1>11, <1>12, <1>13, <1>14 DEF Next

\* A result that is neither invalidated nor too old is missing only if what was
\* used since its own last use is more than the cache can hold (get, insert,
\* evict_lru).
THEOREM RecentResultsStay == Spec => []RecentlyUsedStay
<1>1. Init => UseInv
  <2> SUFFICES ASSUME Init PROVE UseInv
    OBVIOUS
  <2>1. {k \in Key : use[k].at >= 0} = {}
    BY DEF Init, Unused
  <2>2. use \in [Key -> [at : Int, room : Nat, slots : Nat]] /\ \A k \in Key : use[k].at <= now
    BY DEF Init, Unused
  <2>3. Uses(use, now)
    BY <2>1, <2>2, FS_EmptySet DEF Uses
  <2> QED
    BY <2>3 DEF Init, UseInv
<1>2. Init => RecentlyUsedStay
  BY DEF Init, RecentlyUsedStay, Lasting
<1> QED
  BY <1>1, <1>2, HitsInvInit, HitsInvStep, HeldInvInit, HeldInvStep, UseInvStep, StayStep, PTL DEF Spec

-----------------------------------------------------------------------------
(* Query: the filter a row must pass says what the conditions that reached  *)
(* the query say, and truncation only shortens the answer.                  *)

LEMMA NotAComparison ==
  ASSUME NEW c \in Comparisons
  PROVE  c # NoFilter /\ c # Never /\ "left" \notin DOMAIN c
<1>1. DOMAIN c = {"field", "cmp", "type", "n"}
  BY DEF Comparisons
<1>2. DOMAIN NoFilter = {"op"} /\ DOMAIN Never = {"op"}
  BY DEF NoFilter, Never
<1>3. "field" \in DOMAIN c /\ "field" \notin {"op"}
  BY <1>1
<1> QED
  BY <1>1, <1>2, <1>3

LEMMA NoFilterIsNotNever == NoFilter # Never
<1>1. NoFilter.op # Never.op
  BY DEF NoFilter, Never
<1> QED
  BY <1>1

\* What no row without a field "time" passes: a filter that names something in
\* vain, or a time.
IsBlock(leaf) ==
  leaf = Never \/ (leaf \in Comparisons /\ leaf.field = "time" /\ leaf.cmp # "!=")

LEMMA BlockPasses ==
  ASSUME NEW leaf, IsBlock(leaf), NEW row, "time" \notin DOMAIN row.fields
  PROVE  ~Passes(leaf, row)
BY DEF IsBlock, Passes

LEMMA BlockIsAFilter ==
  ASSUME NEW leaf, IsBlock(leaf)
  PROVE  leaf # NoFilter
BY NotAComparison, NoFilterIsNotNever DEF IsBlock

\* Only what is compared with a time may be relative to now().
LEMMA VagueIsUnparsable ==
  ASSUME NEW c \in Comparisons, IsNow(c), c.type # "now"
  PROVE  Unparsable(c)
BY DEF Comparisons, IsNow, Unparsable, Types

\* A text that begins with a time becomes a filter on the field "time" or none, and
\* then some comparison of it cannot be parsed.
LEMMA TimeFilter ==
  ASSUME NEW atoms \in Seq(Comparisons), atoms # <<>>, atoms[1].field \in TimeNames
  PROVE  LET leaf == ParseTime(atoms)
         IN  \/ leaf = NoFilter /\ \E i \in DOMAIN atoms : Unparsable(atoms[i])
             \/ IsBlock(leaf)
<1> DEFINE nows == {i \in DOMAIN atoms : IsNow(atoms[i])}
<1>1. 1 \in DOMAIN atoms /\ \A i \in DOMAIN atoms : atoms[i] \in Comparisons /\ i \in Nat
  OBVIOUS
<1>2. CASE nows = {}
  <2>1. ParseTime(atoms) = NoFilter
    BY <1>2 DEF ParseTime
  <2>2. Unparsable(atoms[1])
    BY <1>1, <1>2 DEF Unparsable, IsNow
  <2> QED
    BY <1>1, <2>1, <2>2
<1>3. CASE nows # {}
  <2> DEFINE first == Least(nows)
  <2>1. first \in nows
    <3>1. nows \subseteq Nat
      BY <1>1
    <3> HIDE DEF nows
    <3> QED
      BY <1>3, <3>1, LeastExists DEF Least
  <2>2. FirstNow(atoms) = atoms[first]
    BY DEF FirstNow
  <2> HIDE DEF first
  <2>3. first \in DOMAIN atoms /\ IsNow(atoms[first]) /\ atoms[first] \in Comparisons
    BY <1>1, <2>1
  <2>4. CASE atoms[first].type = "now"
    <3> DEFINE leaf == [field |-> "time", cmp |-> TimeComparator(atoms), type |-> "int", n |-> FirstNow(atoms).n]
    <3>1. ParseTime(atoms) = leaf
      BY <2>2, <2>3, <2>4 DEF ParseTime
    <3>2. TimeComparator(atoms) \in Comparators \ {"!="}
      BY DEF TimeComparator, Comparators
    <3>3. FirstNow(atoms).n \in Int
      BY <2>2, <2>3 DEF Comparisons
    <3>4. "time" \in STRING /\ "int" \in Types \ {"uint"}
      BY QueryAssumption DEF Types
    <3>5. leaf \in Comparisons /\ leaf.field = "time" /\ leaf.cmp # "!="
      BY <3>2, <3>3, <3>4 DEF Comparisons
    <3> QED
      BY <3>1, <3>5 DEF IsBlock
  <2>5. CASE atoms[first].type # "now"
    <3>1. ParseTime(atoms) = NoFilter
      BY <2>2, <2>5 DEF ParseTime
    <3> QED
      BY <2>3, <2>5, <3>1, VagueIsUnparsable
  <2> QED
    BY <2>4, <2>5
<1> QED
  BY <1>2, <1>3

\* A comparison that is looked at as it stands.
Plain(leaf) ==
  leaf \in Comparisons /\ leaf.type \in Types /\ leaf.field # "time" /\ leaf.cmp # "!="

LEMMA SimpleIsPlain ==
  ASSUME NEW c \in Comparisons, c.field \notin TimeNames, c.cmp # "!="
  PROVE  Plain(c)
BY QueryAssumption DEF Plain, Comparisons

\* A text of comparisons becomes no filter, if one of them cannot be parsed; one
\* that no row passes; or the one comparison it consists of.
LEMMA SingleFilter ==
  ASSUME NEW atoms \in Seq(Comparisons), atoms # <<>>, NEW spoilt \in BOOLEAN
  PROVE  LET leaf == ParseSingle(atoms, spoilt)
         IN  \/ leaf = NoFilter /\ \E i \in DOMAIN atoms : Unparsable(atoms[i])
             \/ IsBlock(leaf)
             \/ leaf = atoms[1] /\ Plain(leaf) /\ Len(atoms) = 1 /\ ~spoilt
<1> DEFINE atom == Head(atoms)
<1>1. atom = atoms[1] /\ 1 \in DOMAIN atoms /\ atom \in Comparisons /\ Len(atoms) \in Nat /\ Len(atoms) # 0
  OBVIOUS
<1>2. CASE atom.field \in TimeNames
  <2>1. ParseSingle(atoms, spoilt) = ParseTime(atoms)
    BY <1>2 DEF ParseSingle
  <2> QED
    BY <1>1, <1>2, <2>1, TimeFilter
<1>3. CASE atom.field \notin TimeNames
  <2>1. CASE Len(atoms) > 1 \/ spoilt \/ atom.cmp = "!="
    <3>1. ParseSingle(atoms, spoilt) = Never
      BY <1>3, <2>1 DEF ParseSingle
    <3> QED
      BY <3>1 DEF IsBlock
  <2>2. CASE ~(Len(atoms) > 1 \/ spoilt \/ atom.cmp = "!=")
    <3>1. ParseSingle(atoms, spoilt) = atom
      BY <1>3, <2>2 DEF ParseSingle
    <3>2. Len(atoms) = 1 /\ ~spoilt /\ atom.cmp # "!="
      BY <1>1, <2>2
    <3> HIDE DEF atom
    <3>3. Plain(atom)
      BY <1>1, <1>3, <3>2, SimpleIsPlain
    <3> QED
      BY <1>1, <3>1, <3>2, <3>3
  <2> QED
    BY <2>1, <2>2
<1> QED
  BY <1>2, <1>3

\* A simple text becomes the comparison it consists of.
LEMMA SimpleFilter ==
  ASSUME NEW atoms \in Seq(Comparisons), Len(atoms) = 1,
         atoms[1].field \notin TimeNames, atoms[1].cmp # "!="
  PROVE  ParseSingle(atoms, FALSE) = atoms[1]
<1>1. Head(atoms) = atoms[1]
  OBVIOUS
<1> QED
  BY <1>1 DEF ParseSingle

\* A comparison of a field lets through what it says, unless it is "!=".
LEMMA PassesIsSays ==
  ASSUME NEW leaf, Plain(leaf), NEW row
  PROVE  Passes(leaf, row) <=> Says(leaf, row)
<1>1. leaf # Never
  BY NotAComparison DEF Plain
<1>2. ~IsNow(leaf)
  BY DEF Plain, IsNow, Types
<1> QED
  BY <1>1, <1>2 DEF Passes, Says, Plain

LEMMA NeverPasses ==
  ASSUME NEW row
  PROVE  ~Passes(Never, row)
BY DEF Passes

\* What a filter of each form lets through.
LEMMA EvaluateForms ==
  ASSUME NEW row
  PROVE  /\ ~Evaluate(Never, row)
         /\ \A leaf \in Comparisons : Evaluate(leaf, row) <=> Passes(leaf, row)
         /\ \A op, left, right :
              Evaluate([op |-> op, left |-> left, right |-> right], row) <=>
                IF op = "and" THEN Passes(left, row) /\ Passes(right, row)
                ELSE Passes(left, row) \/ Passes(right, row)
<1>1. ~Evaluate(Never, row)
  <2>1. Evaluate(Never, row) = Passes(Never, row)
    BY NoFilterIsNotNever DEF Evaluate
  <2> QED
    BY <2>1, NeverPasses
<1>2. ASSUME NEW leaf \in Comparisons PROVE Evaluate(leaf, row) <=> Passes(leaf, row)
  <2>1. leaf # NoFilter /\ leaf # Never /\ "left" \notin DOMAIN leaf
    BY NotAComparison
  <2> QED
    BY <2>1 DEF Evaluate
<1>3. ASSUME NEW op, NEW left, NEW right
      PROVE  Evaluate([op |-> op, left |-> left, right |-> right], row) <=>
               IF op = "and" THEN Passes(left, row) /\ Passes(right, row)
               ELSE Passes(left, row) \/ Passes(right, row)
  <2> DEFINE filter == [op |-> op, left |-> left, right |-> right]
  <2>1. "left" \in DOMAIN filter /\ filter.op = op /\ filter.left = left /\ filter.right = right
    OBVIOUS
  <2>2. filter # NoFilter /\ filter # Never
    <3>1. "left" \notin DOMAIN NoFilter /\ "left" \notin DOMAIN Never
      BY DEF NoFilter, Never
    <3> QED
      BY <2>1, <3>1
  <2> HIDE DEF filter
  <2>3. Evaluate(filter, row) <=>
          IF filter.op = "and" THEN Passes(filter.left, row) /\ Passes(filter.right, row)
          ELSE Passes(filter.left, row) \/ Passes(filter.right, row)
    BY <2>1, <2>2 DEF Evaluate
  <2> QED
    BY <2>1, <2>3 DEF filter
<1> QED
  BY <1>1, <1>2, <1>3

\* Where a condition is split in two.
LEMMA JoinFacts ==
  ASSUME NEW cond, IsCondition(cond), cond.joins # <<>>
  PROVE  /\ JoinAt(cond) \in 1..(Len(cond.atoms) - 1)
         /\ cond.joins[JoinAt(cond)] \in {"and", "or"}
<1> DEFINE ands == {i \in DOMAIN cond.joins : cond.joins[i] = "and"}
           found == IF ands # {} THEN ands ELSE DOMAIN cond.joins
<1>1. /\ cond.joins \in Seq({"and", "or"}) /\ Len(cond.joins) = Len(cond.atoms) - 1
      /\ Len(cond.joins) \in Nat /\ DOMAIN cond.joins = 1..Len(cond.joins)
  BY DEF IsCondition
<1>2. found # {} /\ found \subseteq Nat /\ found \subseteq DOMAIN cond.joins
  BY <1>1
<1>3. \E i \in found : \A j \in found : i <= j
  <2> HIDE DEF found
  <2> QED
    BY <1>2, LeastExists
<1>4. JoinAt(cond) \in found
  <2>1. JoinAt(cond) = CHOOSE i \in found : \A j \in found : i <= j
    BY DEF JoinAt
  <2> HIDE DEF found
  <2> QED
    BY <1>3, <2>1
<1> QED
  BY <1>1, <1>2, <1>4

\* A condition of one comparison, and one of two.
LEMMA MeansOne ==
  ASSUME NEW cond, IsCondition(cond), NEW row, Len(cond.atoms) = 1
  PROVE  Means(cond, row) <=> Says(cond.atoms[1], row)
<1>1. {1} \cup {i \in 2..1 : cond.joins[i - 1] = "or"} = {1}
      /\ {1} \cup {i \in 1..(1 - 1) : cond.joins[i] = "or"} = {1}
  OBVIOUS
<1> QED
  BY <1>1 DEF Means

LEMMA MeansTwo ==
  ASSUME NEW cond, IsCondition(cond), NEW row, Len(cond.atoms) = 2
  PROVE  Means(cond, row) <=>
           IF cond.joins[1] = "and" THEN Says(cond.atoms[1], row) /\ Says(cond.atoms[2], row)
           ELSE Says(cond.atoms[1], row) \/ Says(cond.atoms[2], row)
<1>1. cond.joins[1] \in {"and", "or"}
  <2>1. cond.joins \in Seq({"and", "or"}) /\ Len(cond.joins) = 1
    BY DEF IsCondition
  <2> QED
    BY <2>1
<1>2. CASE cond.joins[1] = "and"
  <2>1. {1} \cup {i \in 2..2 : cond.joins[i - 1] = "or"} = {1}
        /\ {2} \cup {i \in 1..(2 - 1) : cond.joins[i] = "or"} = {2}
    BY <1>2
  <2>2. Means(cond, row) <=> /\ \A k \in 1..(2 - 1) : cond.joins[k] = "and"
                             /\ \A k \in 1..2 : Says(cond.atoms[k], row)
    BY <2>1 DEF Means
  <2>3. 1..2 = {1, 2} /\ 1..(2 - 1) = {1}
    OBVIOUS
  <2> QED
    BY <1>2, <2>2, <2>3
<1>3. CASE cond.joins[1] = "or"
  <2>1. {1} \cup {i \in 2..2 : cond.joins[i - 1] = "or"} = {1, 2}
        /\ {2} \cup {i \in 1..(2 - 1) : cond.joins[i] = "or"} = {1, 2}
    BY <1>3
  <2>2. Means(cond, row) <=>
          \E i \in {1, 2}, j \in {1, 2} :
            /\ i <= j
            /\ \A k \in i..(j - 1) : cond.joins[k] = "and"
            /\ \A k \in i..j : Says(cond.atoms[k], row)
    BY <2>1 DEF Means
  <2>3. 1..(1 - 1) = {} /\ 2..(2 - 1) = {} /\ 1 \in 1..(2 - 1) /\ 1..1 = {1} /\ 2..2 = {2}
    OBVIOUS
  <2>4. Says(cond.atoms[1], row) => Means(cond, row)
    BY <2>2, <2>3
  <2>5. Says(cond.atoms[2], row) => Means(cond, row)
    BY <2>2, <2>3
  <2>6. Means(cond, row) => Says(cond.atoms[1], row) \/ Says(cond.atoms[2], row)
    BY <2>2, <2>3
  <2> QED
    BY <1>3, <2>4, <2>5, <2>6
<1> QED
  BY <1>1, <1>2, <1>3

\* The first comparison of an "or", and the last one behind an "or".
LEMMA MeansFirst ==
  ASSUME NEW cond, IsCondition(cond), NEW row, Len(cond.atoms) > 1,
         cond.joins[1] = "or", Says(cond.atoms[1], row)
  PROVE  Means(cond, row)
<1> DEFINE n == Len(cond.atoms)
<1>1. n \in Nat
  BY DEF IsCondition
<1>2. /\ 1 \in {1} \cup {i \in 2..n : cond.joins[i - 1] = "or"}
      /\ 1 \in {n} \cup {i \in 1..(n - 1) : cond.joins[i] = "or"}
      /\ \A k \in 1..(1 - 1) : cond.joins[k] = "and"
      /\ \A k \in 1..1 : Says(cond.atoms[k], row)
  BY <1>1
<1> QED
  BY <1>2 DEF Means

LEMMA MeansLast ==
  ASSUME NEW cond, IsCondition(cond), NEW row, Len(cond.atoms) > 1,
         cond.joins[Len(cond.atoms) - 1] = "or", Says(cond.atoms[Len(cond.atoms)], row)
  PROVE  Means(cond, row)
<1> DEFINE n == Len(cond.atoms)
<1>1. n \in Nat
  BY DEF IsCondition
<1>2. /\ n \in {1} \cup {i \in 2..n : cond.joins[i - 1] = "or"}
      /\ n \in {n} \cup {i \in 1..(n - 1) : cond.joins[i] = "or"}
      /\ \A k \in n..(n - 1) : cond.joins[k] = "and"
      /\ \A k \in n..n : Says(cond.atoms[k], row)
      /\ n <= n
  BY <1>1
<1> QED
  BY <1>2 DEF Means

\* A filter that is not left out lets through only rows that meet the condition.
LEMMA FilterIsSound ==
  ASSUME NEW cond, IsCondition(cond), NEW spoilt \in BOOLEAN, NEW row,
         Evaluate(ParseCondition(cond, spoilt), row), "time" \notin DOMAIN row.fields,
         ~\E i \in DOMAIN cond.atoms : Unparsable(cond.atoms[i])
  PROVE  Means(cond, row)
<1> DEFINE n == Len(cond.atoms)
<1>1. /\ cond.atoms \in Seq(Comparisons) /\ cond.atoms # <<>>
      /\ n \in Nat /\ n # 0 /\ DOMAIN cond.atoms = 1..n
      /\ cond.joins \in Seq({"and", "or"}) /\ Len(cond.joins) = n - 1
  BY DEF IsCondition
<1>2. CASE cond.joins = <<>>
  <2> DEFINE filter == ParseSingle(cond.atoms, spoilt)
  <2>1. n = 1 /\ ParseCondition(cond, spoilt) = filter
    BY <1>1, <1>2 DEF ParseCondition
  <2>2. IsBlock(filter) \/ (filter = cond.atoms[1] /\ Plain(filter))
    BY <1>1, SingleFilter
  <2> HIDE DEF filter
  <2>3. Passes(filter, row)
    BY <2>1, <2>2, EvaluateForms DEF IsBlock, Plain
  <2>4. Says(cond.atoms[1], row)
    BY <2>2, <2>3, BlockPasses, PassesIsSays
  <2> QED
    BY <2>1, <2>4, MeansOne
<1>3. CASE cond.joins # <<>>
  <2> DEFINE i == JoinAt(cond)
             before == SubSeq(cond.atoms, 1, i)
             behind == SubSeq(cond.atoms, i + 1, n)
             left == ParseSingle(before, FALSE)
             right == ParseSingle(behind, spoilt)
  <2>1. i \in 1..(n - 1) /\ cond.joins[i] \in {"and", "or"}
    BY <1>3, JoinFacts
  <2>2. ParseCondition(cond, spoilt) = IF NoFilter \in {left, right} THEN NoFilter
                                       ELSE [op |-> cond.joins[i], left |-> left, right |-> right]
    BY <1>3 DEF ParseCondition
  <2> HIDE DEF i, left, right
  <2>3. /\ before \in Seq(Comparisons) /\ Len(before) = i /\ DOMAIN before = 1..i
        /\ \A k \in 1..i : before[k] = cond.atoms[k]
    BY <1>1, <2>1
  <2>4. /\ behind \in Seq(Comparisons) /\ Len(behind) = n - i /\ DOMAIN behind = 1..(n - i)
        /\ \A k \in 1..(n - i) : behind[k] = cond.atoms[i + k] /\ i + k \in 1..n
    <3>1. i \in Nat /\ i + 1 \in Nat /\ 1 <= i + 1 /\ i + 1 <= n + 1 /\ n <= n
      BY <1>1, <2>1
    <3>2. /\ behind \in Seq(Comparisons) /\ Len(behind) = n - (i + 1) + 1
          /\ DOMAIN behind = 1..(n - (i + 1) + 1)
          /\ \A k \in 1..(n - (i + 1) + 1) :
               behind[k] = cond.atoms[i + 1 + k - 1] /\ i + 1 + k - 1 \in 1..n
      <4> HIDE DEF behind
      <4> QED
        BY <1>1, <3>1, SubSeqFacts DEF behind
    <3>3. n - (i + 1) + 1 = n - i /\ \A k \in 1..(n - i) : i + 1 + k - 1 = i + k
      BY <1>1, <3>1
    <3> HIDE DEF behind
    <3> QED
      BY <3>2, <3>3
  <2>5. /\ before # <<>> /\ behind # <<>>
        /\ \A k \in 1..i : k \in DOMAIN cond.atoms
        /\ \A k \in 1..(n - i) : i + k \in DOMAIN cond.atoms
    <3>1. Len(<<>>) = 0 /\ i # 0 /\ n - i # 0
      BY <1>1, <2>1
    <3>2. \A k \in 1..i : k \in 1..n
      BY <1>1, <2>1
    <3> HIDE DEF before, behind
    <3> QED
      BY <1>1, <2>3, <2>4, <3>1, <3>2
  <2> HIDE DEF before, behind
  <2>6. IsBlock(left) \/ (left = cond.atoms[1] /\ Plain(left) /\ i = 1)
    <3>1. ~\E k \in DOMAIN before : Unparsable(before[k])
      BY <2>3, <2>5
    <3>2. IsBlock(left) \/ (left = before[1] /\ Plain(left) /\ Len(before) = 1)
      BY <2>3, <2>5, <3>1, SingleFilter DEF left
    <3> QED
      BY <2>1, <2>3, <3>2
  <2>7. IsBlock(right) \/ (right = cond.atoms[n] /\ Plain(right) /\ n = i + 1)
    <3>1. ~\E k \in DOMAIN behind : Unparsable(behind[k])
      BY <2>4, <2>5
    <3>2. IsBlock(right) \/ (right = behind[1] /\ Plain(right) /\ Len(behind) = 1)
      BY <2>4, <2>5, <3>1, SingleFilter DEF right
    <3> QED
      BY <1>1, <2>1, <2>4, <3>2
  <2>8. NoFilter \notin {left, right}
    BY <2>6, <2>7, NotAComparison, BlockIsAFilter DEF Plain
  <2>9. IF cond.joins[i] = "and" THEN Passes(left, row) /\ Passes(right, row)
        ELSE Passes(left, row) \/ Passes(right, row)
    BY <2>2, <2>8, EvaluateForms
  <2>10. Passes(left, row) => i = 1 /\ Says(cond.atoms[1], row)
    BY <2>6, BlockPasses, PassesIsSays
  <2>11. Passes(right, row) => n = i + 1 /\ Says(cond.atoms[n], row)
    BY <2>7, BlockPasses, PassesIsSays
  <2>12. CASE cond.joins[i] = "and"
    <3>1. i = 1 /\ n = 2 /\ Says(cond.atoms[1], row) /\ Says(cond.atoms[2], row)
      BY <2>9, <2>10, <2>11, <2>12
    <3> QED
      BY <2>12, <3>1, MeansTwo
  <2>13. CASE cond.joins[i] = "or"
    <3>1. n > 1 /\ i = n - 1 <=> n = i + 1
      BY <1>1, <2>1
    <3>2. n > 1
      BY <1>1, <2>1
    <3>3. CASE Passes(left, row)
      BY <2>10, <2>13, <3>2, <3>3, MeansFirst
    <3>4. CASE Passes(right, row)
      <4>1. cond.joins[n - 1] = "or" /\ Says(cond.atoms[n], row)
        BY <1>1, <2>1, <2>11, <2>13, <3>4
      <4> QED
        BY <3>2, <4>1, MeansLast
    <3> QED
      BY <2>9, <2>13, <3>3, <3>4
  <2> QED
    BY <2>1, <2>12, <2>13
<1> QED
  BY <1>2, <1>3

\* A simple condition with nothing behind it becomes what it means.
LEMMA FilterIsExact ==
  ASSUME NEW cond, IsCondition(cond), Simple(cond), NEW row
  PROVE  Evaluate(ParseCondition(cond, FALSE), row) <=> Means(cond, row)
<1> DEFINE n == Len(cond.atoms)
           a == cond.atoms[1]
           b == cond.atoms[2]
<1>1. /\ cond.atoms \in Seq(Comparisons) /\ n \in {1, 2} /\ DOMAIN cond.atoms = 1..n
      /\ cond.joins \in Seq({"and", "or"}) /\ Len(cond.joins) = n - 1
  <2>1. /\ cond.atoms \in Seq(Comparisons) /\ cond.atoms # <<>> /\ n \in Nat
        /\ cond.joins \in Seq({"and", "or"}) /\ Len(cond.joins) = n - 1 /\ n <= 2
    BY DEF IsCondition, Simple
  <2>2. n # 0 /\ DOMAIN cond.atoms = 1..n
    BY <2>1
  <2>3. n \in {1, 2}
    <3> HIDE DEF n
    <3> QED
      BY <2>1, <2>2
  <2> QED
    BY <2>1, <2>2, <2>3
<1>2. a.field \notin TimeNames /\ a.cmp # "!=" /\ Plain(a)
  <2>1. a \in Comparisons /\ a.field \notin TimeNames /\ a.cmp # "!="
    BY <1>1 DEF Simple
  <2> QED
    BY <2>1, SimpleIsPlain
<1>3. CASE n = 1
  <2>1. cond.joins = <<>>
    BY <1>1, <1>3
  <2>2. ParseCondition(cond, FALSE) = a
    BY <1>1, <1>2, <1>3, <2>1, SimpleFilter DEF ParseCondition
  <2>3. Evaluate(a, row) <=> Says(a, row)
    BY <1>2, EvaluateForms, PassesIsSays DEF Plain
  <2> QED
    BY <1>3, <2>2, <2>3, MeansOne
<1>4. CASE n = 2
  <2>1. cond.joins # <<>>
    <3>1. Len(cond.joins) = 1 /\ Len(<<>>) = 0
      BY <1>1, <1>4
    <3> QED
      BY <3>1
  <2>2. JoinAt(cond) = 1
    <3>1. JoinAt(cond) \in 1..(2 - 1)
      BY <1>4, <2>1, JoinFacts
    <3> QED
      BY <3>1
  <2>3. b.field \notin TimeNames /\ b.cmp # "!=" /\ Plain(b)
    <3>1. b \in Comparisons /\ b.field \notin TimeNames /\ b.cmp # "!="
      BY <1>1, <1>4 DEF Simple
    <3> QED
      BY <3>1, SimpleIsPlain
  <2> DEFINE before == SubSeq(cond.atoms, 1, 1)
             behind == SubSeq(cond.atoms, 1 + 1, n)
  <2>4. before \in Seq(Comparisons) /\ Len(before) = 1 /\ before[1] = a
    BY <1>1, <1>4
  <2>5. behind \in Seq(Comparisons) /\ Len(behind) = 1 /\ behind[1] = b
    BY <1>1, <1>4
  <2> HIDE DEF before, behind, a, b
  <2>6. ParseSingle(before, FALSE) = a /\ ParseSingle(behind, FALSE) = b
    BY <1>2, <2>3, <2>4, <2>5, SimpleFilter
  <2>7. NoFilter \notin {a, b}
    BY <1>2, <2>3, NotAComparison DEF Plain
  <2>8. ParseCondition(cond, FALSE) = [op |-> cond.joins[1], left |-> a, right |-> b]
    BY <2>1, <2>2, <2>6, <2>7 DEF ParseCondition, before, behind
  <2>9. Evaluate(ParseCondition(cond, FALSE), row) <=>
          IF cond.joins[1] = "and" THEN Passes(a, row) /\ Passes(b, row)
          ELSE Passes(a, row) \/ Passes(b, row)
    <3> DEFINE op == cond.joins[1]
    <3>1. ParseCondition(cond, FALSE) = [op |-> op, left |-> a, right |-> b]
      BY <2>8
    <3> HIDE DEF op
    <3>2. Evaluate([op |-> op, left |-> a, right |-> b], row) <=>
            IF op = "and" THEN Passes(a, row) /\ Passes(b, row) ELSE Passes(a, row) \/ Passes(b, row)
      BY EvaluateForms
    <3>3. Evaluate(ParseCondition(cond, FALSE), row) <=>
            IF op = "and" THEN Passes(a, row) /\ Passes(b, row) ELSE Passes(a, row) \/ Passes(b, row)
      BY <3>1, <3>2
    <3> QED
      BY <3>3 DEF op
  <2>10. (Passes(a, row) <=> Says(a, row)) /\ (Passes(b, row) <=> Says(b, row))
    BY <1>2, <2>3, PassesIsSays
  <2>11. Means(cond, row) <=> IF cond.joins[1] = "and" THEN Says(a, row) /\ Says(b, row)
                              ELSE Says(a, row) \/ Says(b, row)
    BY <1>4, MeansTwo DEF a, b
  <2> QED
    <3>1. CASE cond.joins[1] = "and"
      <4>1. Evaluate(ParseCondition(cond, FALSE), row) <=> Passes(a, row) /\ Passes(b, row)
        BY <2>9, <3>1
      <4>2. Means(cond, row) <=> Says(a, row) /\ Says(b, row)
        BY <2>11, <3>1
      <4> QED
        BY <2>10, <4>1, <4>2
    <3>2. CASE cond.joins[1] # "and"
      <4>1. Evaluate(ParseCondition(cond, FALSE), row) <=> Passes(a, row) \/ Passes(b, row)
        BY <2>9, <3>2
      <4>2. Means(cond, row) <=> Says(a, row) \/ Says(b, row)
        BY <2>11, <3>2
      <4> QED
        BY <2>10, <4>1, <4>2
    <3> QED
      BY <3>1, <3>2
<1> QED
  BY <1>1, <1>3, <1>4

-----------------------------------------------------------------------------
LEMMA ClauseFacts ==
  ASSUME NEW s \in Selects
  PROVE  /\ s.clauses \in Seq(ToSet(s.clauses)) /\ Len(s.clauses) \in Nat
         /\ DOMAIN s.clauses = 1..Len(s.clauses)
         /\ \A i \in DOMAIN s.clauses : IsClause(s.clauses[i])
<1>1. IsSelect(s)
  BY QueryAssumption
<1>2. \A i \in DOMAIN s.clauses : s.clauses[i] \in ToSet(s.clauses)
  BY DEF ToSet
<1> QED
  BY <1>1, <1>2, LenProperties DEF IsSelect

LEMMA FirstWhereFacts ==
  ASSUME NEW s \in Selects, HasWhere(s.clauses)
  PROVE  /\ FirstWhere(s.clauses) \in DOMAIN s.clauses
         /\ IsCondition(s.clauses[FirstWhere(s.clauses)].cond)
<1> DEFINE W == WherePositions(s.clauses)
<1>1. W # {} /\ W \subseteq Nat /\ W \subseteq DOMAIN s.clauses
  BY ClauseFacts DEF HasWhere, WherePositions
<1>2. FirstWhere(s.clauses) \in W
  <2>1. FirstWhere(s.clauses) = CHOOSE i \in W : \A j \in W : i <= j
    BY DEF FirstWhere
  <2> HIDE DEF W
  <2>2. \E i \in W : \A j \in W : i <= j
    BY <1>1, LeastExists
  <2> QED
    BY <2>1, <2>2
<1>3. s.clauses[FirstWhere(s.clauses)].kw = "where"
  BY <1>2 DEF WherePositions
<1> QED
  BY <1>1, <1>2, <1>3, ClauseFacts DEF IsClause

LEMMA ParsedFacts ==
  ASSUME NEW s \in Selects
  PROVE  DOMAIN Parsed(s.clauses) \subseteq DOMAIN s.clauses
<1> DEFINE c == s.clauses
<1>1. c \in Seq(ToSet(c)) /\ Len(c) \in Nat /\ DOMAIN c = 1..Len(c)
  BY ClauseFacts
<1>2. CASE HasWhere(c)
  <2> DEFINE w == FirstWhere(c)
  <2>1. w \in 1..Len(c)
    BY <1>1, <1>2, FirstWhereFacts
  <2>2. w \in Nat /\ 1 <= w + 1 /\ w <= Len(c) /\ w - 1 + 1 = w
    BY <1>1, <2>1
  <2>3. Parsed(c) = SubSeq(c, 1, w)
    BY <1>2 DEF Parsed
  <2> HIDE DEF w, c
  <2>4. DOMAIN SubSeq(c, 1, w) = 1..(w - 1 + 1)
    BY <1>1, <2>2, SubSeqFacts
  <2>5. 1..w \subseteq 1..Len(c)
    BY <1>1, <2>1
  <2> QED
    BY <1>1, <2>2, <2>3, <2>4, <2>5 DEF c
<1>3. CASE ~HasWhere(c)
  BY <1>3 DEF Parsed
<1> QED
  BY <1>2, <1>3

LEMMA LimitIsNat ==
  ASSUME NEW s \in Selects
  PROVE  LimitOf(s.clauses) \in Nat
<1> DEFINE c == s.clauses
           limits == {i \in DOMAIN Parsed(c) : c[i].kw = "limit"}
<1>1. Len(c) \in Nat /\ limits \subseteq 1..Len(c)
  BY ClauseFacts, ParsedFacts
<1>2. \A i \in limits : c[i].n \in Nat
  BY ClauseFacts, ParsedFacts DEF IsClause
<1>3. LimitOf(c) = IF limits = {} THEN DefaultLimit
                   ELSE c[CHOOSE i \in limits : \A j \in limits : j <= i].n
  BY DEF LimitOf
<1> HIDE DEF c, limits
<1>4. ASSUME limits # {} PROVE (CHOOSE i \in limits : \A j \in limits : j <= i) \in limits
  <2>1. limits \subseteq 0..Len(c)
    BY <1>1
  <2>2. \E i \in limits : \A j \in limits : j <= i
    BY <1>1, <1>4, <2>1, GreatestExists
  <2> QED
    BY <2>2
<1> QED
  BY <1>2, <1>3, <1>4, QueryAssumption DEF c

LEMMA TruncateFacts ==
  ASSUME NEW S, NEW list \in Seq(S), NEW n \in Nat
  PROVE  /\ Truncate(list, n) \in Seq(S)
         /\ \A i \in DOMAIN Truncate(list, n) :
              i \in DOMAIN list /\ Truncate(list, n)[i] = list[i]
<1> DEFINE m == IF n < Len(list) THEN n ELSE Len(list)
<1>1. m \in Nat /\ 1 <= m + 1 /\ m <= Len(list) /\ Len(list) \in Nat /\ DOMAIN list = 1..Len(list)
  BY LenProperties
<1>2. Truncate(list, n) = SubSeq(list, 1, m)
  BY DEF Truncate
<1> HIDE DEF m
<1>3. /\ SubSeq(list, 1, m) \in Seq(S)
      /\ DOMAIN SubSeq(list, 1, m) = 1..(m - 1 + 1)
      /\ \A k \in 1..(m - 1 + 1) : SubSeq(list, 1, m)[k] = list[1 + k - 1] /\ 1 + k - 1 \in 1..Len(list)
  BY <1>1, SubSeqFacts
<1>4. \A k \in 1..(m - 1 + 1) : 1 + k - 1 = k
  BY <1>1
<1> QED
  BY <1>1, <1>2, <1>3, <1>4

-----------------------------------------------------------------------------
\* What a statement does when it is executed.
QueryInv ==
  /\ select \in Selects /\ table \in Contents
  /\ executed \in BOOLEAN
  /\ executed => answer = Answered(select, table) /\ value = Aggregate(select, answer)

LEMMA QueryAlwaysInv == QuerySpec => []QueryInv
<1>1. QueryInit => QueryInv
  BY DEF QueryInit, QueryInv
<1>2. QueryInv /\ [QueryNext]_queryVars => QueryInv'
  <2> SUFFICES ASSUME QueryInv, [QueryNext]_queryVars PROVE QueryInv'
    OBVIOUS
  <2>1. CASE Execute
    <3>1. /\ select' = select /\ table' = table /\ executed' = TRUE
          /\ answer' = Answered(select, table) /\ value' = Aggregate(select, answer')
      BY <2>1 DEF Execute
    <3> QED
      BY <3>1 DEF QueryInv
  <2>2. CASE UNCHANGED queryVars
    BY <2>2 DEF QueryInv, queryVars
  <2> QED
    BY <2>1, <2>2 DEF QueryNext
<1> QED
  BY <1>1, <1>2, PTL DEF QuerySpec

LEMMA HonouredIfInv ==
  ASSUME QueryInv
  PROVE  ConditionHonoured
<1> SUFFICES ASSUME executed, HasWhere(select.clauses)
             PROVE  LET cond == select.clauses[FirstWhere(select.clauses)].cond
                        meets(row) == Means(cond, row)
                    IN  /\ \/ \A i \in DOMAIN answer : "time" \in DOMAIN answer[i].fields \/ meets(answer[i])
                           \/ \E i \in DOMAIN cond.atoms : Unparsable(cond.atoms[i])
                        /\ Simple(cond) /\ ~Spoilt(select.clauses) =>
                             answer = Truncate(Kept(table, {i \in DOMAIN table : meets(table[i])}), LimitOf(select.clauses))
  BY DEF ConditionHonoured
<1> DEFINE cond == select.clauses[FirstWhere(select.clauses)].cond
           limit == LimitOf(select.clauses)
           spoilt == Spoilt(select.clauses)
           passing == {i \in DOMAIN table : Evaluate(FilterOf(select.clauses), table[i])}
<1>1. select \in Selects /\ table \in Contents /\ answer = Answered(select, table)
  BY DEF QueryInv
<1>2. IsCondition(cond) /\ FilterOf(select.clauses) = ParseCondition(cond, spoilt)
  BY <1>1, FirstWhereFacts DEF FilterOf
<1>3. limit \in Nat /\ spoilt \in BOOLEAN
  BY <1>1, LimitIsNat DEF Spoilt
<1>4. table \in Seq(ToSet(table))
  BY <1>1, QueryAssumption DEF IsTable
<1>5. answer = Truncate(Kept(table, passing), limit)
  BY <1>1 DEF Answered
<1> HIDE DEF cond, limit, spoilt, passing
<1>6. ASSUME ~\E i \in DOMAIN cond.atoms : Unparsable(cond.atoms[i]),
             NEW i \in DOMAIN answer, "time" \notin DOMAIN answer[i].fields
      PROVE  Means(cond, answer[i])
  <2>1. Kept(table, passing) \in Seq(ToSet(table))
    BY <1>4, KeptPicks
  <2>2. i \in DOMAIN Kept(table, passing) /\ answer[i] = Kept(table, passing)[i]
    BY <1>3, <1>5, <1>6, <2>1, TruncateFacts
  <2>3. PICK j \in passing : answer[i] = table[j]
    BY <1>4, <2>2, KeptElements
  <2>4. Evaluate(ParseCondition(cond, spoilt), answer[i])
    BY <1>2, <2>3 DEF passing
  <2> QED
    BY <1>2, <1>3, <1>6, <2>4, FilterIsSound
<1>7. ASSUME Simple(cond), ~spoilt
      PROVE  passing = {i \in DOMAIN table : Means(cond, table[i])}
  <2>1. spoilt = FALSE
    BY <1>3, <1>7
  <2>2. \A i : Evaluate(FilterOf(select.clauses), table[i]) <=> Means(cond, table[i])
    BY <1>2, <1>7, <2>1, FilterIsExact
  <2> QED
    BY <2>2 DEF passing
<1> QED
  BY <1>5, <1>6, <1>7 DEF cond, limit, spoilt

\* Every statement that is executed treats its condition as a whole.  If all of it
\* can be parsed, the rows of the answer meet it as it is written, those apart that
\* have a field called "time"; and a simple one with nothing behind it is met by
\* exactly the rows of the answer, up to the limit (parse_condition,
\* parse_time_condition, FilterExpr::evaluate, handle_query).
THEOREM ConditionsAreHonoured == QuerySpec => []ConditionHonoured
<1>1. QueryInv => ConditionHonoured
  BY HonouredIfInv
<1> QED
  BY <1>1, QueryAlwaysInv, PTL

-----------------------------------------------------------------------------
(* Query: aggregates. *)

\* The positions of the rows that have the field.
HavingAt(found, f) == {i \in 1..Len(found) : f \in DOMAIN found[i].fields}

\* Rows whose fields hold typed values.
RowsOfFields(found) ==
  /\ found \in Seq(ToSet(found))
  /\ \A i \in 1..Len(found) : \A f \in DOMAIN found[i].fields :
       found[i].fields[f] \in FieldValues /\ InWidth(found[i].fields[f])

\* A column is the values of the rows that have the field, in their order.
LEMMA ColumnFacts ==
  ASSUME NEW found, RowsOfFields(found), NEW f
  PROVE  /\ Column(found, f) \in Seq(FieldValues)
         /\ Len(Column(found, f)) = Cardinality(HavingAt(found, f))
         /\ \E at : Picks(at, Column(found, f), [i \in 1..Len(found) |-> found[i].fields[f]], HavingAt(found, f))
<1> DEFINE S == ToSet(found)
           P == HavingAt(found, f)
           list == [i \in 1..Len(found) |-> found[i].fields[f]]
<1>1. found \in Seq(S) /\ Len(found) \in Nat /\ DOMAIN found = 1..Len(found)
  BY DEF RowsOfFields
<1>2. {i \in DOMAIN found : f \in DOMAIN found[i].fields} = P /\ P \cap (1..Len(found)) = P
  BY <1>1 DEF HavingAt
<1>3. Having(found, f) = Kept(found, P)
  BY <1>2 DEF Having
<1> HIDE DEF S
<1>4. Having(found, f) \in Seq(S) /\ \E at : Picks(at, Having(found, f), found, P)
  BY <1>1, <1>2, <1>3, KeptPicks
<1> DEFINE having == Having(found, f)
           n == Len(having)
<1>5. PICK at : Picks(at, having, found, P)
  BY <1>4
<1>6. n \in Nat /\ DOMAIN having = 1..n
  BY <1>4
<1>7. n = Cardinality(P)
  BY <1>1, <1>2, <1>3, KeptLen
<1>8. Column(found, f) = [k \in 1..n |-> having[k].fields[f]]
  BY <1>6 DEF Column
<1>9. \A k \in 1..n : at[k] \in P /\ at[k] \in 1..Len(found) /\ f \in DOMAIN found[at[k]].fields
  BY <1>5 DEF Picks, HavingAt
<1>10. \A k \in 1..n : having[k].fields[f] = list[at[k]] /\ list[at[k]] \in FieldValues
  <2>1. \A k \in 1..n : having[k] = found[at[k]]
    BY <1>5 DEF Picks
  <2> QED
    BY <2>1, <1>9 DEF RowsOfFields
<1> DEFINE column == [k \in 1..n |-> having[k].fields[f]]
<1>11. column \in Seq(FieldValues) /\ Len(column) = n
  <2>1. column \in [1..n -> FieldValues]
    BY <1>10
  <2> HIDE DEF column
  <2> QED
    BY <2>1, <1>6
<1>12. Picks(at, column, list, P)
  <2>1. \A k \in 1..n : column[k] = list[at[k]]
    BY <1>10
  <2> HIDE DEF column, list, P
  <2> QED
    BY <2>1, <1>5, <1>11 DEF Picks
<1> QED
  BY <1>7, <1>8, <1>11, <1>12

LEMMA WrappedFits ==
  ASSUME NEW x \in Int, Fits(x)
  PROVE  Wrapped(x) = x
<1>1. Half \in Nat \ {0}
  BY MachineAssumption
<1>2. \A a, m \in Int : m > 0 /\ 0 <= a /\ a < m => a % m = a
  OBVIOUS
<1>3. 2 * Half \in Int /\ 2 * Half > 0 /\ x + Half \in Int /\ 0 <= x + Half /\ x + Half < 2 * Half
  BY <1>1 DEF Fits
<1>4. (x + Half) % (2 * Half) = x + Half
  BY <1>2, <1>3
<1> QED
  BY <1>1, <1>4 DEF Wrapped

\* The sum of a column of one type that adds up is the sum of what its rows hold.
LEMMA SumValueIs ==
  ASSUME NEW found, RowsOfFields(found), NEW f, NEW type \in {"int", "uint", "float"},
         HavingAt(found, f) # {}, \A i \in HavingAt(found, f) : found[i].fields[f].type = type,
         NEW numbers, numbers = [i \in 1..Len(found) |-> IF i \in HavingAt(found, f) THEN found[i].fields[f].n ELSE 0],
         type = "float" \/ (AddsUp(numbers) /\ \A i \in HavingAt(found, f) : found[i].fields[f].n < Half)
  PROVE  SumValue(found, f).n = SumOf(numbers)
<1> DEFINE P == HavingAt(found, f)
           n == Len(found)
<1>1. n \in Nat /\ DOMAIN found = 1..n /\ P \subseteq 1..n /\ P # {}
  BY DEF RowsOfFields, HavingAt
<1>2. \A types : Holding(found, f, types) = IF type \in types THEN P ELSE {}
  BY <1>1 DEF Holding, HavingAt
<1>3. \A i \in P : found[i].fields[f].n \in Int
  BY DEF RowsOfFields, HavingAt, FieldValues
<1>4. CASE type = "float"
  <2>1. Holding(found, f, {"float"}) = P /\ Holding(found, f, {"int", "uint"}) = {}
    BY <1>2, <1>4
  <2>2. ~SumOverflows(found, f)
    BY <2>1 DEF SumOverflows
  <2>3. Floats(found, f) = numbers
    BY <1>1, <2>1 DEF Floats
  <2> QED
    BY <1>1, <2>1, <2>2, <2>3 DEF SumValue
<1>5. CASE type # "float"
  <2>1. /\ Holding(found, f, {"float"}) = {} /\ Holding(found, f, {"int", "uint"}) = P
        /\ Holding(found, f, {"int"}) = IF type = "int" THEN P ELSE {}
        /\ Holding(found, f, {"uint"}) = IF type = "int" THEN {} ELSE P
    BY <1>2, <1>5
  <2>2. \A i \in P : AsSigned(found[i].fields[f].n) = found[i].fields[f].n
    BY <1>3, <1>5 DEF AsSigned
  <2>3. Wholes(found, f) = numbers
    <3>1. CASE type = "int"
      BY <1>1, <2>1, <3>1 DEF Wholes
    <3>2. CASE type # "int"
      BY <1>1, <2>1, <2>2, <3>2 DEF Wholes
    <3> QED
      BY <3>1, <3>2
  <2>4. numbers \in [1..n -> Int]
    BY <1>3
  <2>5. numbers \in Seq(Int) /\ Len(numbers) = n /\ DOMAIN numbers = 1..n
    <3> HIDE DEF n
    <3> QED
      BY <1>1, <2>4
  <2>6. SumOf(numbers) \in Int
    <3>1. 0 \in Int
      OBVIOUS
    <3> QED
      BY <2>5, <3>1, SumAppend
  <2>7. ~SumOverflows(found, f)
    BY <1>1, <1>5, <2>1, <2>3, <2>5 DEF SumOverflows, AddsUp
  <2>8. Fits(SumOf(numbers))
    <3>1. CASE OverflowChecks
      <4>1. n \in DOMAIN numbers
        <5> HIDE DEF n
        <5> QED
          BY <1>1, <2>5
      <4>2. Fits(UpTo(numbers, n))
        BY <1>5, <3>1, <4>1 DEF AddsUp
      <4>3. SubSeq(numbers, 1, n) = numbers
        BY <2>5
      <4> QED
        BY <4>2, <4>3 DEF UpTo
    <3>2. CASE ~OverflowChecks
      BY <1>5, <3>2 DEF AddsUp
    <3> QED
      BY <3>1, <3>2
  <2>9. SumValue(found, f) = [type |-> "int", n |-> Wrapped(SumOf(numbers))]
    BY <2>1, <2>3, <2>7 DEF SumValue
  <2> QED
    BY <2>6, <2>8, <2>9, WrappedFits
<1> QED
  BY <1>4, <1>5

\* Over numbers of one type the extreme is one of them that none beats.
LEMMA ExtremeIs ==
  ASSUME NEW values \in Seq(FieldValues), values # <<>>, NEW type \in {"int", "uint", "float"},
         \A k \in 1..Len(values) : values[k].type = type, NEW kind \in {"min", "max"}
  PROVE  /\ \E k \in 1..Len(values) : Extreme(kind, values) = values[k]
         /\ kind = "min" => \A k \in 1..Len(values) : Extreme(kind, values).n <= values[k].n
         /\ kind = "max" => \A k \in 1..Len(values) : Extreme(kind, values).n >= values[k].n
<1> DEFINE n == Len(values)
           T == FieldValues
           better == [i \in 1..n |-> [best \in T |->
                        IF i = 1 THEN values[1] ELSE IF Beats(kind, values[i], best) THEN values[i] ELSE best]]
           Body(p) == [i \in DOMAIN values |->
                         IF i = 1 THEN values[1]
                         ELSE IF Beats(kind, values[i], p[i - 1]) THEN values[i] ELSE p[i - 1]]
<1>1. n \in Nat \ {0} /\ DOMAIN values = 1..n /\ \A k \in 1..n : values[k] \in T /\ values[k].n \in Int
  <2>1. n \in Nat /\ n # 0 /\ DOMAIN values = 1..n /\ \A k \in 1..n : values[k] \in T
    OBVIOUS
  <2>2. \A v \in T : v.n \in Int
    BY DEF FieldValues
  <2> QED
    BY <2>1, <2>2
<1>2. better \in [1..n -> [T -> T]]
  <2>1. \A i \in 1..n : \A best \in T :
          (IF i = 1 THEN values[1] ELSE IF Beats(kind, values[i], best) THEN values[i] ELSE best) \in T
    BY <1>1
  <2> HIDE DEF T
  <2> QED
    BY <2>1
<1>3. PICK g : IsLoop(g, n, T, values[1], better)
  <2>1. n \in Nat /\ values[1] \in T
    BY <1>1
  <2> HIDE DEF T, better, n
  <2> QED
    BY <2>1, <1>2, LoopExists
<1>4. [i \in 1..n |-> g[i]] = Body([i \in 1..n |-> g[i]])
  <2>1. \A i \in 1..n : i # 1 => i - 1 \in 1..n
    BY <1>1
  <2>2. \A i \in 1..n : i - 1 \in 0..n
    BY <1>1
  <2>3. \A i \in 1..n : g[i - 1] \in T
    BY <1>3, <2>2 DEF IsLoop
  <2>4. \A i \in 1..n :
          g[i] = IF i = 1 THEN values[1] ELSE IF Beats(kind, values[i], g[i - 1]) THEN values[i] ELSE g[i - 1]
    BY <1>3, <2>3 DEF IsLoop
  <2> QED
    BY <1>1, <2>1, <2>4
<1> DEFINE best == CHOOSE p : p = Body(p)
<1>5. best = Body(best)
  BY <1>4
<1>6. Extreme(kind, values) = best[n]
  BY DEF Extreme
<1>7. /\ best[1] = values[1]
      /\ \A i \in 2..n : best[i] = IF Beats(kind, values[i], best[i - 1]) THEN values[i] ELSE best[i - 1]
  <2>1. \A i \in 1..n : best[i] = Body(best)[i]
    BY <1>5
  <2>2. \A i \in 1..n : Body(best)[i] =
          IF i = 1 THEN values[1] ELSE IF Beats(kind, values[i], best[i - 1]) THEN values[i] ELSE best[i - 1]
    <3> HIDE DEF best
    <3> QED
      BY <1>1
  <2>3. 1 \in 1..n /\ \A i \in 2..n : i \in 1..n /\ i # 1
    BY <1>1
  <2> HIDE DEF best, Body
  <2> QED
    BY <2>1, <2>2, <2>3
<1> HIDE DEF best
<1> DEFINE NotWorse(a, b) == IF kind = "min" THEN a.n <= b.n ELSE a.n >= b.n
           Good == {i \in 1..n : /\ \E k \in 1..i : best[i] = values[k]
                                 /\ \A k \in 1..i : NotWorse(best[i], values[k])}
<1>8. 1 \in Good
  <2>1. \A k \in 1..1 : k = 1
    OBVIOUS
  <2> QED
    BY <1>1, <1>7, <2>1
<1>9. ASSUME NEW i \in 2..n, i - 1 \in Good PROVE i \in Good
  <2>1. PICK m \in 1..(i - 1) : best[i - 1] = values[m]
    BY <1>9
  <2>2. \A k \in 1..(i - 1) : NotWorse(best[i - 1], values[k])
    BY <1>9
  <2>3. i \in 1..n /\ m \in 1..i /\ m \in 1..n /\ \A k \in 1..i : k = i \/ k \in 1..(i - 1)
    BY <1>1, <1>9
  <2>4. \A k \in 1..i : k \in 1..n
    BY <1>1, <1>9
  <2>5. Beats(kind, values[i], best[i - 1]) <=> IF kind = "min" THEN values[i].n < values[m].n ELSE values[i].n > values[m].n
    <3>1. values[i].type = type /\ values[m].type = type
      BY <2>3
    <3> QED
      BY <2>1, <3>1 DEF Beats
  <2>6. CASE Beats(kind, values[i], best[i - 1])
    <3>1. best[i] = values[i]
      BY <1>7, <2>6
    <3>2. \A k \in 1..(i - 1) : NotWorse(values[i], values[k])
      BY <1>1, <2>1, <2>2, <2>3, <2>4, <2>5, <2>6
    <3> QED
      BY <1>1, <2>3, <3>1, <3>2
  <2>7. CASE ~Beats(kind, values[i], best[i - 1])
    <3>1. best[i] = values[m]
      BY <1>7, <2>1, <2>7
    <3>2. NotWorse(values[m], values[i])
      BY <1>1, <2>3, <2>5, <2>7
    <3>3. \A k \in 1..(i - 1) : NotWorse(values[m], values[k])
      BY <2>1, <2>2
    <3>4. \A k \in 1..i : NotWorse(best[i], values[k])
      BY <2>3, <3>1, <3>2, <3>3
    <3>5. \E k \in 1..i : best[i] = values[k]
      BY <2>3, <3>1
    <3> HIDE DEF NotWorse
    <3> QED
      BY <2>3, <3>4, <3>5
  <2> QED
    BY <2>6, <2>7
<1>10. n \in Good
  <2>1. 1..n \subseteq Good
    <3> HIDE DEF Good
    <3>1. \A i \in (1 + 1)..n : i - 1 \in Good => i \in Good
      <4>1. \A i \in 2..n : i - 1 \in Good => i \in Good
        BY <1>9
      <4>2. 1 + 1 = 2
        OBVIOUS
      <4> QED
        BY <4>1, <4>2
    <3> QED
      BY <1>1, <1>8, <3>1, RoundInduction
  <2>2. n \in 1..n
    BY <1>1
  <2> QED
    BY <2>1, <2>2
<1> QED
  BY <1>6, <1>10

LEMMA AnswerIsRows ==
  ASSUME QueryInv, executed
  PROVE  RowsOfFields(answer)
<1> DEFINE T == ToSet(table)
           passing == {i \in DOMAIN table : Evaluate(FilterOf(select.clauses), table[i])}
           limit == LimitOf(select.clauses)
<1>1. table \in Seq(T) /\ answer = Truncate(Kept(table, passing), limit) /\ limit \in Nat
  BY QueryAssumption, LimitIsNat DEF QueryInv, Answered, IsTable
<1>2. \A row \in T : \A f \in DOMAIN row.fields : row.fields[f] \in FieldValues /\ InWidth(row.fields[f])
  BY QueryAssumption DEF QueryInv, IsTable
<1> HIDE DEF T, passing, limit
<1>3. Kept(table, passing) \in Seq(T)
  BY <1>1, KeptPicks
<1>4. answer \in Seq(T)
  BY <1>1, <1>3, TruncateFacts
<1>5. \A i \in 1..Len(answer) : answer[i] \in T
  BY <1>4
<1>6. answer \in Seq(ToSet(answer))
  <2>1. answer \in [1..Len(answer) -> ToSet(answer)] /\ Len(answer) \in Nat
    BY <1>4 DEF ToSet
  <2> QED
    BY <2>1
<1> QED
  BY <1>2, <1>5, <1>6 DEF RowsOfFields

\* The aggregates of rows are those of the values that the rows hold.
LEMMA AggregateFacts ==
  ASSUME NEW found, RowsOfFields(found), NEW s, s.aggregate \in {"count", "sum", "min", "max", "first", "last"},
         NEW f, f = Upper(s.field), NEW v, v = Aggregate(s, found)
  PROVE  LET having == HavingAt(found, f)
             at(i) == found[i].fields[f]
             numbers == [i \in DOMAIN found |-> IF i \in having THEN at(i).n ELSE 0]
             adds == (\A i \in having : at(i).type = "float") \/ (AddsUp(numbers) /\ \A i \in having : at(i).n < Half)
         IN  /\ s.aggregate = "count" => v.n = Cardinality(having)
             /\ having # {} /\ (\E type \in {"int", "uint", "float"} : \A i \in having : at(i).type = type) =>
                  /\ s.aggregate = "sum" => (adds => v.n = SumOf(numbers))
                  /\ s.aggregate = "min" => (\E i \in having : v = at(i)) /\ \A i \in having : v.n <= at(i).n
                  /\ s.aggregate = "max" => (\E i \in having : v = at(i)) /\ \A i \in having : v.n >= at(i).n
                  /\ s.aggregate = "first" => (1 \in having => v = at(1))
                  /\ s.aggregate = "last" => (Len(found) \in having => v = at(Len(found)))
<1> DEFINE having == HavingAt(found, f)
           at(i) == found[i].fields[f]
           values == Column(found, f)
           n == Len(values)
           list == [i \in 1..Len(found) |-> found[i].fields[f]]
           numbers == [i \in DOMAIN found |-> IF i \in having THEN at(i).n ELSE 0]
           adds == (\A i \in having : at(i).type = "float") \/ (AddsUp(numbers) /\ \A i \in having : at(i).n < Half)
<1>1. values \in Seq(FieldValues) /\ n \in Nat /\ n = Cardinality(having)
  BY ColumnFacts
<1>2. PICK place : Picks(place, values, list, having)
  BY ColumnFacts
<1>3. \A k \in 1..n : place[k] \in having /\ values[k] = at(place[k])
  BY <1>2 DEF Picks, HavingAt
<1>4. \A i \in having : \E k \in 1..n : values[k] = at(i)
  <2>1. \A i \in having : \E k \in 1..n : place[k] = i
    BY <1>2 DEF Picks
  <2> QED
    BY <1>3, <2>1
<1>5. Len(found) \in Nat /\ DOMAIN found = 1..Len(found) /\ having \subseteq 1..Len(found)
  BY DEF RowsOfFields, HavingAt
<1>6. s.aggregate = "count" => v.n = Cardinality(having)
  BY <1>1 DEF Aggregate
<1>7. ASSUME having # {}, NEW type \in {"int", "uint", "float"}, \A i \in having : at(i).type = type
      PROVE  /\ s.aggregate = "sum" => (adds => v.n = SumOf(numbers))
             /\ s.aggregate = "min" => (\E i \in having : v = at(i)) /\ \A i \in having : v.n <= at(i).n
             /\ s.aggregate = "max" => (\E i \in having : v = at(i)) /\ \A i \in having : v.n >= at(i).n
             /\ s.aggregate = "first" => (1 \in having => v = at(1))
             /\ s.aggregate = "last" => (Len(found) \in having => v = at(Len(found)))
  <2>1. values # <<>>
    <3>1. \E k \in 1..n : TRUE
      BY <1>4, <1>7
    <3> QED
      BY <3>1
  <2>2. \A k \in 1..n : values[k].type = type
    BY <1>3, <1>7
  <2>3. s.aggregate = "sum" => (adds => v.n = SumOf(numbers))
    <3>1. ASSUME adds PROVE SumValue(found, f).n = SumOf(numbers)
      <4>1. numbers = [i \in 1..Len(found) |-> IF i \in HavingAt(found, f) THEN found[i].fields[f].n ELSE 0]
        BY <1>5
      <4>2. type = "float" \/ (AddsUp(numbers) /\ \A i \in HavingAt(found, f) : found[i].fields[f].n < Half)
        BY <1>7, <3>1
      <4> HIDE DEF numbers
      <4> QED
        BY <1>7, <4>1, <4>2, SumValueIs
    <3>2. s.aggregate = "sum" => v = SumValue(found, f)
      BY DEF Aggregate
    <3> QED
      BY <3>1, <3>2
  <2>4. s.aggregate \in {"min", "max"} => v = Extreme(s.aggregate, values)
    BY DEF Aggregate
  <2>5. s.aggregate = "min" => (\E i \in having : v = at(i)) /\ \A i \in having : v.n <= at(i).n
    <3> DEFINE x == Extreme("min", values)
    <3>1. (\E k \in 1..n : x = values[k]) /\ \A k \in 1..n : x.n <= values[k].n
      BY <1>1, <2>1, <2>2, ExtremeIs
    <3>2. (\E i \in having : x = at(i)) /\ \A i \in having : x.n <= at(i).n
      <4> HIDE DEF x, having, at, values
      <4> QED
        BY <1>3, <1>4, <3>1
    <3> QED
      BY <2>4, <3>2
  <2>6. s.aggregate = "max" => (\E i \in having : v = at(i)) /\ \A i \in having : v.n >= at(i).n
    <3> DEFINE x == Extreme("max", values)
    <3>1. (\E k \in 1..n : x = values[k]) /\ \A k \in 1..n : x.n >= values[k].n
      BY <1>1, <2>1, <2>2, ExtremeIs
    <3>2. (\E i \in having : x = at(i)) /\ \A i \in having : x.n >= at(i).n
      <4> HIDE DEF x, having, at, values
      <4> QED
        BY <1>3, <1>4, <3>1
    <3> QED
      BY <2>4, <3>2
  <2>7. found # <<>> /\ Head(found) = found[1] /\ Last(found) = found[Len(found)]
    <3>1. found # <<>>
      BY <1>5, <1>7
    <3> QED
      BY <3>1 DEF RowsOfFields, Last
  <2>8. s.aggregate = "first" => (1 \in having => v = at(1))
    BY <2>7 DEF Aggregate, ValueIn, HavingAt
  <2>9. s.aggregate = "last" => (Len(found) \in having => v = at(Len(found)))
    BY <2>7 DEF Aggregate, ValueIn, HavingAt
  <2> QED
    BY <2>3, <2>5, <2>6, <2>8, <2>9
<1> HIDE DEF having, values, numbers, adds
<1> QED
  BY <1>6, <1>7 DEF having, numbers, adds

LEMMA AgreeIfInv ==
  ASSUME QueryInv
  PROVE  AggregatesAgree
<1> SUFFICES ASSUME executed PROVE AggregatesAgree
  BY DEF AggregatesAgree
<1> DEFINE f == Upper(select.field)
           at(i) == answer[i].fields[f]
           having == HavingAt(answer, f)
           numbers == [i \in DOMAIN answer |-> IF i \in having THEN at(i).n ELSE 0]
           uniform(type) == \A i \in having : at(i).type = type
           adds == uniform("float") \/ (AddsUp(numbers) /\ \A i \in having : at(i).n < Half)
<1>1. RowsOfFields(answer)
  BY AnswerIsRows
<1>2. value = Aggregate(select, answer)
  BY DEF QueryInv
<1>3. {i \in DOMAIN answer : f \in DOMAIN answer[i].fields} = having
  BY <1>1 DEF RowsOfFields, HavingAt
<1>4. /\ select.aggregate = "count" => value.n = Cardinality(having)
      /\ having # {} /\ (\E type \in {"int", "uint", "float"} : uniform(type)) =>
           CASE select.aggregate = "sum" -> adds => value.n = SumOf(numbers)
             [] select.aggregate = "min" -> /\ \E i \in having : value = at(i)
                                            /\ \A i \in having : value.n <= at(i).n
             [] select.aggregate = "max" -> /\ \E i \in having : value = at(i)
                                            /\ \A i \in having : value.n >= at(i).n
             [] select.aggregate = "first" -> 1 \in having => value = at(1)
             [] select.aggregate = "last" -> Len(answer) \in having => value = at(Len(answer))
             [] OTHER -> TRUE
  <2>1. CASE select.aggregate \in {"count", "sum", "min", "max", "first", "last"}
    <3>1. f = Upper(select.field)
      OBVIOUS
    <3> DEFINE sum == SumOf(numbers)
    <3>2. /\ select.aggregate = "count" => value.n = Cardinality(having)
          /\ having # {} /\ (\E type \in {"int", "uint", "float"} : uniform(type)) =>
               /\ select.aggregate = "sum" => (adds => value.n = sum)
               /\ select.aggregate = "min" => (\E i \in having : value = at(i)) /\ \A i \in having : value.n <= at(i).n
               /\ select.aggregate = "max" => (\E i \in having : value = at(i)) /\ \A i \in having : value.n >= at(i).n
               /\ select.aggregate = "first" => (1 \in having => value = at(1))
               /\ select.aggregate = "last" => (Len(answer) \in having => value = at(Len(answer)))
      BY <1>1, <1>2, <2>1, AggregateFacts
    <3> HIDE DEF sum, having, at, f, adds, uniform, numbers
    <3>3. /\ select.aggregate = "count" => value.n = Cardinality(having)
          /\ having # {} /\ (\E type \in {"int", "uint", "float"} : uniform(type)) =>
               CASE select.aggregate = "sum" -> adds => value.n = sum
                 [] select.aggregate = "min" -> /\ \E i \in having : value = at(i)
                                                /\ \A i \in having : value.n <= at(i).n
                 [] select.aggregate = "max" -> /\ \E i \in having : value = at(i)
                                                /\ \A i \in having : value.n >= at(i).n
                 [] select.aggregate = "first" -> 1 \in having => value = at(1)
                 [] select.aggregate = "last" -> Len(answer) \in having => value = at(Len(answer))
                 [] OTHER -> TRUE
      BY <2>1, <3>2
    <3> QED
      BY <3>3 DEF sum
  <2>2. CASE select.aggregate \notin {"count", "sum", "min", "max", "first", "last"}
    BY <2>2
  <2> QED
    BY <2>1, <2>2
<1> QED
  BY <1>3, <1>4 DEF AggregatesAgree

\* An aggregate over a column of one numeric type is what its name says, for every
\* statement and every table, whether or not overflow is checked: the count of the
\* rows that have the field; their sum, if it is of floats, or of integers that fit
\* and add up within 64 bits; an extreme that occurs and that none beats; the first
\* and the last value (QueryResult::sum, min, max).
THEOREM AggregatesAreRight == QuerySpec => []AggregatesAgree
<1>1. QueryInv => AggregatesAgree
  BY AgreeIfInv
<1> QED
  BY <1>1, QueryAlwaysInv, PTL
=============================================================================
