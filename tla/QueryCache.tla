----------------------------- MODULE QueryCache -----------------------------
(***************************************************************************)
(* The query cache (cache/mod.rs): entries with a size, a time of creation *)
(* and of last access, evicted least recently used first, and a count of   *)
(* bytes kept beside them.  Every operation holds the lock of the entries  *)
(* from start to end, and takes the lock of the statistics inside it, so   *)
(* each is one step.                                                       *)
(*                                                                         *)
(* A key is a sequence, so that one may be the prefix of another.  Hits,   *)
(* misses, insertions and evictions are only ever reported and are left    *)
(* out; a get of an absent key changes nothing else.                       *)
(***************************************************************************)
EXTENDS Integers, FiniteSets, SequencesExt

CONSTANTS
    Key,          \* the keys, sequences
    Value,        \* the serialised results
    Size,         \* Size[v]: their lengths in bytes
    None,         \* no insertion
    MaxEntries,   \* CacheConfig.max_entries
    MaxMemory,    \* CacheConfig.max_memory_bytes
    Ttl,          \* CacheConfig.ttl_seconds
    MaxNow,       \* bound: the last instant
    MaxBytes      \* bound: the byte count beyond which nothing is inserted

VARIABLES
    entries,  \* QueryCache.entries: key -> [value, born, used]
    stats,    \* CacheStats.current_entries and current_memory_bytes
    now,      \* Instant::now()
    last,     \* ghost: per key the last insertion, None once invalidated
    use       \* ghost: per key its last use, and the most it has asked for

vars == <<entries, stats, now, last, use>>

CacheEntry == [value : Value, born : Nat, used : Nat]
Insertion  == [value : Value, at : Nat]
Unused     == -1

ASSUME CacheAssumption ==
    /\ Size \in [Value -> Nat]
    /\ None \notin Insertion
    /\ {MaxEntries, MaxMemory, Ttl, MaxNow, MaxBytes} \subseteq Nat

Init ==
    /\ entries = <<>>
    /\ stats = [entries |-> 0, bytes |-> 0]
    /\ now = 0
    /\ last = [k \in Key |-> None]
    /\ use = [k \in Key |-> [at |-> Unused, room |-> 0, slots |-> 0]]

----------------------------------------------------------------------------

\* The bytes of the entries of the given keys, one by one, and how many.
BytesOf(es, keys) == UNION {{k} \X (1 .. Size[es[k].value]) : k \in keys}

Held(keys) == Cardinality(BytesOf(entries, keys))

Expired(e) == now - e.born > Ttl

\* The entries without the given keys, and the count that goes with them.
RemoveAll(keys) ==
    /\ entries' = [k \in DOMAIN entries \ keys |-> entries[k]]
    /\ stats' = [entries |-> Cardinality(DOMAIN entries \ keys),
                 bytes |-> stats.bytes - Held(DOMAIN entries \cap keys)]

\* Mutant: an access is not noted, and the oldest entry is evicted.
TouchNothing(k) == UNCHANGED entries

\* Mutant: an access restarts the life of the entry.
TouchRenews(k) == entries' = [entries EXCEPT ![k].used = now, ![k].born = now]

Touch(k) == entries' = [entries EXCEPT ![k].used = now]

Used(k) == use' = [use EXCEPT ![k].at = now]

\* A hit leaves created_at alone: an entry is served for Ttl however often.
GetHit(k) ==
    /\ k \in DOMAIN entries
    /\ ~Expired(entries[k])
    /\ Touch(k)
    /\ Used(k)
    /\ UNCHANGED <<stats, now, last>>

GetExpired(k) ==
    /\ k \in DOMAIN entries
    /\ Expired(entries[k])
    /\ RemoveAll({k})
    /\ UNCHANGED <<now, last, use>>

\* Mutant: one entry too many before the limit acts.
PressedLate(keys, size) ==
    /\ keys # {}
    /\ Cardinality(keys) > MaxEntries \/ Held(keys) + size > MaxMemory

\* insert evicts while this holds for the keys still there.  The limit on
\* entries is looked at once, which is enough while there never are more.
Pressed(keys, size) ==
    /\ keys # {}
    /\ Cardinality(keys) >= MaxEntries \/ Held(keys) + size > MaxMemory

\* The sets of keys that evict_lru can take, one coldest entry after the other
\* (any of them when two were used in one instant).
Victims(size) ==
    {gone \in SUBSET DOMAIN entries :
        LET kept == DOMAIN entries \ gone IN
        /\ \A g \in gone, k \in kept : entries[g].used <= entries[k].used
        /\ ~Pressed(kept, size)
        /\ gone # {} =>
             \E g \in gone :
               /\ \A h \in gone : entries[h].used <= entries[g].used
               /\ Pressed(kept \cup {g}, size)}

\* While the old result of the key is replaced, both are counted.
Room(k, v) == Size[v] + IF k \in DOMAIN entries THEN Size[entries[k].value] ELSE 0
Slots(k) == IF k \in DOMAIN entries THEN 2 ELSE 1

Inserted(k, v) ==
    /\ last' = [last EXCEPT ![k] = [value |-> v, at |-> now]]
    /\ use' = [use EXCEPT ![k] = [at |-> now, room |-> Max({@.room, Room(k, v)}),
                                  slots |-> Max({@.slots, Slots(k)})]]

\* Mutant: only a new key adds to the count.
InsertCountingNewKeys(k, v) ==
    /\ stats.bytes + Size[v] <= MaxBytes
    /\ \E gone \in Victims(Size[v]) :
         LET keys == (DOMAIN entries \ gone) \cup {k} IN
         /\ entries' = [j \in keys |-> IF j = k
                                       THEN [value |-> v, born |-> now, used |-> now]
                                       ELSE entries[j]]
         /\ stats' = [entries |-> Cardinality(keys),
                      bytes |-> (stats.bytes - Held(gone))
                                + IF k \in DOMAIN entries THEN 0 ELSE Size[v]]
    /\ Inserted(k, v)
    /\ UNCHANGED now

\* The old entry of the key goes without its bytes being taken off.
Insert(k, v) ==
    /\ stats.bytes + Size[v] <= MaxBytes
    /\ \E gone \in Victims(Size[v]) :
         LET keys == (DOMAIN entries \ gone) \cup {k} IN
         /\ entries' = [j \in keys |-> IF j = k
                                       THEN [value |-> v, born |-> now, used |-> now]
                                       ELSE entries[j]]
         /\ stats' = [entries |-> Cardinality(keys),
                      bytes |-> (stats.bytes - Held(gone)) + Size[v]]
    /\ Inserted(k, v)
    /\ UNCHANGED now

Forget(keys) ==
    /\ last' = [k \in Key |-> IF k \in keys THEN None ELSE last[k]]
    /\ UNCHANGED use

Invalidate(k) ==
    /\ k \in DOMAIN entries
    /\ RemoveAll({k})
    /\ Forget({k})
    /\ UNCHANGED now

InvalidatePrefix(p) ==
    LET keys == {k \in Key : IsPrefix(p, k)} IN
    /\ RemoveAll(keys)
    /\ Forget(keys)
    /\ UNCHANGED now

Clear ==
    /\ entries' = <<>>
    /\ stats' = [entries |-> 0, bytes |-> 0]
    /\ Forget(Key)
    /\ UNCHANGED now

\* stats() counts what is held before it answers.
Stats ==
    /\ stats' = [entries |-> Cardinality(DOMAIN entries), bytes |-> Held(DOMAIN entries)]
    /\ UNCHANGED <<entries, now, last, use>>

Tick ==
    /\ now < MaxNow
    /\ now' = now + 1
    /\ UNCHANGED <<entries, stats, last, use>>

Next ==
    \/ \E k \in Key : GetHit(k) \/ GetExpired(k) \/ Invalidate(k)
    \/ \E k \in Key, v \in Value : Insert(k, v)
    \/ \E p \in UNION {Prefixes(k) : k \in Key} : InvalidatePrefix(p)
    \/ Clear
    \/ Stats
    \/ Tick

Spec == Init /\ [][Next]_vars

----------------------------------------------------------------------------
(* Properties *)

\* Types of the state, and the ghost of every key.
CacheTypeOK ==
    /\ DOMAIN entries \subseteq Key
    /\ \A k \in DOMAIN entries :
         /\ entries[k] \in CacheEntry
         /\ entries[k].born <= entries[k].used
         /\ entries[k].used <= now
    /\ stats.entries = Cardinality(DOMAIN entries)
    /\ last \in [Key -> {None} \cup Insertion]
    /\ now \in Nat

\* The count of bytes never falls below what is held, so that the unsigned
\* subtractions of get, evict_lru and invalidate cannot underflow, through
\* overwrites, which add without taking off, and stats(), which corrects it.
BytesCoverHeld == stats.bytes >= Held(DOMAIN entries)

\* After any sequence of inserts there are at most MaxEntries entries with at
\* most MaxMemory bytes; only an entry that does not fit by itself may exceed
\* them, alone (insert).
WithinLimits ==
    \/ Cardinality(DOMAIN entries) <= 1
    \/ /\ Cardinality(DOMAIN entries) <= MaxEntries
       /\ Held(DOMAIN entries) <= MaxMemory

\* What get can return for a key is the result inserted last, not invalidated
\* since and not older than Ttl, whatever was evicted, overwritten or read in
\* between.
HitsAreCurrent ==
    \A k \in DOMAIN entries : ~Expired(entries[k]) =>
        /\ last[k] # None
        /\ last[k].value = entries[k].value
        /\ now - last[k].at <= Ttl

\* A result that was inserted, not invalidated and is not too old is missing only
\* because of what came after it: the keys used since its own last use are as
\* many as fit, or asked for more bytes than there are, a replaced result counted
\* until its successor is in.  A result that is asked for often stays, whatever
\* is inserted meanwhile (get, insert, evict_lru; "LRU", ARCHITECTURE.md:302).
UsedSince(k) == {j \in Key : use[j].at >= use[k].at}
Slotted(keys) == Cardinality(UNION {{k} \X (1 .. use[k].slots) : k \in keys})
Asked(keys) == Cardinality(UNION {{k} \X (1 .. use[k].room) : k \in keys})
Crowded(k) ==
    \/ Slotted(UsedSince(k)) > MaxEntries
    \/ Asked(UsedSince(k)) > MaxMemory
Lasting(k) == last[k] # None /\ now - last[k].at <= Ttl
RecentlyUsedStay == \A k \in Key : Lasting(k) => k \in DOMAIN entries \/ Crowded(k)
=============================================================================
