----------------------------- MODULE Snapshots ------------------------------
(***************************************************************************)
(* The snapshot service: a table in memory, and on disk one manifest and   *)
(* one directory per snapshot.  Calls run on threads and take the locks    *)
(* one at a time; the process may crash between any two steps, and a       *)
(* restart reads the table back from the manifests.  Directories hold no   *)
(* files: a snapshot is its manifest.                                      *)
(***************************************************************************)
EXTENDS Integers, FiniteSets, Tables

CONSTANTS
  SnapThreads,        \* threads that call the service
  MaxSnapshots,       \* max_snapshots
  RetentionSeconds,   \* retention_seconds
  NanosPerSecond,     \* 10^9 in the code
  MaxSnapId,          \* bound: identifiers
  FirstClock,         \* the clock when the service starts, in seconds
  MaxClock,           \* bound: readings of the clock
  MaxCrashes          \* bound: crashes

ASSUME SnapshotsAssumption ==
  /\ {MaxSnapshots, RetentionSeconds, MaxSnapId, MaxClock, MaxCrashes} \subseteq Nat
  /\ NanosPerSecond \in Nat \ {0} /\ FirstClock \in 0..MaxClock

VARIABLES
  nextId,       \* next_id
  snapshots,    \* the table: identifier -> timestamp in nanoseconds
  manifests,    \* files <id>.manifest: identifier -> timestamp, 0 while unreadable
  snapDirs,     \* directories snapshot_<id>
  snapCalls,    \* thread -> its call in progress
  clock,        \* seconds; a snapshot reads it in nanoseconds
  crashes,      \* crashes so far
  inserted,     \* timestamps of all snapshots that were ever listed (observed)
  removed,      \* timestamps of those a caller began to delete (observed)
  cleaned,      \* timestamps of those a clean-up began to delete (observed)
  stuck         \* identifiers whose manifest could not be removed (observed)

diskVars == <<manifests, snapDirs>>
observed == <<inserted, removed, cleaned, stuck>>
snapVars == <<nextId, snapshots, diskVars, snapCalls, clock, crashes, observed>>

SnapIdle == [at |-> "idle"]
Continue(t, call) == snapCalls' = [snapCalls EXCEPT ![t] = call]
AtStep(t, label) == snapCalls[t].at = label

SnapInit ==
  /\ nextId = 1
  /\ snapshots = NoEntries /\ manifests = NoEntries /\ snapDirs = {}
  /\ snapCalls = [t \in SnapThreads |-> SnapIdle]
  /\ clock = FirstClock /\ crashes = 0
  /\ inserted = {} /\ removed = {} /\ cleaned = {} /\ stuck = {}

-----------------------------------------------------------------------------
(* create_snapshot. *)

TakeId(t) ==
  /\ AtStep(t, "idle") /\ nextId <= MaxSnapId
  /\ nextId' = nextId + 1
  /\ Continue(t, [at |-> "dir", id |-> nextId])
  /\ UNCHANGED <<snapshots, diskVars, clock, crashes, observed>>

\* The clock is read and the directory is made.
MakeDir(t) ==
  /\ AtStep(t, "dir") /\ clock < MaxClock
  /\ clock' = clock + 1
  /\ snapDirs' = snapDirs \cup {snapCalls[t].id}
  /\ Continue(t, [at |-> "manifest", id |-> snapCalls[t].id, ts |-> (clock + 1) * NanosPerSecond])
  /\ UNCHANGED <<nextId, snapshots, manifests, crashes, observed>>

\* File::create truncates, the buffer reaches the file when it is flushed.
OpenManifest(t) ==
  /\ AtStep(t, "manifest")
  /\ manifests' = Put(manifests, snapCalls[t].id, 0)
  /\ Continue(t, [snapCalls[t] EXCEPT !.at = "flush"])
  /\ UNCHANGED <<nextId, snapshots, snapDirs, clock, crashes, observed>>

FlushManifest(t) ==
  /\ AtStep(t, "flush")
  /\ manifests' = Put(manifests, snapCalls[t].id, snapCalls[t].ts)
  /\ Continue(t, [snapCalls[t] EXCEPT !.at = "insert"])
  /\ UNCHANGED <<nextId, snapshots, snapDirs, clock, crashes, observed>>

InsertSnapshot(t) ==
  /\ AtStep(t, "insert")
  /\ snapshots' = Put(snapshots, snapCalls[t].id, snapCalls[t].ts)
  /\ inserted' = inserted \cup {snapCalls[t].ts}
  /\ Continue(t, [at |-> "age"])
  /\ UNCHANGED <<nextId, diskVars, clock, crashes, removed, cleaned, stuck>>

\* A failed system call returns an error and leaves what is on disk.
CreateFails(t) ==
  /\ snapCalls[t].at \in {"dir", "manifest", "flush"}
  /\ Continue(t, SnapIdle)
  /\ UNCHANGED <<nextId, snapshots, diskVars, clock, crashes, observed>>

-----------------------------------------------------------------------------
(* cleanup_old_snapshots and delete_snapshot. *)

\* The age is compared in the units of the code: nanoseconds with seconds.
TooOld == {id \in DOMAIN snapshots : snapshots[id] < clock - RetentionSeconds}

\* Mutant: one snapshot too few is kept.
ExcessByOne ==
  {id \in DOMAIN snapshots :
     Cardinality({j \in DOMAIN snapshots : snapshots[j] > snapshots[id]}) >= MaxSnapshots - 1}

\* The identifiers beyond max_snapshots, oldest first.
Excess ==
  {id \in DOMAIN snapshots :
     Cardinality({j \in DOMAIN snapshots : snapshots[j] > snapshots[id]}) >= MaxSnapshots}

Crowded == Cardinality(DOMAIN snapshots) > MaxSnapshots

\* Both passes choose under the read lock and delete afterwards, one by one.
ChooseVictims(t, label, victims, after) ==
  /\ AtStep(t, label)
  /\ IF Crowded
     THEN Continue(t, [at |-> "delete", todo |-> victims, after |-> after])
     ELSE Continue(t, SnapIdle)
  /\ UNCHANGED <<nextId, snapshots, diskVars, clock, crashes, observed>>

ChooseByAge(t) == ChooseVictims(t, "age", TooOld, "count")
ChooseByCount(t) == ChooseVictims(t, "count", Excess, "idle")

\* The entry leaves the table first; a snapshot that is gone already is skipped.
Unlist(t, id, call) ==
  /\ IF id \in DOMAIN snapshots
     THEN /\ snapshots' = Drop(snapshots, id)
          /\ Continue(t, [at |-> "unlink", id |-> id, call |-> call])
     ELSE Continue(t, call) /\ UNCHANGED snapshots
  /\ UNCHANGED <<nextId, diskVars, clock, crashes, inserted, stuck>>

CleanupNext(t) ==
  /\ AtStep(t, "delete") /\ snapCalls[t].todo # {}
  /\ \E id \in snapCalls[t].todo :
       /\ Unlist(t, id, [snapCalls[t] EXCEPT !.todo = @ \ {id}])
       /\ cleaned' = cleaned \cup {snapshots[i] : i \in {id} \cap DOMAIN snapshots}
  /\ UNCHANGED removed

CleanupEnds(t) ==
  /\ AtStep(t, "delete") /\ snapCalls[t].todo = {}
  /\ Continue(t, [at |-> snapCalls[t].after])
  /\ UNCHANGED <<nextId, snapshots, diskVars, clock, crashes, observed>>

DeleteSnapshot(t, id) ==
  /\ AtStep(t, "idle") /\ id \in DOMAIN snapshots
  /\ Unlist(t, id, SnapIdle)
  /\ removed' = removed \cup {snapshots[id]}
  /\ UNCHANGED cleaned

\* The manifest goes before the directory; a failure of either is ignored.
RemoveManifest(t) ==
  /\ AtStep(t, "unlink")
  /\ Continue(t, [snapCalls[t] EXCEPT !.at = "rmdir"])
  /\ \/ manifests' = Drop(manifests, snapCalls[t].id) /\ UNCHANGED stuck
     \/ stuck' = stuck \cup {snapCalls[t].id} /\ UNCHANGED manifests
  /\ UNCHANGED <<nextId, snapshots, snapDirs, clock, crashes, inserted, removed, cleaned>>

RemoveDir(t) ==
  /\ AtStep(t, "rmdir")
  /\ snapDirs' = snapDirs \ {snapCalls[t].id}
  /\ Continue(t, snapCalls[t].call)
  /\ UNCHANGED <<nextId, snapshots, manifests, clock, crashes, observed>>

-----------------------------------------------------------------------------
\* Mutant: a manifest that cannot be read is loaded like the others.
ReadableAll == DOMAIN manifests

\* Mutant: the next identifier is the number of snapshots read.
RestartCounting ==
  /\ crashes < MaxCrashes
  /\ crashes' = crashes + 1
  /\ LET readable == {id \in DOMAIN manifests : manifests[id] # 0}
     IN  /\ snapshots' = Restrict(manifests, readable)
         /\ nextId' = Cardinality(readable) + 1
  /\ snapCalls' = [t \in SnapThreads |-> SnapIdle]
  /\ inserted' = inserted \cup Entries(snapshots')
  /\ UNCHANGED <<diskVars, clock, removed, cleaned, stuck>>

\* load_existing_snapshots: unreadable manifests are skipped.
Readable == {id \in DOMAIN manifests : manifests[id] # 0}

Restart ==
  /\ crashes < MaxCrashes
  /\ crashes' = crashes + 1
  /\ snapshots' = Restrict(manifests, Readable)
  /\ nextId' = IF Readable = {} THEN 1 ELSE (CHOOSE m \in Readable : \A i \in Readable : i <= m) + 1
  /\ snapCalls' = [t \in SnapThreads |-> SnapIdle]
  /\ inserted' = inserted \cup Entries(snapshots')
  /\ UNCHANGED <<diskVars, clock, removed, cleaned, stuck>>

SnapNext ==
  \/ Restart
  \/ \E t \in SnapThreads :
       \/ TakeId(t) \/ MakeDir(t) \/ OpenManifest(t) \/ FlushManifest(t)
       \/ InsertSnapshot(t) \/ CreateFails(t)
       \/ ChooseByAge(t) \/ ChooseByCount(t) \/ CleanupNext(t) \/ CleanupEnds(t)
       \/ RemoveManifest(t) \/ RemoveDir(t)
       \/ \E id \in 1..MaxSnapId : DeleteSnapshot(t, id)

SnapSpec == SnapInit /\ [][SnapNext]_snapVars

-----------------------------------------------------------------------------
(* Properties. *)

\* What is listed is on disk: a complete manifest, and the directory, unless an
\* earlier deletion of the same identifier failed to remove its manifest.
\* Creation lists last and deletion unlists first, with calls on all threads.
ListedIsComplete ==
  \A id \in DOMAIN snapshots :
    /\ id \in DOMAIN manifests /\ manifests[id] # 0 /\ manifests[id] = snapshots[id]
    /\ id \notin stuck => id \in snapDirs

\* A snapshot that was listed once stays listed, across crashes and restarts,
\* until a caller or a clean-up deletes it.
ListedStays == inserted \subseteq Entries(snapshots) \cup removed \cup cleaned

\* The clean-up only ever deletes a snapshot when max_snapshots newer ones had
\* been listed: its passes choose under one lock and delete under others while
\* other threads create and delete.
SnapshotCleanupKeepsNewest ==
  \A ts \in cleaned : Cardinality({u \in inserted : u > ts}) >= MaxSnapshots
=============================================================================
