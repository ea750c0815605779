---------------------------- MODULE CopiesProofs ----------------------------
(***************************************************************************)
(* Proofs about the two that copy the data directory.                      *)
(* Snapshots: what is listed is on disk, for any number of threads and any *)
(* crashes.  The argument: identifiers in progress belong to one thread    *)
(* each and are not listed, a manifest is never without its directory      *)
(* unless its removal failed, and a restart numbers on from the largest    *)
(* identifier that it lists.  The clean-up deletes nothing of the newest:  *)
(* what it has chosen was out of date when it looked, the snapshots above  *)
(* it only gain company, and no chosen identifier is given out again       *)
(* before a restart ends the clean-up.                                     *)
(* Backups: where a chain of incremental backups ends, and what the        *)
(* clean-up leaves.                                                        *)
(***************************************************************************)
EXTENDS Snapshots, Backups, ListProofs

-----------------------------------------------------------------------------
(* The inductive invariant. *)

\* Calls that work on an identifier, and those that do not.
WithId(call) == call.at \in {"dir", "manifest", "flush", "insert", "unlink", "rmdir"}
Quiet(call) ==
  \/ call.at \in {"idle", "age", "count"}
  \/ call \in [at : {"delete"}, todo : {call.todo}, after : {"idle", "count"}]

IsCall(call) ==
  \/ Quiet(call)
  \/ call \in [at : {"dir"}, id : {call.id}]
  \/ call \in [at : {"manifest", "flush", "insert"}, id : {call.id}, ts : {call.ts}]
  \/ /\ call \in [at : {"unlink", "rmdir"}, id : {call.id}, call : {call.call}]
     /\ Quiet(call.call)

\* What holds of a call, with this next identifier, table, disk and stuck ones.
CallFits(call, next, table, disk, dirs, left) ==
  /\ IsCall(call)
  /\ WithId(call) => call.id \in 1..(next - 1) /\ call.id \notin DOMAIN table
  /\ call.at \in {"manifest", "flush", "insert"} => call.id \in dirs /\ call.ts # 0
  /\ call.at = "insert" => call.id \in DOMAIN disk /\ disk[call.id] = call.ts
  /\ call.at = "rmdir" => call.id \notin DOMAIN disk \/ call.id \in left

\* No two calls work on the same identifier.
Apart(calls) ==
  \A t, u \in SnapThreads : t # u /\ WithId(calls[t]) /\ WithId(calls[u]) => calls[t].id # calls[u].id

CallsFit(calls, next, table, disk, dirs, left) ==
  /\ calls = [t \in SnapThreads |-> calls[t]]
  /\ \A t \in SnapThreads : CallFits(calls[t], next, table, disk, dirs, left)
  /\ Apart(calls)

\* What holds of the table and the disk.
DiskFits(next, table, disk, dirs, left) ==
  /\ next \in 1..(MaxSnapId + 1)
  /\ DOMAIN table \subseteq 1..(next - 1)
  /\ DOMAIN disk \subseteq 1..MaxSnapId
  /\ \A id \in DOMAIN disk : id \in dirs \/ id \in left
  /\ \A id \in DOMAIN table : id \in DOMAIN disk /\ disk[id] # 0 /\ disk[id] = table[id]

SnapInv ==
  /\ clock \in Nat
  /\ DiskFits(nextId, snapshots, manifests, snapDirs, stuck)
  /\ CallsFit(snapCalls, nextId, snapshots, manifests, snapDirs, stuck)

LEMMA SnapInvInit == SnapInit => SnapInv
BY SnapshotsAssumption
   DEF SnapInit, SnapInv, DiskFits, CallsFit, CallFits, Apart, IsCall, Quiet, WithId, SnapIdle, NoEntries

LEMMA ListedIsInv == SnapInv => ListedIsComplete
BY DEF SnapInv, DiskFits, ListedIsComplete

\* A step of thread t that leaves alone what other calls work on.
LEMMA CallsStep ==
  ASSUME SnapInv, NEW t \in SnapThreads, NEW call, Continue(t, call),
         NEW next \in Nat, NEW table, NEW disk, NEW dirs, NEW left,
         nextId <= next, stuck \subseteq left,
         CallFits(call, next, table, disk, dirs, left),
         WithId(call) =>
           \A u \in SnapThreads \ {t} : WithId(snapCalls[u]) => snapCalls[u].id # call.id,
         \A u \in SnapThreads \ {t} : WithId(snapCalls[u]) =>
           LET id == snapCalls[u].id
           IN  /\ id \notin DOMAIN table
               /\ id \in snapDirs => id \in dirs
               /\ id \in DOMAIN disk <=> id \in DOMAIN manifests
               /\ id \in DOMAIN disk => disk[id] = manifests[id]
  PROVE  CallsFit(snapCalls', next, table, disk, dirs, left)
<1>1. /\ snapCalls' = [u \in SnapThreads |-> snapCalls'[u]]
      /\ snapCalls'[t] = call
      /\ \A u \in SnapThreads \ {t} : snapCalls'[u] = snapCalls[u]
  BY DEF SnapInv, CallsFit, Continue
<1>2. ASSUME NEW u \in SnapThreads \ {t}
      PROVE  CallFits(snapCalls'[u], next, table, disk, dirs, left)
  <2>1. /\ snapCalls'[u] = snapCalls[u]
        /\ CallFits(snapCalls[u], nextId, snapshots, manifests, snapDirs, stuck)
        /\ nextId \in Nat
    BY <1>1, SnapshotsAssumption DEF SnapInv, CallsFit, DiskFits
  <2> QED
    BY <2>1 DEF CallFits, WithId
<1>3. Apart(snapCalls')
  BY <1>1 DEF Apart, SnapInv, CallsFit
<1> QED
  BY <1>1, <1>2, <1>3 DEF CallsFit

-----------------------------------------------------------------------------
(* The operations, in the order of Snapshots. *)

\* A call that stops to work on an identifier, with table and disk as they are.
LEMMA QuietStep ==
  ASSUME SnapInv, NEW t \in SnapThreads, NEW call, Continue(t, call), Quiet(call),
         UNCHANGED <<nextId, snapshots, diskVars, clock, stuck>>
  PROVE  SnapInv'
<1>1. CallFits(call, nextId, snapshots, manifests, snapDirs, stuck) /\ ~WithId(call)
  BY DEF CallFits, IsCall, Quiet, WithId
<1>2. \A u \in SnapThreads : WithId(snapCalls[u]) => snapCalls[u].id \notin DOMAIN snapshots
  BY DEF SnapInv, CallsFit, CallFits
<1>3. nextId \in Nat
  BY SnapshotsAssumption DEF SnapInv, DiskFits
<1>4. CallsFit(snapCalls', nextId, snapshots, manifests, snapDirs, stuck)
  BY <1>1, <1>2, <1>3, CallsStep
<1> QED
  BY <1>4 DEF SnapInv, diskVars

LEMMA TakeIdStep ==
  ASSUME SnapInv, NEW t \in SnapThreads, TakeId(t)
  PROVE  SnapInv'
<1> DEFINE call == [at |-> "dir", id |-> nextId]
<1>1. /\ nextId \in 1..MaxSnapId /\ nextId' = nextId + 1 /\ nextId' \in 1..(MaxSnapId + 1)
      /\ nextId \in Nat /\ nextId' \in Nat
      /\ Continue(t, call) /\ UNCHANGED <<snapshots, diskVars, clock, stuck>>
  BY SnapshotsAssumption DEF SnapInv, DiskFits, TakeId, observed
<1>2. DOMAIN snapshots \subseteq 1..(nextId - 1)
  BY DEF SnapInv, DiskFits
<1>3. DiskFits(nextId', snapshots, manifests, snapDirs, stuck)
  <2>1. DOMAIN snapshots \subseteq 1..(nextId' - 1)
    BY <1>1, <1>2
  <2> QED
    BY <1>1, <2>1 DEF SnapInv, DiskFits
<1>4. CallFits(call, nextId', snapshots, manifests, snapDirs, stuck)
  BY <1>1, <1>2 DEF CallFits, IsCall, WithId
<1>5. \A u \in SnapThreads : WithId(snapCalls[u]) =>
        snapCalls[u].id # nextId /\ snapCalls[u].id \notin DOMAIN snapshots
  BY <1>1 DEF SnapInv, CallsFit, CallFits
<1>6. call.id = nextId
  OBVIOUS
<1> HIDE DEF call
<1>7. CallsFit(snapCalls', nextId', snapshots, manifests, snapDirs, stuck)
  BY <1>1, <1>4, <1>5, <1>6, CallsStep
<1> QED
  BY <1>1, <1>3, <1>7 DEF SnapInv, diskVars

\* What a call in progress says about the state it works on.
LEMMA CallFacts ==
  ASSUME SnapInv, NEW t \in SnapThreads
  PROVE  /\ CallFits(snapCalls[t], nextId, snapshots, manifests, snapDirs, stuck)
         /\ nextId \in Nat /\ clock \in Nat
         /\ DiskFits(nextId, snapshots, manifests, snapDirs, stuck)
         /\ WithId(snapCalls[t]) =>
              \A u \in SnapThreads \ {t} :
                WithId(snapCalls[u]) => /\ snapCalls[u].id # snapCalls[t].id
                                        /\ snapCalls[u].id \notin DOMAIN snapshots
         /\ \A u \in SnapThreads : WithId(snapCalls[u]) => snapCalls[u].id \notin DOMAIN snapshots
BY SnapshotsAssumption DEF SnapInv, CallsFit, CallFits, DiskFits, Apart

LEMMA MakeDirStep ==
  ASSUME SnapInv, NEW t \in SnapThreads, MakeDir(t)
  PROVE  SnapInv'
<1> DEFINE id == snapCalls[t].id
           ts == (clock + 1) * NanosPerSecond
           call == [at |-> "manifest", id |-> id, ts |-> ts]
<1>1. /\ WithId(snapCalls[t]) /\ clock' = clock + 1 /\ snapDirs' = snapDirs \cup {id}
      /\ Continue(t, call) /\ UNCHANGED <<nextId, snapshots, manifests, stuck>>
  BY DEF MakeDir, AtStep, WithId, observed
<1>2. id \in 1..(nextId - 1) /\ id \notin DOMAIN snapshots
  BY <1>1, CallFacts DEF CallFits
<1>3. ts # 0
  <2>1. \A a, b \in Nat \ {0} : a * b # 0
    OBVIOUS
  <2>2. clock + 1 \in Nat \ {0}
    BY CallFacts
  <2> QED
    BY <2>1, <2>2, SnapshotsAssumption
<1> HIDE DEF ts
<1>4. CallFits(call, nextId, snapshots, manifests, snapDirs', stuck) /\ WithId(call) /\ call.id = id
  BY <1>1, <1>2, <1>3 DEF CallFits, IsCall, WithId
<1> HIDE DEF call
<1>5. CallsFit(snapCalls', nextId, snapshots, manifests, snapDirs', stuck)
  <2>1. \A u \in SnapThreads \ {t} : WithId(snapCalls[u]) =>
          snapCalls[u].id # id /\ snapCalls[u].id \notin DOMAIN snapshots
    BY <1>1, CallFacts
  <2>2. nextId \in Nat
    BY CallFacts
  <2> QED
    BY <1>1, <1>4, <2>1, <2>2, CallsStep
<1>6. DiskFits(nextId, snapshots, manifests, snapDirs', stuck)
  BY <1>1, CallFacts DEF DiskFits
<1> QED
  BY <1>1, <1>5, <1>6 DEF SnapInv

\* The call goes on with its record, at another step of the creation.
LEMMA GoesOn ==
  ASSUME NEW call, IsCall(call), call.at \in {"manifest", "flush"}, NEW label \in {"flush", "insert"}
  PROVE  LET next == [call EXCEPT !.at = label]
         IN  IsCall(next) /\ next.at = label /\ next.id = call.id /\ next.ts = call.ts
BY DEF IsCall, Quiet

\* A manifest is opened or filled: the timestamp, or 0, gets there.
Writes(t, label, ts) ==
  /\ snapCalls[t].at \in {"manifest", "flush"}
  /\ label = "insert" => ts = snapCalls[t].ts
  /\ Continue(t, [snapCalls[t] EXCEPT !.at = label])
  /\ manifests' = Put(manifests, snapCalls[t].id, ts)
  /\ UNCHANGED <<nextId, snapshots, snapDirs, clock, stuck>>

LEMMA WriteStep ==
  ASSUME SnapInv, NEW t \in SnapThreads, NEW label \in {"flush", "insert"}, NEW ts,
         Writes(t, label, ts)
  PROVE  SnapInv'
<1> DEFINE id == snapCalls[t].id
           call == [snapCalls[t] EXCEPT !.at = label]
<1>1. /\ id \in 1..(nextId - 1) /\ id \in 1..MaxSnapId /\ id \notin DOMAIN snapshots
      /\ id \in snapDirs /\ snapCalls[t].ts # 0 /\ WithId(snapCalls[t])
      /\ nextId \in Nat
  BY CallFacts, SnapshotsAssumption DEF CallFits, WithId, DiskFits, Writes
<1>2. IsCall(call) /\ call.at = label /\ call.id = id /\ call.ts = snapCalls[t].ts
  BY CallFacts, GoesOn DEF CallFits, Writes
<1>3. /\ DOMAIN manifests' = DOMAIN manifests \cup {id} /\ manifests'[id] = ts
      /\ \A k \in DOMAIN manifests : k # id => manifests'[k] = manifests[k]
  BY DEF Put, Writes
<1> HIDE DEF call
<1>4. CallFits(call, nextId, snapshots, manifests', snapDirs, stuck)
  BY <1>1, <1>2, <1>3 DEF CallFits, WithId, Writes
<1>5. CallsFit(snapCalls', nextId, snapshots, manifests', snapDirs, stuck)
  <2>1. \A u \in SnapThreads \ {t} : WithId(snapCalls[u]) =>
          snapCalls[u].id # id /\ snapCalls[u].id \notin DOMAIN snapshots
    BY <1>1, CallFacts
  <2>2. Continue(t, call)
    BY DEF call, Writes
  <2> QED
    BY <1>1, <1>2, <1>3, <1>4, <2>1, <2>2, CallsStep DEF Writes
<1>6. DiskFits(nextId, snapshots, manifests', snapDirs, stuck)
  BY <1>1, <1>3, CallFacts DEF DiskFits
<1> QED
  BY <1>5, <1>6 DEF SnapInv, Writes

LEMMA OpenManifestStep ==
  ASSUME SnapInv, NEW t \in SnapThreads, OpenManifest(t)
  PROVE  SnapInv'
<1>1. Writes(t, "flush", 0)
  BY DEF OpenManifest, AtStep, observed, Writes
<1> QED
  BY <1>1, WriteStep

LEMMA FlushManifestStep ==
  ASSUME SnapInv, NEW t \in SnapThreads, FlushManifest(t)
  PROVE  SnapInv'
<1>1. Writes(t, "insert", snapCalls[t].ts)
  BY DEF FlushManifest, AtStep, observed, Writes
<1> QED
  BY <1>1, WriteStep

LEMMA InsertSnapshotStep ==
  ASSUME SnapInv, NEW t \in SnapThreads, InsertSnapshot(t)
  PROVE  SnapInv'
<1> DEFINE id == snapCalls[t].id
           call == [at |-> "age"]
<1>1. /\ WithId(snapCalls[t]) /\ snapCalls[t].at = "insert"
      /\ snapshots' = Put(snapshots, id, snapCalls[t].ts)
      /\ Continue(t, call) /\ UNCHANGED <<nextId, manifests, snapDirs, clock, stuck>>
  BY DEF InsertSnapshot, AtStep, WithId, diskVars
<1>2. /\ id \in 1..(nextId - 1) /\ id \in DOMAIN manifests /\ manifests[id] = snapCalls[t].ts
      /\ snapCalls[t].ts # 0 /\ nextId \in Nat
  BY <1>1, CallFacts DEF CallFits
<1>3. /\ DOMAIN snapshots' = DOMAIN snapshots \cup {id} /\ snapshots'[id] = snapCalls[t].ts
      /\ \A k \in DOMAIN snapshots : k # id => snapshots'[k] = snapshots[k]
  BY <1>1 DEF Put
<1>4. CallFits(call, nextId, snapshots', manifests, snapDirs, stuck) /\ ~WithId(call)
  BY DEF CallFits, IsCall, Quiet, WithId
<1> HIDE DEF call
<1>5. CallsFit(snapCalls', nextId, snapshots', manifests, snapDirs, stuck)
  <2>1. \A u \in SnapThreads \ {t} : WithId(snapCalls[u]) =>
          snapCalls[u].id # id /\ snapCalls[u].id \notin DOMAIN snapshots
    BY <1>1, CallFacts
  <2> QED
    BY <1>1, <1>2, <1>3, <1>4, <2>1, CallsStep
<1>6. DiskFits(nextId, snapshots', manifests, snapDirs, stuck)
  BY <1>2, <1>3, CallFacts DEF DiskFits
<1> QED
  BY <1>1, <1>5, <1>6 DEF SnapInv

LEMMA CreateFailsStep ==
  ASSUME SnapInv, NEW t \in SnapThreads, CreateFails(t)
  PROVE  SnapInv'
<1>1. Quiet(SnapIdle)
  BY DEF Quiet, SnapIdle
<1> QED
  BY <1>1, QuietStep DEF CreateFails, observed

LEMMA ChooseStep ==
  ASSUME SnapInv, NEW t \in SnapThreads, ChooseByAge(t) \/ ChooseByCount(t)
  PROVE  SnapInv'
<1>1. \A victims, after : after \in {"idle", "count"} =>
        Quiet([at |-> "delete", todo |-> victims, after |-> after])
  BY DEF Quiet
<1>2. Quiet(SnapIdle)
  BY DEF Quiet, SnapIdle
<1>3. \E call : Quiet(call) /\ Continue(t, call)
  <2>1. CASE Crowded
    BY <1>1, <2>1 DEF ChooseByAge, ChooseByCount, ChooseVictims
  <2>2. CASE ~Crowded
    BY <1>2, <2>2 DEF ChooseByAge, ChooseByCount, ChooseVictims
  <2> QED
    BY <2>1, <2>2
<1> QED
  BY <1>3, QuietStep DEF ChooseByAge, ChooseByCount, ChooseVictims, observed

LEMMA CleanupEndsStep ==
  ASSUME SnapInv, NEW t \in SnapThreads, CleanupEnds(t)
  PROVE  SnapInv'
<1>1. Quiet([at |-> snapCalls[t].after])
  <2>1. IsCall(snapCalls[t]) /\ snapCalls[t].at = "delete"
    BY CallFacts DEF CallFits, CleanupEnds, AtStep
  <2>2. snapCalls[t].after \in {"idle", "count"}
    BY <2>1 DEF IsCall, Quiet
  <2> QED
    BY <2>2 DEF Quiet
<1> QED
  BY <1>1, QuietStep DEF CleanupEnds, observed

\* A snapshot leaves the table, and its identifier belongs to the call.
LEMMA UnlistStep ==
  ASSUME SnapInv, NEW t \in SnapThreads, NEW id, NEW call, Quiet(call), Unlist(t, id, call)
  PROVE  SnapInv'
<1>1. CASE id \notin DOMAIN snapshots
  BY <1>1, QuietStep DEF Unlist
<1>2. CASE id \in DOMAIN snapshots
  <2> DEFINE next == [at |-> "unlink", id |-> id, call |-> call]
  <2>1. /\ snapshots' = Drop(snapshots, id) /\ Continue(t, next)
        /\ UNCHANGED <<nextId, manifests, snapDirs, clock, stuck>>
    BY <1>2 DEF Unlist, diskVars
  <2>2. /\ DOMAIN snapshots' = DOMAIN snapshots \ {id}
        /\ \A k \in DOMAIN snapshots' : snapshots'[k] = snapshots[k]
    BY <2>1 DEF Drop, Restrict
  <2>3. id \in 1..(nextId - 1) /\ nextId \in Nat
    BY <1>2, CallFacts DEF DiskFits
  <2>4. /\ CallFits(next, nextId, snapshots', manifests, snapDirs, stuck)
        /\ WithId(next) /\ next.id = id
    BY <2>2, <2>3 DEF CallFits, IsCall, WithId
  <2> HIDE DEF next
  <2>5. \A u \in SnapThreads \ {t} : WithId(snapCalls[u]) =>
          snapCalls[u].id # id /\ snapCalls[u].id \notin DOMAIN snapshots'
    BY <1>2, <2>2, CallFacts
  <2>6. CallsFit(snapCalls', nextId, snapshots', manifests, snapDirs, stuck)
    BY <2>1, <2>3, <2>4, <2>5, CallsStep
  <2>7. DiskFits(nextId, snapshots', manifests, snapDirs, stuck)
    BY <2>2, CallFacts DEF DiskFits
  <2> QED
    BY <2>1, <2>6, <2>7 DEF SnapInv
<1> QED
  BY <1>1, <1>2

LEMMA CleanupNextStep ==
  ASSUME SnapInv, NEW t \in SnapThreads, CleanupNext(t)
  PROVE  SnapInv'
<1>1. PICK id : Unlist(t, id, [snapCalls[t] EXCEPT !.todo = @ \ {id}])
  BY DEF CleanupNext
<1>2. Quiet([snapCalls[t] EXCEPT !.todo = @ \ {id}])
  <2>1. IsCall(snapCalls[t]) /\ snapCalls[t].at = "delete"
    BY CallFacts DEF CallFits, CleanupNext, AtStep
  <2> QED
    BY <2>1 DEF IsCall, Quiet
<1> QED
  BY <1>1, <1>2, UnlistStep

LEMMA DeleteSnapshotStep ==
  ASSUME SnapInv, NEW t \in SnapThreads, NEW id, DeleteSnapshot(t, id)
  PROVE  SnapInv'
<1>1. Quiet(SnapIdle)
  BY DEF Quiet, SnapIdle
<1> QED
  BY <1>1, UnlistStep DEF DeleteSnapshot

LEMMA RemoveManifestStep ==
  ASSUME SnapInv, NEW t \in SnapThreads, RemoveManifest(t)
  PROVE  SnapInv'
<1> DEFINE id == snapCalls[t].id
           call == [snapCalls[t] EXCEPT !.at = "rmdir"]
<1>1. /\ WithId(snapCalls[t]) /\ snapCalls[t].at = "unlink" /\ Continue(t, call)
      /\ UNCHANGED <<nextId, snapshots, snapDirs, clock>>
      /\ \/ manifests' = Drop(manifests, id) /\ stuck' = stuck
         \/ manifests' = manifests /\ stuck' = stuck \cup {id}
  BY DEF RemoveManifest, AtStep, WithId
<1>2. /\ IsCall(call) /\ call.at = "rmdir" /\ call.id = id /\ WithId(call)
      /\ id \in 1..(nextId - 1) /\ id \notin DOMAIN snapshots /\ nextId \in Nat
  BY <1>1, CallFacts DEF CallFits, IsCall, Quiet, WithId
<1> HIDE DEF call
<1>3. /\ DOMAIN manifests' \subseteq DOMAIN manifests
      /\ DOMAIN manifests \ {id} \subseteq DOMAIN manifests'
      /\ \A k \in DOMAIN manifests' : manifests'[k] = manifests[k]
      /\ id \in DOMAIN manifests' => id \in stuck'
      /\ stuck \subseteq stuck'
  BY <1>1 DEF Drop, Restrict
<1>4. CallFits(call, nextId, snapshots, manifests', snapDirs, stuck')
  BY <1>2, <1>3 DEF CallFits
<1>5. CallsFit(snapCalls', nextId, snapshots, manifests', snapDirs, stuck')
  <2>1. \A u \in SnapThreads \ {t} : WithId(snapCalls[u]) =>
          snapCalls[u].id # id /\ snapCalls[u].id \notin DOMAIN snapshots
    BY <1>1, CallFacts
  <2> QED
    BY <1>1, <1>2, <1>3, <1>4, <2>1, CallsStep
<1>6. DiskFits(nextId, snapshots, manifests', snapDirs, stuck')
  BY <1>2, <1>3, CallFacts DEF DiskFits
<1> QED
  BY <1>1, <1>5, <1>6 DEF SnapInv

LEMMA RemoveDirStep ==
  ASSUME SnapInv, NEW t \in SnapThreads, RemoveDir(t)
  PROVE  SnapInv'
<1> DEFINE id == snapCalls[t].id
           call == snapCalls[t].call
<1>1. /\ WithId(snapCalls[t]) /\ snapCalls[t].at = "rmdir" /\ Continue(t, call)
      /\ snapDirs' = snapDirs \ {id}
      /\ UNCHANGED <<nextId, snapshots, manifests, clock, stuck>>
  BY DEF RemoveDir, AtStep, WithId, observed
<1>2. /\ Quiet(call) /\ nextId \in Nat
      /\ id \notin DOMAIN manifests \/ id \in stuck
  BY <1>1, CallFacts DEF CallFits, IsCall, Quiet
<1>3. CallFits(call, nextId, snapshots, manifests, snapDirs', stuck) /\ ~WithId(call)
  BY <1>2 DEF CallFits, IsCall, Quiet, WithId
<1>4. CallsFit(snapCalls', nextId, snapshots, manifests, snapDirs', stuck)
  <2>1. \A u \in SnapThreads \ {t} : WithId(snapCalls[u]) =>
          snapCalls[u].id # id /\ snapCalls[u].id \notin DOMAIN snapshots
    BY <1>1, CallFacts
  <2> HIDE DEF call, id
  <2> QED
    BY <1>1, <1>2, <1>3, <2>1, CallsStep
<1>5. DiskFits(nextId, snapshots, manifests, snapDirs', stuck)
  BY <1>1, <1>2, CallFacts DEF DiskFits
<1> QED
  BY <1>1, <1>4, <1>5 DEF SnapInv

\* The table is read back, and the numbering goes on above it.
LEMMA RestartStep ==
  ASSUME SnapInv, Restart
  PROVE  SnapInv'
<1>1. /\ snapshots' = Restrict(manifests, Readable)
      /\ nextId' = IF Readable = {} THEN 1
                   ELSE (CHOOSE m \in Readable : \A i \in Readable : i <= m) + 1
      /\ snapCalls' = [t \in SnapThreads |-> SnapIdle]
      /\ UNCHANGED <<manifests, snapDirs, clock, stuck>>
  BY DEF Restart, diskVars
<1>2. MaxSnapId \in Nat /\ Readable \subseteq 1..MaxSnapId /\ Readable \subseteq DOMAIN manifests
  BY SnapshotsAssumption DEF SnapInv, DiskFits, Readable
<1>3. nextId' \in 1..(MaxSnapId + 1) /\ Readable \subseteq 1..(nextId' - 1)
  <2>1. CASE Readable = {}
    BY <1>1, <1>2, <2>1
  <2>2. CASE Readable # {}
    <3>1. \E m \in Readable : \A i \in Readable : i <= m
      <4>1. Readable \subseteq 0..MaxSnapId
        BY <1>2
      <4> QED
        BY <1>2, <2>2, <4>1, GreatestExists
    <3>2. PICK m \in Readable : (\A i \in Readable : i <= m) /\ nextId' = m + 1
      BY <1>1, <2>2, <3>1
    <3> QED
      BY <1>2, <3>2
  <2> QED
    BY <2>1, <2>2
<1>4. /\ DOMAIN snapshots' = Readable
      /\ \A id \in Readable : snapshots'[id] = manifests[id] /\ manifests[id] # 0
  BY <1>1 DEF Restrict, Readable
<1>5. DiskFits(nextId', snapshots', manifests, snapDirs, stuck)
  BY <1>2, <1>3, <1>4 DEF SnapInv, DiskFits
<1>6. CallsFit(snapCalls', nextId', snapshots', manifests, snapDirs, stuck)
  BY <1>1 DEF CallsFit, CallFits, Apart, IsCall, Quiet, WithId, SnapIdle
<1> QED
  BY <1>1, <1>5, <1>6 DEF SnapInv

LEMMA SnapInvStep == SnapInv /\ [SnapNext]_snapVars => SnapInv'
<1> SUFFICES ASSUME SnapInv, [SnapNext]_snapVars PROVE SnapInv'
  OBVIOUS
<1>1. CASE UNCHANGED snapVars
  BY <1>1 DEF snapVars, diskVars, observed, SnapInv
<1>2. CASE Restart
  BY <1>2, RestartStep
<1>3. ASSUME NEW t \in SnapThreads,
             \/ TakeId(t) \/ MakeDir(t) \/ OpenManifest(t) \/ FlushManifest(t)
             \/ InsertSnapshot(t) \/ CreateFails(t)
      PROVE  SnapInv'
  BY <1>3, TakeIdStep, MakeDirStep, OpenManifestStep, FlushManifestStep, InsertSnapshotStep,
     CreateFailsStep
<1>4. ASSUME NEW t \in SnapThreads,
             \/ ChooseByAge(t) \/ ChooseByCount(t) \/ CleanupNext(t) \/ CleanupEnds(t)
             \/ RemoveManifest(t) \/ RemoveDir(t)
      PROVE  SnapInv'
  BY <1>4, ChooseStep, CleanupNextStep, CleanupEndsStep, RemoveManifestStep, RemoveDirStep
<1>5. ASSUME NEW t \in SnapThreads, NEW id, DeleteSnapshot(t, id) PROVE SnapInv'
  BY <1>5, DeleteSnapshotStep
<1> QED
  BY <1>1, <1>2, <1>3, <1>4, <1>5 DEF SnapNext

\* Whatever the threads and wherever the process crashes, a listed snapshot has
\* its complete manifest on disk and, unless a removal of that manifest failed
\* before, its directory: create_snapshot lists last, delete_snapshot unlists
\* first, and load_existing_snapshots skips what is not complete.
THEOREM ListedSnapshotsAreComplete == SnapSpec => []ListedIsComplete
BY SnapInvInit, SnapInvStep, ListedIsInv, PTL DEF SnapSpec

-----------------------------------------------------------------------------
(* What was listed stays listed until it is deleted. *)

\* A step that leaves the table alone.
LEMMA TableKept ==
  ASSUME ListedStays, snapshots' = snapshots, inserted' = inserted,
         removed \subseteq removed', cleaned \subseteq cleaned'
  PROVE  ListedStays'
BY DEF ListedStays

\* A deletion records what it takes out of the table.
LEMMA UnlistKept ==
  ASSUME ListedStays, NEW t \in SnapThreads, NEW id, NEW call, Unlist(t, id, call),
         removed \subseteq removed', cleaned \subseteq cleaned',
         id \in DOMAIN snapshots => snapshots[id] \in removed' \cup cleaned'
  PROVE  ListedStays'
<1>1. CASE id \notin DOMAIN snapshots
  BY <1>1, TableKept DEF Unlist
<1>2. CASE id \in DOMAIN snapshots
  <2>1. /\ DOMAIN snapshots' = DOMAIN snapshots \ {id} /\ inserted' = inserted
        /\ \A k \in DOMAIN snapshots' : snapshots'[k] = snapshots[k]
    BY <1>2 DEF Unlist, Drop, Restrict
  <2>2. \A ts \in Entries(snapshots) : ts \in Entries(snapshots') \/ ts = snapshots[id]
    BY <2>1 DEF Entries
  <2> QED
    BY <1>2, <2>1, <2>2 DEF ListedStays
<1> QED
  BY <1>1, <1>2

LEMMA ListedStaysStep == SnapInv /\ ListedStays /\ [SnapNext]_snapVars => ListedStays'
<1> SUFFICES ASSUME SnapInv, ListedStays, [SnapNext]_snapVars PROVE ListedStays'
  OBVIOUS
<1>1. CASE UNCHANGED snapVars
  BY <1>1, TableKept DEF snapVars, observed
<1>2. CASE Restart
  <2>1. /\ snapshots' = Restrict(manifests, Readable)
        /\ inserted' = inserted \cup Entries(snapshots') /\ UNCHANGED <<removed, cleaned>>
    BY <1>2 DEF Restart
  <2>2. \A id \in DOMAIN snapshots : id \in Readable /\ manifests[id] = snapshots[id]
    BY DEF SnapInv, DiskFits, Readable
  <2>3. \A id \in DOMAIN snapshots : id \in DOMAIN snapshots' /\ snapshots'[id] = snapshots[id]
    BY <2>1, <2>2 DEF Restrict
  <2>4. Entries(snapshots) \subseteq Entries(snapshots')
    BY <2>3 DEF Entries
  <2> QED
    BY <2>1, <2>4 DEF ListedStays
<1>3. ASSUME NEW t \in SnapThreads, InsertSnapshot(t) PROVE ListedStays'
  <2> DEFINE id == snapCalls[t].id
  <2>1. /\ snapshots' = Put(snapshots, id, snapCalls[t].ts) /\ id \notin DOMAIN snapshots
        /\ inserted' = inserted \cup {snapCalls[t].ts} /\ UNCHANGED <<removed, cleaned>>
    BY <1>3, CallFacts DEF InsertSnapshot, AtStep, CallFits, WithId
  <2>2. /\ DOMAIN snapshots' = DOMAIN snapshots \cup {id} /\ snapshots'[id] = snapCalls[t].ts
        /\ \A k \in DOMAIN snapshots : snapshots'[k] = snapshots[k]
    BY <2>1 DEF Put
  <2>3. Entries(snapshots) \cup {snapCalls[t].ts} \subseteq Entries(snapshots')
    BY <2>2 DEF Entries
  <2> QED
    BY <2>1, <2>3 DEF ListedStays
<1>4. ASSUME NEW t \in SnapThreads, CleanupNext(t) PROVE ListedStays'
  <2>1. PICK id : /\ Unlist(t, id, [snapCalls[t] EXCEPT !.todo = @ \ {id}])
                  /\ cleaned' = cleaned \cup {snapshots[i] : i \in {id} \cap DOMAIN snapshots}
                  /\ removed' = removed
    BY <1>4 DEF CleanupNext
  <2>2. id \in DOMAIN snapshots => snapshots[id] \in cleaned'
    BY <2>1
  <2> QED
    BY <2>1, <2>2, UnlistKept
<1>5. ASSUME NEW t \in SnapThreads, NEW id, DeleteSnapshot(t, id) PROVE ListedStays'
  BY <1>5, UnlistKept DEF DeleteSnapshot
<1>6. ASSUME NEW t \in SnapThreads,
             \/ TakeId(t) \/ MakeDir(t) \/ OpenManifest(t) \/ FlushManifest(t) \/ CreateFails(t)
             \/ ChooseByAge(t) \/ ChooseByCount(t) \/ CleanupEnds(t)
             \/ RemoveManifest(t) \/ RemoveDir(t)
      PROVE  ListedStays'
  BY <1>6, TableKept
     DEF TakeId, MakeDir, OpenManifest, FlushManifest, CreateFails, ChooseByAge, ChooseByCount,
         ChooseVictims, CleanupEnds, RemoveManifest, RemoveDir, observed
<1> QED
  BY <1>1, <1>2, <1>3, <1>4, <1>5, <1>6 DEF SnapNext

\* No crash and no interleaving loses a listed snapshot: it leaves the list only
\* by a deletion, of a caller or of a clean-up.
THEOREM ListedSnapshotsStay == SnapSpec => []ListedStays
<1>1. SnapInit => ListedStays
  BY DEF SnapInit, ListedStays
<1> QED
  BY <1>1, SnapInvInit, SnapInvStep, ListedStaysStep, PTL DEF SnapSpec

-----------------------------------------------------------------------------
(* The clean-up keeps the newest: timestamps are distinct readings of the    *)
(* clock, and an identifier that a clean-up has chosen is not used again     *)
(* before a restart, which ends the clean-up.                                *)

Making(call) == call.at \in {"dir", "manifest", "flush", "insert"}
Dated(call) == call.at \in {"manifest", "flush", "insert"}

\* What a clean-up has still to delete, also while it deletes one of them.
Waiting(call) == IF call.at \in {"unlink", "rmdir"} THEN call.call ELSE call
Victims(call) == IF Waiting(call).at = "delete" THEN Waiting(call).todo ELSE {}

OutOfDate(ts, all) == Cardinality({u \in all : u > ts}) >= MaxSnapshots

\* The earliest timestamp.
FirstStamp == (FirstClock + 1) * NanosPerSecond

\* Timestamps on disk and in calls: none is before the first or after the last
\* reading of the clock, and no two identifiers have the same.
TimesFit(disk, calls, top) ==
  /\ \A id \in DOMAIN disk :
       disk[id] \in Nat /\ disk[id] <= top /\ (disk[id] # 0 => disk[id] >= FirstStamp)
  /\ \A i, j \in DOMAIN disk : i # j /\ disk[i] # 0 => disk[j] # disk[i]
  /\ \A t \in SnapThreads : Dated(calls[t]) =>
       /\ calls[t].ts \in Nat /\ calls[t].ts <= top /\ calls[t].ts >= FirstStamp
       /\ \A j \in DOMAIN disk : j # calls[t].id => disk[j] # calls[t].ts
       /\ \A u \in SnapThreads \ {t} : Dated(calls[u]) => calls[u].ts # calls[t].ts

VictimsFit(calls, next, table, all) ==
  \A t \in SnapThreads : \A id \in Victims(calls[t]) :
    /\ id \in 1..(next - 1)
    /\ id \in DOMAIN table => OutOfDate(table[id], all)
    /\ \A u \in SnapThreads : Making(calls[u]) => calls[u].id # id

KeepInv ==
  /\ clock \in FirstClock..MaxClock
  /\ IsFiniteSet(inserted) /\ \A id \in DOMAIN snapshots : snapshots[id] \in inserted
  /\ TimesFit(manifests, snapCalls, clock * NanosPerSecond)
  /\ VictimsFit(snapCalls, nextId, snapshots, inserted)
  /\ \A ts \in cleaned : OutOfDate(ts, inserted)

\* The seconds of the clock stay below the nanoseconds it showed at the start: a
\* clock of our days would have to run for a billion times its age.
ClockStaysSmall == MaxClock - RetentionSeconds <= FirstStamp

LEMMA FirstStampFacts == FirstStamp \in Nat \ {0}
BY SnapshotsAssumption DEF FirstStamp

LEMMA KeepInvInit == SnapInit => KeepInv
BY SnapshotsAssumption, FS_EmptySet
   DEF SnapInit, KeepInv, TimesFit, VictimsFit, Victims, Waiting, Dated, SnapIdle, NoEntries

\* With more snapshots listed, what was out of date still is.
LEMMA OutOfDateStays ==
  ASSUME NEW all, NEW more, IsFiniteSet(more), all \subseteq more, NEW ts, OutOfDate(ts, all)
  PROVE  OutOfDate(ts, more)
<1> DEFINE newer(S) == {u \in S : u > ts}
<1>1. newer(more) \in SUBSET more /\ newer(all) \in SUBSET newer(more)
  OBVIOUS
<1>2. IsFiniteSet(newer(more))
  BY <1>1, FS_Subset
<1>3. /\ IsFiniteSet(newer(all)) /\ Cardinality(newer(all)) <= Cardinality(newer(more))
      /\ Cardinality(newer(more)) \in Nat
  BY <1>1, <1>2, FS_Subset, FS_CardinalityType
<1>4. Cardinality(newer(all)) \in Nat
  BY <1>3, FS_CardinalityType
<1>5. Cardinality(newer(all)) >= MaxSnapshots /\ MaxSnapshots \in Nat
  BY SnapshotsAssumption DEF OutOfDate
<1>6. Cardinality(newer(more)) >= MaxSnapshots
  <2> HIDE DEF newer
  <2> QED
    BY <1>3, <1>4, <1>5
<1> QED
  BY <1>6 DEF OutOfDate

\* One call goes on, and no timestamp appears but a 0.
LEMMA TimesStep ==
  ASSUME SnapInv, NEW t \in SnapThreads, NEW call, Continue(t, call), NEW disk, NEW top \in Nat,
         TimesFit(manifests, snapCalls, top),
         \A id \in DOMAIN disk :
           disk[id] = 0 \/ (id \in DOMAIN manifests /\ disk[id] = manifests[id]),
         Dated(call) => Dated(snapCalls[t]) /\ call.ts = snapCalls[t].ts /\ call.id = snapCalls[t].id
  PROVE  TimesFit(disk, snapCalls', top)
<1>1. /\ snapCalls'[t] = call
      /\ \A u \in SnapThreads \ {t} : snapCalls'[u] = snapCalls[u]
  BY DEF SnapInv, CallsFit, Continue
<1>2. FirstStamp \in Nat \ {0}
  BY FirstStampFacts
<1>3. \A u \in SnapThreads : Dated(snapCalls'[u]) =>
        /\ Dated(snapCalls[u])
        /\ snapCalls'[u].ts = snapCalls[u].ts /\ snapCalls'[u].id = snapCalls[u].id
  BY <1>1
<1>4. /\ \A id \in DOMAIN disk :
           disk[id] \in Nat /\ disk[id] <= top /\ (disk[id] # 0 => disk[id] >= FirstStamp)
      /\ \A i, j \in DOMAIN disk : i # j /\ disk[i] # 0 => disk[j] # disk[i]
  BY DEF TimesFit
<1>5. ASSUME NEW u \in SnapThreads, Dated(snapCalls'[u])
      PROVE  /\ snapCalls'[u].ts \in Nat /\ snapCalls'[u].ts <= top
             /\ snapCalls'[u].ts >= FirstStamp
             /\ \A j \in DOMAIN disk : j # snapCalls'[u].id => disk[j] # snapCalls'[u].ts
             /\ \A v \in SnapThreads \ {u} :
                  Dated(snapCalls'[v]) => snapCalls'[v].ts # snapCalls'[u].ts
  <2> DEFINE ts == snapCalls[u].ts
  <2>1. /\ ts \in Nat /\ ts <= top /\ ts >= FirstStamp
        /\ \A j \in DOMAIN manifests : j # snapCalls[u].id => manifests[j] # ts
        /\ \A v \in SnapThreads \ {u} : Dated(snapCalls[v]) => snapCalls[v].ts # ts
    BY <1>3, <1>5 DEF TimesFit
  <2>2. ts # 0
    BY <1>2, <2>1
  <2> QED
    BY <1>3, <1>5, <2>1, <2>2
<1> QED
  BY <1>4, <1>5 DEF TimesFit

\* One call goes on: what it chooses is out of date, and what it makes is not
\* chosen.
LEMMA VictimsStep ==
  ASSUME SnapInv, KeepInv, NEW t \in SnapThreads, NEW call, Continue(t, call),
         NEW next \in Nat, nextId <= next, NEW table, NEW all, IsFiniteSet(all), inserted \subseteq all,
         \A id \in Victims(call) :
           \/ id \in Victims(snapCalls[t])
           \/ id \in DOMAIN snapshots /\ OutOfDate(snapshots[id], inserted),
         Making(call) =>
           \/ Making(snapCalls[t]) /\ call.id = snapCalls[t].id
           \/ call.id = nextId,
         \A id \in DOMAIN table :
           \/ id \in DOMAIN snapshots /\ table[id] = snapshots[id]
           \/ \E u \in SnapThreads : Making(snapCalls[u]) /\ snapCalls[u].id = id
  PROVE  VictimsFit(snapCalls', next, table, all)
<1>1. /\ snapCalls'[t] = call
      /\ \A u \in SnapThreads \ {t} : snapCalls'[u] = snapCalls[u]
  BY DEF SnapInv, CallsFit, Continue
<1>2. nextId \in Nat /\ \A id \in DOMAIN snapshots : id \in 1..(nextId - 1)
  BY SnapshotsAssumption DEF SnapInv, DiskFits
<1>3. \A u \in SnapThreads : Making(snapCalls[u]) =>
        snapCalls[u].id \notin DOMAIN snapshots
  BY DEF SnapInv, CallsFit, CallFits, Making, WithId
\* Whatever is chosen after the step was fit to be chosen before.
<1>4. ASSUME NEW u \in SnapThreads, NEW id \in Victims(snapCalls'[u])
      PROVE  /\ id \in 1..(nextId - 1)
             /\ id \in DOMAIN snapshots => OutOfDate(snapshots[id], inserted)
             /\ \A v \in SnapThreads : Making(snapCalls[v]) => snapCalls[v].id # id
  <2>1. (\E v \in SnapThreads : id \in Victims(snapCalls[v]))
          \/ (id \in DOMAIN snapshots /\ OutOfDate(snapshots[id], inserted))
    BY <1>1, <1>4
  <2>2. CASE \E v \in SnapThreads : id \in Victims(snapCalls[v])
    BY <2>2 DEF KeepInv, VictimsFit
  <2>3. CASE id \in DOMAIN snapshots /\ OutOfDate(snapshots[id], inserted)
    BY <1>2, <1>3, <2>3
  <2> QED
    BY <2>1, <2>2, <2>3
<1>5. ASSUME NEW u \in SnapThreads, NEW id \in Victims(snapCalls'[u])
      PROVE  /\ id \in 1..(next - 1)
             /\ id \in DOMAIN table => OutOfDate(table[id], all)
             /\ \A v \in SnapThreads : Making(snapCalls'[v]) => snapCalls'[v].id # id
  <2>1. /\ id \in 1..(nextId - 1)
        /\ id \in DOMAIN snapshots => OutOfDate(snapshots[id], inserted)
        /\ \A v \in SnapThreads : Making(snapCalls[v]) => snapCalls[v].id # id
    BY <1>4, <1>5
  <2>2. id \in 1..(next - 1) /\ id # nextId
    BY <1>2, <2>1
  <2>3. id \in DOMAIN table => OutOfDate(table[id], all)
    BY <2>1, OutOfDateStays
  <2>4. \A v \in SnapThreads : Making(snapCalls'[v]) => snapCalls'[v].id # id
    BY <1>1, <2>1, <2>2
  <2> QED
    BY <2>2, <2>3, <2>4
<1> QED
  BY <1>5 DEF VictimsFit

\* One call goes on, the clock stands still and what was cleaned is known.
LEMMA KeepStep ==
  ASSUME SnapInv, KeepInv, NEW t \in SnapThreads, NEW call, Continue(t, call),
         UNCHANGED <<clock, inserted>>,
         nextId' \in Nat, nextId <= nextId',
         \A id \in DOMAIN snapshots' : id \in DOMAIN snapshots /\ snapshots'[id] = snapshots[id],
         \A id \in DOMAIN manifests' :
           manifests'[id] = 0 \/ (id \in DOMAIN manifests /\ manifests'[id] = manifests[id]),
         Dated(call) => Dated(snapCalls[t]) /\ call.ts = snapCalls[t].ts /\ call.id = snapCalls[t].id,
         Making(call) =>
           \/ Making(snapCalls[t]) /\ call.id = snapCalls[t].id
           \/ call.id = nextId,
         \A id \in Victims(call) :
           \/ id \in Victims(snapCalls[t])
           \/ id \in DOMAIN snapshots /\ OutOfDate(snapshots[id], inserted),
         \A ts \in cleaned' : ts \in cleaned \/ OutOfDate(ts, inserted)
  PROVE  KeepInv'
<1>1. clock * NanosPerSecond \in Nat
  BY SnapshotsAssumption DEF KeepInv
<1>2. TimesFit(manifests', snapCalls', clock * NanosPerSecond)
  BY <1>1, TimesStep DEF KeepInv
<1>3. VictimsFit(snapCalls', nextId', snapshots', inserted)
  BY VictimsStep DEF KeepInv
<1> QED
  BY <1>2, <1>3 DEF KeepInv

LEMMA CreatingKeeps ==
  ASSUME SnapInv, KeepInv, NEW t \in SnapThreads,
         TakeId(t) \/ OpenManifest(t) \/ CreateFails(t)
  PROVE  KeepInv'
<1>0. nextId \in Nat /\ nextId + 1 \in Nat /\ nextId <= nextId + 1
  BY SnapshotsAssumption DEF SnapInv, DiskFits
<1>1. CASE TakeId(t)
  <2> DEFINE call == [at |-> "dir", id |-> nextId]
  <2>1. Continue(t, call) /\ nextId' = nextId + 1
        /\ UNCHANGED <<clock, inserted, snapshots, manifests, cleaned>>
    BY <1>1 DEF TakeId, diskVars, observed
  <2>2. ~Dated(call) /\ call.id = nextId /\ Victims(call) = {}
    BY DEF Dated, Victims, Waiting
  <2> HIDE DEF call
  <2> QED
    BY <1>0, <2>1, <2>2, KeepStep
<1>2. CASE OpenManifest(t)
  <2> DEFINE call == [snapCalls[t] EXCEPT !.at = "flush"]
             id == snapCalls[t].id
  <2>1. /\ Continue(t, call) /\ snapCalls[t].at = "manifest" /\ manifests' = Put(manifests, id, 0)
        /\ UNCHANGED <<nextId, clock, inserted, snapshots, cleaned>>
    BY <1>2 DEF OpenManifest, AtStep, observed
  <2>2. IsCall(call) /\ call.at = "flush" /\ call.id = id /\ call.ts = snapCalls[t].ts
    BY <2>1, CallFacts, GoesOn DEF CallFits
  <2>3. \A i \in DOMAIN manifests' :
          manifests'[i] = 0 \/ (i \in DOMAIN manifests /\ manifests'[i] = manifests[i])
    BY <2>1 DEF Put
  <2> HIDE DEF call
  <2>4. Dated(snapCalls[t]) /\ Making(snapCalls[t]) /\ Victims(call) = {}
    BY <2>1, <2>2 DEF Dated, Making, Victims, Waiting
  <2> HIDE DEF id
  <2> QED
    BY <1>0, <2>1, <2>2, <2>3, <2>4, KeepStep DEF id
<1>3. CASE CreateFails(t)
  <2>1. Continue(t, SnapIdle)
        /\ UNCHANGED <<nextId, clock, inserted, snapshots, manifests, cleaned>>
    BY <1>3 DEF CreateFails, diskVars, observed
  <2>2. ~Dated(SnapIdle) /\ ~Making(SnapIdle) /\ Victims(SnapIdle) = {}
    BY DEF Dated, Making, Victims, Waiting, SnapIdle
  <2> QED
    BY <1>0, <2>1, <2>2, KeepStep
<1> QED
  BY <1>1, <1>2, <1>3

\* The clock is read: no timestamp is as late.
LEMMA MakeDirKeeps ==
  ASSUME SnapInv, KeepInv, NEW t \in SnapThreads, MakeDir(t)
  PROVE  KeepInv'
<1> DEFINE ts == (clock + 1) * NanosPerSecond
           top == clock * NanosPerSecond
           call == [at |-> "manifest", id |-> snapCalls[t].id, ts |-> ts]
<1>1. /\ Continue(t, call) /\ snapCalls[t].at = "dir" /\ clock < MaxClock /\ clock' = clock + 1
      /\ UNCHANGED <<nextId, inserted, snapshots, manifests, cleaned>>
  BY DEF MakeDir, AtStep, observed
<1>2. /\ clock \in Nat /\ NanosPerSecond \in Nat /\ NanosPerSecond > 0 /\ top \in Nat /\ ts \in Nat
      /\ ts = top + NanosPerSecond
  BY SnapshotsAssumption DEF KeepInv
<1>3. ts > top /\ ts >= FirstStamp
  <2>1. ts >= FirstStamp
    <3>1. /\ clock - FirstClock \in Nat /\ NanosPerSecond \in Nat
          /\ FirstClock + 1 \in Nat
      BY SnapshotsAssumption DEF KeepInv
    <3>2. ts = FirstStamp + (clock - FirstClock) * NanosPerSecond
      BY <1>2, <3>1, SnapshotsAssumption DEF FirstStamp
    <3>3. (clock - FirstClock) * NanosPerSecond \in Nat
      BY <3>1
    <3> HIDE DEF ts
    <3> QED
      BY <3>2, <3>3, FirstStampFacts
  <2> HIDE DEF ts, top
  <2> QED
    BY <1>2, <2>1
<1>4. clock' \in FirstClock..MaxClock /\ clock' * NanosPerSecond = ts
  BY <1>1, SnapshotsAssumption DEF KeepInv
<1>5. TimesFit(manifests, snapCalls, top)
  BY DEF KeepInv
<1>6. /\ call.at = "manifest" /\ call.id = snapCalls[t].id /\ call.ts = ts
      /\ Making(call) /\ Making(snapCalls[t]) /\ Victims(call) = {}
  BY <1>1 DEF Making, Victims, Waiting
<1> HIDE DEF call, ts, top
<1>7. /\ snapCalls'[t] = call
      /\ \A u \in SnapThreads \ {t} : snapCalls'[u] = snapCalls[u]
  BY <1>1 DEF SnapInv, CallsFit, Continue
<1>8. TimesFit(manifests, snapCalls', ts)
  <2>1. /\ \A id \in DOMAIN manifests :
             /\ manifests[id] \in Nat /\ manifests[id] <= top
             /\ manifests[id] # 0 => manifests[id] >= FirstStamp
        /\ \A i, j \in DOMAIN manifests : i # j /\ manifests[i] # 0 => manifests[j] # manifests[i]
    BY <1>5 DEF TimesFit
  <2>2. \A id \in DOMAIN manifests : manifests[id] <= ts /\ manifests[id] # ts
    BY <1>2, <1>3, <2>1
  <2>3. ASSUME NEW u \in SnapThreads \ {t}, Dated(snapCalls[u])
        PROVE  /\ snapCalls[u].ts \in Nat /\ snapCalls[u].ts <= ts /\ snapCalls[u].ts # ts
               /\ snapCalls[u].ts >= FirstStamp
               /\ \A j \in DOMAIN manifests : j # snapCalls[u].id => manifests[j] # snapCalls[u].ts
               /\ \A v \in SnapThreads \ {u} : Dated(snapCalls[v]) => snapCalls[v].ts # snapCalls[u].ts
    <3>1. /\ snapCalls[u].ts \in Nat /\ snapCalls[u].ts <= top
          /\ snapCalls[u].ts >= FirstStamp
          /\ \A j \in DOMAIN manifests : j # snapCalls[u].id => manifests[j] # snapCalls[u].ts
          /\ \A v \in SnapThreads \ {u} : Dated(snapCalls[v]) => snapCalls[v].ts # snapCalls[u].ts
      BY <1>5, <2>3 DEF TimesFit
    <3> QED
      BY <1>2, <1>3, <3>1
  <2>4. ~Dated(snapCalls[t])
    BY <1>1 DEF Dated
  <2> QED
    BY <1>2, <1>3, <1>6, <1>7, <2>1, <2>2, <2>3, <2>4 DEF TimesFit
<1>9. VictimsFit(snapCalls', nextId, snapshots, inserted)
  <2>1. nextId \in Nat /\ nextId <= nextId
    BY SnapshotsAssumption DEF SnapInv, DiskFits
  <2> QED
    BY <1>1, <1>6, <2>1, VictimsStep DEF KeepInv
<1> QED
  BY <1>1, <1>4, <1>8, <1>9 DEF KeepInv

\* The timestamp of the call gets to the disk under its identifier.
LEMMA FlushKeeps ==
  ASSUME SnapInv, KeepInv, NEW t \in SnapThreads, FlushManifest(t)
  PROVE  KeepInv'
<1> DEFINE id == snapCalls[t].id
           ts == snapCalls[t].ts
           top == clock * NanosPerSecond
           call == [snapCalls[t] EXCEPT !.at = "insert"]
<1>1. /\ Continue(t, call) /\ snapCalls[t].at = "flush" /\ manifests' = Put(manifests, id, ts)
      /\ UNCHANGED <<nextId, clock, inserted, snapshots, cleaned>>
  BY DEF FlushManifest, AtStep, observed
<1>2. IsCall(call) /\ call.at = "insert" /\ call.id = id /\ call.ts = ts
  BY <1>1, CallFacts, GoesOn DEF CallFits
<1> HIDE DEF call
<1>3. Dated(snapCalls[t]) /\ Making(snapCalls[t]) /\ Dated(call) /\ Victims(call) = {}
  BY <1>1, <1>2 DEF Dated, Making, Victims, Waiting
<1>4. /\ snapCalls'[t] = call
      /\ \A u \in SnapThreads \ {t} : snapCalls'[u] = snapCalls[u]
  BY <1>1 DEF SnapInv, CallsFit, Continue
<1>5. TimesFit(manifests, snapCalls, top) /\ top \in Nat /\ FirstStamp \in Nat \ {0}
  BY SnapshotsAssumption, FirstStampFacts DEF KeepInv
<1>6. /\ ts \in Nat /\ ts <= top /\ ts >= FirstStamp /\ ts # 0
      /\ \A j \in DOMAIN manifests : j # id => manifests[j] # ts
      /\ \A u \in SnapThreads \ {t} : Dated(snapCalls[u]) => snapCalls[u].ts # ts
  BY <1>3, <1>5 DEF TimesFit
<1> HIDE DEF top, ts, id
<1>7. /\ DOMAIN manifests' = DOMAIN manifests \cup {id} /\ manifests'[id] = ts
      /\ \A k \in DOMAIN manifests : k # id => manifests'[k] = manifests[k]
  BY <1>1 DEF Put
<1>8. TimesFit(manifests', snapCalls', top)
  <2>1. \A i \in DOMAIN manifests' :
          /\ manifests'[i] \in Nat /\ manifests'[i] <= top
          /\ manifests'[i] # 0 => manifests'[i] >= FirstStamp
    BY <1>5, <1>6, <1>7 DEF TimesFit
  <2>2. \A i, j \in DOMAIN manifests' :
          i # j /\ manifests'[i] # 0 => manifests'[j] # manifests'[i]
    BY <1>5, <1>6, <1>7 DEF TimesFit
  <2>3. ASSUME NEW u \in SnapThreads \ {t}, Dated(snapCalls[u])
        PROVE  /\ snapCalls[u].ts \in Nat /\ snapCalls[u].ts <= top
               /\ snapCalls[u].ts >= FirstStamp
               /\ \A j \in DOMAIN manifests' : j # snapCalls[u].id => manifests'[j] # snapCalls[u].ts
               /\ \A v \in SnapThreads \ {u} :
                    Dated(snapCalls'[v]) => snapCalls'[v].ts # snapCalls[u].ts
    <3>1. /\ snapCalls[u].ts \in Nat /\ snapCalls[u].ts <= top
          /\ snapCalls[u].ts >= FirstStamp /\ snapCalls[u].ts # ts
          /\ \A j \in DOMAIN manifests : j # snapCalls[u].id => manifests[j] # snapCalls[u].ts
          /\ \A v \in SnapThreads \ {u} : Dated(snapCalls[v]) => snapCalls[v].ts # snapCalls[u].ts
      BY <1>5, <1>6, <2>3 DEF TimesFit
    <3> QED
      BY <1>2, <1>4, <1>7, <2>3, <3>1
  <2>4. /\ \A j \in DOMAIN manifests' : j # id => manifests'[j] # ts
        /\ \A v \in SnapThreads \ {t} : Dated(snapCalls'[v]) => snapCalls'[v].ts # ts
    BY <1>4, <1>6, <1>7
  <2> QED
    BY <1>2, <1>4, <1>6, <2>1, <2>2, <2>3, <2>4 DEF TimesFit
<1>9. VictimsFit(snapCalls', nextId, snapshots, inserted)
  <2>1. nextId \in Nat /\ nextId <= nextId
    BY SnapshotsAssumption DEF SnapInv, DiskFits
  <2> QED
    BY <1>1, <1>2, <1>3, <2>1, VictimsStep DEF KeepInv, id
<1> QED
  BY <1>1, <1>8, <1>9 DEF KeepInv, top

\* The snapshot is listed; no clean-up has chosen its identifier.
LEMMA InsertKeeps ==
  ASSUME SnapInv, KeepInv, NEW t \in SnapThreads, InsertSnapshot(t)
  PROVE  KeepInv'
<1> DEFINE id == snapCalls[t].id
           ts == snapCalls[t].ts
           call == [at |-> "age"]
<1>1. /\ Continue(t, call) /\ snapCalls[t].at = "insert" /\ snapshots' = Put(snapshots, id, ts)
      /\ inserted' = inserted \cup {ts}
      /\ UNCHANGED <<nextId, clock, manifests, cleaned>>
  BY DEF InsertSnapshot, AtStep, diskVars
<1>2. ~Dated(call) /\ ~Making(call) /\ Victims(call) = {} /\ Making(snapCalls[t])
  BY <1>1 DEF Dated, Making, Victims, Waiting
<1> HIDE DEF call
<1>3. /\ DOMAIN snapshots' = DOMAIN snapshots \cup {id} /\ snapshots'[id] = ts
      /\ \A k \in DOMAIN snapshots : k # id => snapshots'[k] = snapshots[k]
  BY <1>1 DEF Put
<1>4. IsFiniteSet(inserted') /\ inserted \subseteq inserted'
  BY <1>1, FS_AddElement DEF KeepInv
<1>5. nextId \in Nat /\ nextId <= nextId
  BY SnapshotsAssumption DEF SnapInv, DiskFits
<1>6. TimesFit(manifests, snapCalls', clock * NanosPerSecond)
  <2>1. clock * NanosPerSecond \in Nat
    BY SnapshotsAssumption DEF KeepInv
  <2> QED
    BY <1>1, <1>2, <2>1, TimesStep DEF KeepInv
<1>7. VictimsFit(snapCalls', nextId, snapshots', inserted')
  BY <1>1, <1>2, <1>3, <1>4, <1>5, VictimsStep
<1>8. \A k \in DOMAIN snapshots' : snapshots'[k] \in inserted'
  BY <1>1, <1>3 DEF KeepInv
<1>9. \A old \in cleaned' : OutOfDate(old, inserted')
  BY <1>1, <1>4, OutOfDateStays DEF KeepInv
<1> QED
  BY <1>1, <1>4, <1>6, <1>7, <1>8, <1>9 DEF KeepInv

\* What a clean-up chooses has max_snapshots newer ones that were listed.
LEMMA ChosenAreOutOfDate ==
  ASSUME SnapInv, KeepInv, ClockStaysSmall, NEW id \in TooOld \cup Excess
  PROVE  id \in DOMAIN snapshots /\ OutOfDate(snapshots[id], inserted)
<1>1. /\ id \in DOMAIN snapshots
      /\ \A j \in DOMAIN snapshots :
           j \in DOMAIN manifests /\ manifests[j] # 0 /\ manifests[j] = snapshots[j]
  BY DEF TooOld, Excess, SnapInv, DiskFits
<1>2. id \notin TooOld
  <2>1. snapshots[id] \in Nat /\ snapshots[id] >= FirstStamp
    BY <1>1 DEF KeepInv, TimesFit
  <2>2. clock \in Nat /\ clock <= MaxClock /\ MaxClock \in Nat /\ RetentionSeconds \in Nat
    BY SnapshotsAssumption DEF KeepInv
  <2>3. FirstStamp \in Nat
    BY FirstStampFacts
  <2> QED
    BY <2>1, <2>2, <2>3 DEF TooOld, ClockStaysSmall
<1>3. id \in Excess
  BY <1>2
<1> DEFINE ts == snapshots[id]
           newer == {j \in DOMAIN snapshots : snapshots[j] > ts}
           later == {u \in inserted : u > ts}
           f == [j \in newer |-> snapshots[j]]
<1>4. Cardinality(newer) >= MaxSnapshots
  BY <1>3 DEF Excess
<1>5. f \in Injection(newer, later)
  <2>1. f \in [newer -> later]
    BY DEF KeepInv
  <2>2. \A i, j \in newer : f[i] = f[j] => i = j
    BY <1>1 DEF KeepInv, TimesFit
  <2> QED
    BY <2>1, <2>2 DEF Injection, IsInjective
<1>6. IsFiniteSet(later)
  <2>1. later \in SUBSET inserted
    OBVIOUS
  <2> QED
    BY <2>1, FS_Subset DEF KeepInv
<1> HIDE DEF f, newer, later
<1>7. /\ IsFiniteSet(newer) /\ Cardinality(newer) <= Cardinality(later)
      /\ Cardinality(newer) \in Nat /\ Cardinality(later) \in Nat
  BY <1>5, <1>6, FS_Injection, FS_CardinalityType
<1>8. MaxSnapshots \in Nat
  BY SnapshotsAssumption
<1>9. Cardinality(later) >= MaxSnapshots
  BY <1>4, <1>7, <1>8
<1> QED
  BY <1>1, <1>9 DEF OutOfDate, later

LEMMA ChooseKeeps ==
  ASSUME SnapInv, KeepInv, ClockStaysSmall, NEW t \in SnapThreads,
         ChooseByAge(t) \/ ChooseByCount(t)
  PROVE  KeepInv'
<1>1. PICK label, victims, after :
        ChooseVictims(t, label, victims, after) /\ victims \in {TooOld, Excess}
  BY DEF ChooseByAge, ChooseByCount
<1>2. UNCHANGED <<nextId, clock, inserted, snapshots, manifests, cleaned>>
  BY <1>1 DEF ChooseVictims, diskVars, observed
<1>3. nextId \in Nat /\ nextId <= nextId
  BY SnapshotsAssumption DEF SnapInv, DiskFits
<1>4. CASE Crowded
  <2> DEFINE call == [at |-> "delete", todo |-> victims, after |-> after]
  <2>1. Continue(t, call)
    BY <1>1, <1>4 DEF ChooseVictims
  <2>2. ~Dated(call) /\ ~Making(call) /\ Victims(call) = victims
    BY DEF Dated, Making, Victims, Waiting
  <2> HIDE DEF call
  <2>3. \A id \in Victims(call) : id \in DOMAIN snapshots /\ OutOfDate(snapshots[id], inserted)
    BY <1>1, <2>2, ChosenAreOutOfDate
  <2> QED
    BY <1>2, <1>3, <2>1, <2>2, <2>3, KeepStep
<1>5. CASE ~Crowded
  <2>1. Continue(t, SnapIdle)
    BY <1>1, <1>5 DEF ChooseVictims
  <2>2. ~Dated(SnapIdle) /\ ~Making(SnapIdle) /\ Victims(SnapIdle) = {}
    BY DEF Dated, Making, Victims, Waiting, SnapIdle
  <2> QED
    BY <1>2, <1>3, <2>1, <2>2, KeepStep
<1> QED
  BY <1>4, <1>5

\* A snapshot leaves the table; the call waits with what it had chosen.
LEMMA UnlistKeeps ==
  ASSUME SnapInv, KeepInv, NEW t \in SnapThreads, NEW id, NEW call, Unlist(t, id, call),
         Quiet(call), Victims(call) \subseteq Victims(snapCalls[t]),
         \A ts \in cleaned' : ts \in cleaned \/ OutOfDate(ts, inserted)
  PROVE  KeepInv'
<1>1. /\ UNCHANGED <<nextId, manifests, clock, inserted>>
      /\ ~Dated(call) /\ ~Making(call)
  BY DEF Unlist, diskVars, Quiet, Dated, Making
<1>2. nextId \in Nat /\ nextId <= nextId
  BY SnapshotsAssumption DEF SnapInv, DiskFits
<1>3. CASE id \notin DOMAIN snapshots
  <2>1. Continue(t, call) /\ snapshots' = snapshots
    BY <1>3 DEF Unlist
  <2> QED
    BY <1>1, <1>2, <2>1, KeepStep
<1>4. CASE id \in DOMAIN snapshots
  <2> DEFINE next == [at |-> "unlink", id |-> id, call |-> call]
  <2>1. Continue(t, next) /\ snapshots' = Drop(snapshots, id)
    BY <1>4 DEF Unlist
  <2>2. \A k \in DOMAIN snapshots' : k \in DOMAIN snapshots /\ snapshots'[k] = snapshots[k]
    BY <2>1 DEF Drop, Restrict
  <2>3. ~Dated(next) /\ ~Making(next) /\ Victims(next) = Victims(call)
    <3>1. Waiting(next) = call /\ Waiting(call) = call
      BY DEF Waiting, Quiet
    <3> QED
      BY <3>1 DEF Dated, Making, Victims
  <2> HIDE DEF next
  <2> QED
    BY <1>1, <1>2, <2>1, <2>2, <2>3, KeepStep
<1> QED
  BY <1>3, <1>4

LEMMA CleanupKeeps ==
  ASSUME SnapInv, KeepInv, NEW t \in SnapThreads, CleanupNext(t)
  PROVE  KeepInv'
<1>1. PICK id \in snapCalls[t].todo :
        /\ Unlist(t, id, [snapCalls[t] EXCEPT !.todo = @ \ {id}])
        /\ cleaned' = cleaned \cup {snapshots[i] : i \in {id} \cap DOMAIN snapshots}
  BY DEF CleanupNext
<1> DEFINE call == [snapCalls[t] EXCEPT !.todo = @ \ {id}]
<1>2. snapCalls[t].at = "delete" /\ Quiet(snapCalls[t])
  BY CallFacts DEF CallFits, CleanupNext, AtStep, IsCall, Quiet
<1>3. Quiet(call) /\ call.at = "delete" /\ call.todo \subseteq snapCalls[t].todo
  BY <1>2 DEF Quiet
<1> HIDE DEF call
<1>4. Victims(snapCalls[t]) = snapCalls[t].todo /\ Victims(call) = call.todo
  BY <1>2, <1>3 DEF Victims, Waiting
<1>5. id \in DOMAIN snapshots => OutOfDate(snapshots[id], inserted)
  BY <1>1, <1>4 DEF KeepInv, VictimsFit
<1>6. \A ts \in cleaned' : ts \in cleaned \/ OutOfDate(ts, inserted)
  BY <1>1, <1>5
<1> QED
  BY <1>1, <1>3, <1>4, <1>6, UnlistKeeps DEF call

LEMMA DeleteKeeps ==
  ASSUME SnapInv, KeepInv, NEW t \in SnapThreads, NEW id, DeleteSnapshot(t, id)
  PROVE  KeepInv'
<1>1. Quiet(SnapIdle) /\ Victims(SnapIdle) = {}
  BY DEF Quiet, Victims, Waiting, SnapIdle
<1> QED
  BY <1>1, UnlistKeeps DEF DeleteSnapshot

\* The steps of a call that is about to end, or to go on with the next victim.
LEMMA RemovingKeeps ==
  ASSUME SnapInv, KeepInv, NEW t \in SnapThreads,
         CleanupEnds(t) \/ RemoveManifest(t) \/ RemoveDir(t)
  PROVE  KeepInv'
<1>0. nextId \in Nat /\ nextId <= nextId
  BY SnapshotsAssumption DEF SnapInv, DiskFits
<1>1. CASE CleanupEnds(t)
  <2> DEFINE call == [at |-> snapCalls[t].after]
  <2>1. Continue(t, call) /\ UNCHANGED <<nextId, clock, inserted, snapshots, manifests, cleaned>>
    BY <1>1 DEF CleanupEnds, diskVars, observed
  <2>2. call.at \in {"idle", "count"}
    <3>1. IsCall(snapCalls[t]) /\ snapCalls[t].at = "delete"
      BY <1>1, CallFacts DEF CallFits, CleanupEnds, AtStep
    <3> QED
      BY <3>1 DEF IsCall, Quiet
  <2> HIDE DEF call
  <2>3. ~Dated(call) /\ ~Making(call) /\ Victims(call) = {}
    BY <2>2 DEF Dated, Making, Victims, Waiting
  <2> QED
    BY <1>0, <2>1, <2>3, KeepStep
<1>2. CASE RemoveManifest(t)
  <2> DEFINE call == [snapCalls[t] EXCEPT !.at = "rmdir"]
  <2>1. /\ Continue(t, call) /\ snapCalls[t].at = "unlink"
        /\ UNCHANGED <<nextId, clock, inserted, snapshots, cleaned>>
        /\ manifests' = manifests \/ manifests' = Drop(manifests, snapCalls[t].id)
    BY <1>2 DEF RemoveManifest, AtStep
  <2>2. \A i \in DOMAIN manifests' : i \in DOMAIN manifests /\ manifests'[i] = manifests[i]
    BY <2>1 DEF Drop, Restrict
  <2>3. call.at = "rmdir" /\ call.call = snapCalls[t].call
    BY <2>1, CallFacts DEF CallFits, IsCall, Quiet
  <2> HIDE DEF call
  <2>4. ~Dated(call) /\ ~Making(call) /\ Victims(call) = Victims(snapCalls[t])
    BY <2>1, <2>3 DEF Dated, Making, Victims, Waiting
  <2> QED
    BY <1>0, <2>1, <2>2, <2>4, KeepStep
<1>3. CASE RemoveDir(t)
  <2> DEFINE call == snapCalls[t].call
  <2>1. /\ Continue(t, call) /\ snapCalls[t].at = "rmdir"
        /\ UNCHANGED <<nextId, clock, inserted, snapshots, manifests, cleaned>>
    BY <1>3 DEF RemoveDir, AtStep, observed
  <2>2. Quiet(call)
    BY <2>1, CallFacts DEF CallFits, IsCall, Quiet
  <2>3. ~Dated(call) /\ ~Making(call) /\ Victims(call) = Victims(snapCalls[t])
    <3>1. Waiting(call) = call /\ Waiting(snapCalls[t]) = call
      BY <2>1, <2>2 DEF Waiting, Quiet
    <3> QED
      BY <2>2, <3>1 DEF Dated, Making, Victims, Quiet
  <2> HIDE DEF call
  <2> QED
    BY <1>0, <2>1, <2>3, KeepStep
<1> QED
  BY <1>1, <1>2, <1>3

\* The image of a finite set of identifiers.
LEMMA EntriesFinite ==
  ASSUME NEW n \in Nat, NEW table, DOMAIN table \subseteq 1..n
  PROVE  IsFiniteSet(Entries(table))
<1>1. IsFiniteSet(1..n)
  BY FS_Interval
<1>2. IsFiniteSet(DOMAIN table)
  BY <1>1, FS_Subset
<1> DEFINE f == [k \in DOMAIN table |-> table[k]]
<1>3. f \in Surjection(DOMAIN table, Entries(table))
  BY DEF Surjection, Entries
<1> HIDE DEF f
<1> QED
  BY <1>2, <1>3, FS_Surjection

\* A restart ends every clean-up, and lists what is on disk.
LEMMA RestartKeeps ==
  ASSUME SnapInv, KeepInv, Restart
  PROVE  KeepInv'
<1>1. /\ snapshots' = Restrict(manifests, Readable)
      /\ snapCalls' = [t \in SnapThreads |-> SnapIdle]
      /\ inserted' = inserted \cup Entries(snapshots')
      /\ UNCHANGED <<manifests, clock, cleaned>>
  BY DEF Restart, diskVars
<1>2. \A t \in SnapThreads : ~Dated(snapCalls'[t]) /\ Victims(snapCalls'[t]) = {}
  BY <1>1 DEF Dated, Victims, Waiting, SnapIdle
<1>3. TimesFit(manifests, snapCalls', clock * NanosPerSecond)
  BY <1>2 DEF KeepInv, TimesFit
<1>4. VictimsFit(snapCalls', nextId', snapshots', inserted')
  BY <1>2 DEF VictimsFit
<1>5. IsFiniteSet(inserted')
  <2>1. MaxSnapId \in Nat /\ DOMAIN snapshots' \subseteq 1..MaxSnapId
    BY <1>1, SnapshotsAssumption DEF Restrict, Readable, SnapInv, DiskFits
  <2>2. IsFiniteSet(Entries(snapshots'))
    BY <2>1, EntriesFinite
  <2> QED
    BY <1>1, <2>2, FS_Union DEF KeepInv
<1>6. \A id \in DOMAIN snapshots' : snapshots'[id] \in inserted'
  BY <1>1 DEF Entries
<1>7. \A ts \in cleaned : OutOfDate(ts, inserted')
  BY <1>1, <1>5, OutOfDateStays DEF KeepInv
<1> QED
  BY <1>1, <1>3, <1>4, <1>5, <1>6, <1>7 DEF KeepInv

LEMMA KeepInvStep ==
  ASSUME SnapInv, KeepInv, ClockStaysSmall, [SnapNext]_snapVars
  PROVE  KeepInv'
<1>1. CASE UNCHANGED snapVars
  BY <1>1 DEF snapVars, diskVars, observed, KeepInv
<1>2. CASE Restart
  BY <1>2, RestartKeeps
<1>3. ASSUME NEW t \in SnapThreads,
             \/ TakeId(t) \/ MakeDir(t) \/ OpenManifest(t) \/ FlushManifest(t)
             \/ InsertSnapshot(t) \/ CreateFails(t)
      PROVE  KeepInv'
  BY <1>3, CreatingKeeps, MakeDirKeeps, FlushKeeps, InsertKeeps
<1>4. ASSUME NEW t \in SnapThreads,
             \/ ChooseByAge(t) \/ ChooseByCount(t) \/ CleanupNext(t) \/ CleanupEnds(t)
             \/ RemoveManifest(t) \/ RemoveDir(t)
      PROVE  KeepInv'
  BY <1>4, ChooseKeeps, CleanupKeeps, RemovingKeeps
<1>5. ASSUME NEW t \in SnapThreads, NEW id, DeleteSnapshot(t, id) PROVE KeepInv'
  BY <1>5, DeleteKeeps
<1> QED
  BY <1>1, <1>2, <1>3, <1>4, <1>5 DEF SnapNext

\* A clean-up deletes a snapshot only if max_snapshots newer ones have been
\* listed, although it chooses under one lock and deletes under others, beside
\* any number of calls and with crashes in between.  A restart may give a number
\* out again, but no clean-up survives it.  The pass by age, which compares
\* nanoseconds with seconds, finds nothing.
THEOREM CleanupKeepsTheNewest ==
  ASSUME ClockStaysSmall
  PROVE  SnapSpec => []SnapshotCleanupKeepsNewest
<1>1. SnapInv /\ KeepInv /\ [SnapNext]_snapVars => KeepInv'
  BY KeepInvStep
<1>2. KeepInv => SnapshotCleanupKeepsNewest
  BY DEF KeepInv, SnapshotCleanupKeepsNewest, OutOfDate
<1> QED
  BY <1>1, <1>2, SnapInvInit, SnapInvStep, KeepInvInit, PTL DEF SnapSpec

-----------------------------------------------------------------------------
(* Backups. *)

\* Among these manifests there is a full backup with the identifier.
HasFull(copies, id) == \E w \in copies : w.id = id /\ IsFull(w.manifest)

\* Calls are held per thread; the full backup a call goes back to was one.
RootInv ==
  /\ backupCalls = [t \in BackupThreads |-> backupCalls[t]]
  /\ \A t \in BackupThreads :
       BackupAt(t, "incremental") => HasFull(written, backupCalls[t].root)
  /\ \A id \in DOMAIN backups : HasFull(written, backups[id].root)

LEMMA RootInvInit == BackupsInit => RootInv
BY DEF BackupsInit, RootInv, BackupAt, BackupIdle, NoEntries

\* A step of one thread that takes no new root and adds no manifest without one.
LEMMA RootKept ==
  ASSUME RootInv, NEW t \in BackupThreads, NEW call, BackupGo(t, call),
         call.at # "incremental" \/ HasFull(written, call.root),
         written \subseteq written',
         \A id \in DOMAIN backups' :
           (id \in DOMAIN backups /\ backups'[id] = backups[id])
             \/ HasFull(written', backups'[id].root)
  PROVE  RootInv'
<1>1. backupCalls' = [backupCalls EXCEPT ![t] = call]
  BY DEF BackupGo
<1>2. backupCalls' = [u \in BackupThreads |-> backupCalls'[u]]
  BY <1>1 DEF RootInv
<1>3. \A id : HasFull(written, id) => HasFull(written', id)
  BY DEF HasFull
<1>4. ASSUME NEW u \in BackupThreads, backupCalls'[u].at = "incremental"
      PROVE  HasFull(written', backupCalls'[u].root)
  BY <1>1, <1>3, <1>4 DEF RootInv, BackupAt
<1>5. ASSUME NEW id \in DOMAIN backups' PROVE HasFull(written', backups'[id].root)
  BY <1>3 DEF RootInv
<1> QED
  BY <1>2, <1>4, <1>5 DEF RootInv, BackupAt

LEMMA RootInvStep ==
  ASSUME RootInv, [BackupsNext]_backupVars
  PROVE  RootInv'
<1>1. ASSUME NEW t \in BackupThreads, BeginFull(t)
      PROVE  RootInv'
  <2>1. PICK id : BackupGo(t, [at |-> "full", id |-> id, time |-> begun'])
    BY <1>1 DEF BeginFull
  <2>2. UNCHANGED <<backups, written>>
    BY <1>1 DEF BeginFull
  <2> QED
    BY <2>1, <2>2, RootKept
<1>2. ASSUME NEW t \in BackupThreads, NEW since \in BackupIds, BeginIncremental(t, since)
      PROVE  RootInv'
  <2>1. UNCHANGED <<backups, written>>
    BY <1>2 DEF BeginIncremental
  <2>2. CASE since \in DOMAIN backups
    <3>1. HasFull(written, backups[since].root)
      BY <2>2 DEF RootInv
    <3>2. BackupGo(t, [at |-> "incremental", id |-> begun', time |-> begun',
                       root |-> backups[since].root])
      BY <1>2, <2>2 DEF BeginIncremental
    <3> QED
      BY <2>1, <3>1, <3>2, RootKept
  <2>3. CASE since \notin DOMAIN backups
    BY <1>2, <2>1, <2>3 DEF BeginIncremental, RootInv, BackupAt
  <2> QED
    BY <2>2, <2>3
<1>3. ASSUME NEW t \in BackupThreads, NEW manifest, NEW next, next.at # "incremental",
             WriteManifest(t, manifest, next),
             (manifest.root = backupCalls[t].id /\ IsFull(manifest))
               \/ HasFull(written, manifest.root)
      PROVE  RootInv'
  <2>1. CASE backupCalls[t].id \in backupDirs
    <3> DEFINE entry == [id |-> backupCalls[t].id, manifest |-> manifest]
    <3>1. /\ backups' = Put(backups, backupCalls[t].id, manifest)
          /\ written' = written \cup {entry}
          /\ BackupGo(t, next)
      BY <1>3, <2>1 DEF WriteManifest
    <3>2. HasFull(written', manifest.root)
      <4>1. entry \in written' /\ entry.id = backupCalls[t].id /\ entry.manifest = manifest
        BY <3>1
      <4> HIDE DEF entry
      <4> QED
        BY <1>3, <3>1, <4>1 DEF HasFull
    <3>3. \A id \in DOMAIN backups' :
            backups'[id] = manifest \/ (id \in DOMAIN backups /\ backups'[id] = backups[id])
      BY <3>1 DEF Put
    <3> QED
      BY <1>3, <3>1, <3>2, <3>3, RootKept
  <2>2. CASE backupCalls[t].id \notin backupDirs
    BY <1>3, <2>2, RootKept DEF WriteManifest, BackupIdle
  <2> QED
    BY <2>1, <2>2
<1>4. ASSUME NEW t \in BackupThreads, WriteFull(t)
      PROVE  RootInv'
  <2> DEFINE manifest == [incremental |-> FALSE, root |-> backupCalls[t].id,
                          time |-> backupCalls[t].time]
  <2>1. manifest.root = backupCalls[t].id /\ IsFull(manifest)
    BY DEF IsFull
  <2>2. WriteManifest(t, manifest, [at |-> "list"])
    BY <1>4 DEF WriteFull
  <2> HIDE DEF manifest
  <2> QED
    BY <2>1, <2>2, <1>3
<1>5. ASSUME NEW t \in BackupThreads, WriteIncremental(t)
      PROVE  RootInv'
  <2> DEFINE manifest == [incremental |-> TRUE, root |-> backupCalls[t].root,
                          time |-> backupCalls[t].time]
  <2>1. HasFull(written, manifest.root)
    BY <1>5 DEF WriteIncremental, RootInv
  <2>2. WriteManifest(t, manifest, BackupIdle) /\ BackupIdle.at # "incremental"
    BY <1>5 DEF WriteIncremental, BackupIdle
  <2> HIDE DEF manifest
  <2> QED
    BY <2>1, <2>2, <1>3
<1>6. ASSUME NEW t \in BackupThreads, BackupFails(t) \/ CleanupReturns(t)
      PROVE  RootInv'
  BY <1>6, RootKept DEF BackupFails, CleanupReturns, BackupIdle
<1>7. ASSUME NEW t \in BackupThreads, ListBackups(t)
      PROVE  RootInv'
  <2>1. PICK todo : BackupGo(t, [at |-> "remove", todo |-> todo])
    BY <1>7 DEF ListBackups
  <2>2. UNCHANGED <<backups, written>>
    BY <1>7 DEF ListBackups
  <2> QED
    BY <2>1, <2>2, RootKept
<1>8. ASSUME NEW t \in BackupThreads, RemoveBackup(t)
      PROVE  RootInv'
  <2>1. PICK id \in backupCalls[t].todo :
          /\ backups' = Drop(backups, id)
          /\ BackupGo(t, [backupCalls[t] EXCEPT !.todo = @ \ {id}])
    BY <1>8 DEF RemoveBackup
  <2>2. backupCalls[t].at = "remove" /\ written' = written
    BY <1>8 DEF RemoveBackup, BackupAt
  <2>3. [backupCalls[t] EXCEPT !.todo = @ \ {id}].at = backupCalls[t].at
    OBVIOUS
  <2>4. \A i \in DOMAIN backups' : i \in DOMAIN backups /\ backups'[i] = backups[i]
    BY <2>1 DEF Drop, Restrict
  <2> QED
    BY <2>1, <2>2, <2>3, <2>4, RootKept
<1>9. ASSUME UNCHANGED backupVars
      PROVE  RootInv'
  BY <1>9 DEF backupVars, RootInv, BackupAt
<1> QED
  BY <1>1, <1>2, <1>4, <1>5, <1>6, <1>7, <1>8, <1>9 DEF BackupsNext

\* What a manifest names as its full backup was written as one, along any chain
\* of incremental backups and with any clean-ups beside it (backup/mod.rs).
THEOREM RootsWereFull == BackupsSpec => []RootWasFull
<1>1. RootInv /\ [BackupsNext]_backupVars => RootInv'
  BY RootInvStep
<1>2. RootInv => RootWasFull
  BY DEF RootInv, RootWasFull, HasFull
<1> QED
  BY RootInvInit, <1>1, <1>2, PTL DEF BackupsSpec

-----------------------------------------------------------------------------
(* The clean-up keeps the newest: identifiers that the service generates are *)
(* written once, so what was listed is what is removed.                      *)

Newer(ws, manifest) ==
  {w \in ws : IsFull(w.manifest) = IsFull(manifest) /\ w.manifest.time > manifest.time}
ToKeep(manifest) == IF IsFull(manifest) THEN MaxFull ELSE MaxIncremental
Enough(ws, manifest) == Cardinality(Newer(ws, manifest)) >= ToKeep(manifest)

\* Calls that are going to write a manifest.
Writing(call) == call.at \in {"full", "incremental"}
Entry(id, manifest) == [id |-> id, manifest |-> manifest]

CallsOnce(calls, ws, n) ==
  /\ calls = [t \in BackupThreads |-> calls[t]]
  /\ \A t \in BackupThreads :
       Writing(calls[t]) =>
         \/ calls[t].id \in ChosenIds
         \/ /\ calls[t].id \in 1..n
            /\ \A w \in ws : w.id # calls[t].id
            /\ \A u \in BackupThreads \ {t} : Writing(calls[u]) => calls[u].id # calls[t].id

WrittenOnce(ws, n) ==
  /\ IsFiniteSet(ws)
  /\ \A w \in ws : w.id \in ChosenIds \cup 1..n
  /\ \A v, w \in ws : v.id = w.id /\ v.id \notin ChosenIds => v = w

ListedWritten(table, ws) == \A id \in DOMAIN table : Entry(id, table[id]) \in ws

\* What a clean-up is going to remove was written and is old enough.
ChosenWell(calls, ws) ==
  \A t \in BackupThreads : calls[t].at = "remove" =>
    /\ calls[t] \in [at : {"remove"}, todo : {calls[t].todo}]
    /\ \A id \in calls[t].todo \ ChosenIds :
         \E w \in ws : w.id = id /\ Enough(ws, w.manifest)

PurgedWell(gone, ws) == \A p \in gone : p.id \notin ChosenIds => Enough(ws, p.manifest)

OnceInv ==
  /\ begun \in 0..MaxBackups
  /\ CallsOnce(backupCalls, written, begun) /\ WrittenOnce(written, begun)
  /\ ListedWritten(backups, written)
  /\ ChosenWell(backupCalls, written) /\ PurgedWell(purged, written)

LEMMA OnceInvInit == BackupsInit => OnceInv
BY BackupsAssumption, FS_EmptySet
   DEF BackupsInit, OnceInv, CallsOnce, WrittenOnce, ListedWritten, ChosenWell, PurgedWell,
       Writing, BackupIdle, NoEntries

\* More manifests leave enough newer ones where there were enough.
LEMMA EnoughStays ==
  ASSUME NEW ws, NEW more, IsFiniteSet(more), ws \subseteq more, NEW manifest, Enough(ws, manifest)
  PROVE  Enough(more, manifest)
<1>1. IsFiniteSet(Newer(more, manifest))
  <2>1. Newer(more, manifest) \in SUBSET more
    BY DEF Newer
  <2> QED
    BY <2>1, FS_Subset
<1>2. Newer(ws, manifest) \in SUBSET Newer(more, manifest)
  BY DEF Newer
<1>3. /\ Cardinality(Newer(ws, manifest)) <= Cardinality(Newer(more, manifest))
      /\ Cardinality(Newer(ws, manifest)) \in Nat /\ Cardinality(Newer(more, manifest)) \in Nat
  BY <1>1, <1>2, FS_Subset, FS_CardinalityType
<1>4. ToKeep(manifest) \in Nat
  BY BackupsAssumption DEF ToKeep
<1> QED
  BY <1>3, <1>4 DEF Enough

\* A call begins under an identifier that is chosen, or new.
LEMMA BeginOnce ==
  ASSUME OnceInv, NEW t \in BackupThreads, begun < MaxBackups, begun' = begun + 1,
         UNCHANGED <<backups, written, purged>>,
         \/ UNCHANGED backupCalls
         \/ \E call : /\ BackupGo(t, call) /\ Writing(call) /\ call.at # "remove"
                      /\ (call.id \in ChosenIds \/ call.id = begun')
  PROVE  OnceInv'
<1>1. /\ begun \in Nat /\ begun' \in 0..MaxBackups /\ begun' \in 1..begun' /\ begun' \notin 1..begun
      /\ 1..begun \subseteq 1..begun' /\ begun' \notin ChosenIds
  BY BackupsAssumption DEF OnceInv
<1>2. WrittenOnce(written, begun')
  BY <1>1 DEF OnceInv, WrittenOnce
<1>3. CallsOnce(backupCalls', written, begun') /\ ChosenWell(backupCalls', written)
  <2>1. CASE UNCHANGED backupCalls
    BY <1>1, <2>1 DEF OnceInv, CallsOnce, ChosenWell
  <2>2. ASSUME NEW call, BackupGo(t, call), Writing(call), call.at # "remove",
               call.id \in ChosenIds \/ call.id = begun'
        PROVE  CallsOnce(backupCalls', written, begun') /\ ChosenWell(backupCalls', written)
    <3>1. /\ backupCalls' = [u \in BackupThreads |-> backupCalls'[u]] /\ backupCalls'[t] = call
          /\ \A u \in BackupThreads \ {t} : backupCalls'[u] = backupCalls[u]
      BY <2>2 DEF BackupGo, OnceInv, CallsOnce
    <3>2. \A w \in written : w.id # begun'
      BY <1>1 DEF OnceInv, WrittenOnce
    <3>3. \A u \in BackupThreads : Writing(backupCalls[u]) => backupCalls[u].id # begun'
      BY <1>1 DEF OnceInv, CallsOnce
    <3>4. CallsOnce(backupCalls', written, begun')
      <4>1. CASE call.id \in ChosenIds
        BY <1>1, <2>2, <3>1, <4>1 DEF OnceInv, CallsOnce
      <4>2. CASE call.id = begun'
        BY <1>1, <2>2, <3>1, <3>2, <3>3, <4>2 DEF OnceInv, CallsOnce
      <4> QED
        BY <2>2, <4>1, <4>2
    <3>5. ChosenWell(backupCalls', written)
      BY <2>2, <3>1 DEF OnceInv, ChosenWell
    <3> QED
      BY <3>4, <3>5
  <2> QED
    BY <2>1, <2>2
<1> QED
  BY <1>1, <1>2, <1>3 DEF OnceInv

\* A call that writes nothing now, nor begins to.
LEMMA GoOnce ==
  ASSUME OnceInv, NEW t \in BackupThreads, NEW call, BackupGo(t, call), ~Writing(call),
         UNCHANGED <<begun, written>>,
         ListedWritten(backups', written), PurgedWell(purged', written),
         call.at = "remove" =>
           /\ call \in [at : {"remove"}, todo : {call.todo}]
           /\ \A id \in call.todo \ ChosenIds : \E w \in written : w.id = id /\ Enough(written, w.manifest)
  PROVE  OnceInv'
<1>1. /\ backupCalls' = [u \in BackupThreads |-> backupCalls'[u]] /\ backupCalls'[t] = call
      /\ \A u \in BackupThreads \ {t} : backupCalls'[u] = backupCalls[u]
  BY DEF BackupGo, OnceInv, CallsOnce
<1>2. CallsOnce(backupCalls', written, begun)
  BY <1>1 DEF OnceInv, CallsOnce
<1>3. ChosenWell(backupCalls', written)
  BY <1>1 DEF OnceInv, ChosenWell
<1> QED
  BY <1>2, <1>3 DEF OnceInv

LEMMA WriteOnce ==
  ASSUME OnceInv, NEW t \in BackupThreads, Writing(backupCalls[t]), NEW manifest, NEW next,
         WriteManifest(t, manifest, next), ~Writing(next), next.at # "remove"
  PROVE  OnceInv'
<1> DEFINE id == backupCalls[t].id
           entry == Entry(id, manifest)
<1>0. begun' = begun /\ purged' = purged
  BY DEF WriteManifest
<1>1. CASE id \notin backupDirs
  <2>1. ~Writing(BackupIdle) /\ BackupIdle.at # "remove"
    BY DEF Writing, BackupIdle
  <2> QED
    BY <1>1, <2>1, GoOnce DEF WriteManifest, OnceInv
<1>2. CASE id \in backupDirs
  <2>1. /\ backups' = Put(backups, id, manifest) /\ written' = written \cup {entry}
        /\ BackupGo(t, next)
    BY <1>2 DEF WriteManifest, Entry
  <2>2. entry.id = id /\ entry.manifest = manifest
    BY DEF Entry
  <2>3. id \in ChosenIds \cup 1..begun
    BY DEF OnceInv, CallsOnce
  <2>4. id \notin ChosenIds => \A w \in written : w.id # id
    BY DEF OnceInv, CallsOnce
  <2> HIDE DEF entry
  <2>5. WrittenOnce(written', begun)
    <3>1. IsFiniteSet(written')
      BY <2>1, FS_AddElement DEF OnceInv, WrittenOnce
    <3>2. \A w \in written' : w \in written \/ w = entry
      BY <2>1
    <3> QED
      BY <2>2, <2>3, <2>4, <3>1, <3>2 DEF OnceInv, WrittenOnce
  <2>6. /\ backupCalls' = [u \in BackupThreads |-> backupCalls'[u]] /\ backupCalls'[t] = next
        /\ \A u \in BackupThreads \ {t} : backupCalls'[u] = backupCalls[u]
    BY <2>1 DEF BackupGo, OnceInv, CallsOnce
  <2>7. CallsOnce(backupCalls', written', begun)
    <3>1. ASSUME NEW u \in BackupThreads \ {t}, Writing(backupCalls[u]),
                 backupCalls[u].id \notin ChosenIds
          PROVE  backupCalls[u].id # id
      BY <3>1 DEF OnceInv, CallsOnce
    <3> QED
      BY <2>1, <2>2, <2>6, <3>1 DEF OnceInv, CallsOnce
  <2>8. ListedWritten(backups', written')
    <3>1. /\ DOMAIN backups' = DOMAIN backups \cup {id} /\ backups'[id] = manifest
          /\ \A i \in DOMAIN backups : i # id => backups'[i] = backups[i]
      <4> HIDE DEF id
      <4> QED
        BY <2>1 DEF Put
    <3> QED
      BY <2>1, <3>1 DEF OnceInv, ListedWritten, entry
  <2>9. \A m : Enough(written, m) => Enough(written', m)
    BY <2>1, <2>5, EnoughStays DEF WrittenOnce
  <2>10. written \subseteq written' /\ PurgedWell(purged, written')
    BY <2>1, <2>9 DEF OnceInv, PurgedWell
  <2>11. ChosenWell(backupCalls', written')
    <3>1. ASSUME NEW u \in BackupThreads, backupCalls'[u].at = "remove"
          PROVE  backupCalls'[u] = backupCalls[u]
      BY <2>6, <3>1
    <3> QED
      BY <2>9, <2>10, <3>1 DEF OnceInv, ChosenWell
  <2> QED
    BY <1>0, <2>5, <2>7, <2>8, <2>10, <2>11 DEF OnceInv
<1> QED
  BY <1>1, <1>2

LEMMA RemoveOnce ==
  ASSUME OnceInv, NEW t \in BackupThreads, RemoveBackup(t)
  PROVE  OnceInv'
<1>1. PICK id \in backupCalls[t].todo :
        /\ backups' = Drop(backups, id)
        /\ purged' = purged \cup {[id |-> i, manifest |-> backups[i]] : i \in {id} \cap DOMAIN backups}
        /\ BackupGo(t, [backupCalls[t] EXCEPT !.todo = @ \ {id}])
  BY DEF RemoveBackup
<1>2. backupCalls[t].at = "remove" /\ UNCHANGED <<begun, written>>
  BY DEF RemoveBackup, BackupAt
<1> DEFINE call == [backupCalls[t] EXCEPT !.todo = @ \ {id}]
<1>3. /\ call \in [at : {"remove"}, todo : {call.todo}] /\ call.at = "remove"
      /\ call.todo \subseteq backupCalls[t].todo
  BY <1>2 DEF OnceInv, ChosenWell
<1>4. \A i \in backupCalls[t].todo \ ChosenIds : \E w \in written : w.id = i /\ Enough(written, w.manifest)
  BY <1>2 DEF OnceInv, ChosenWell
<1>5. ListedWritten(backups', written)
  BY <1>1 DEF OnceInv, ListedWritten, Drop, Restrict
<1>6. PurgedWell(purged', written)
  <2> SUFFICES ASSUME NEW p \in purged', p \notin purged, p.id \notin ChosenIds
               PROVE  Enough(written, p.manifest)
    BY DEF OnceInv, PurgedWell
  <2>1. p = Entry(id, backups[id]) /\ id \in DOMAIN backups
    BY <1>1 DEF Entry
  <2>2. p \in written /\ p.id = id /\ p.manifest = backups[id]
    BY <2>1 DEF OnceInv, ListedWritten, Entry
  <2>3. PICK w \in written : w.id = id /\ Enough(written, w.manifest)
    BY <1>4, <2>2
  <2> QED
    BY <2>2, <2>3 DEF OnceInv, WrittenOnce
<1>7. ~Writing(call)
  BY <1>3 DEF Writing
<1>8. BackupGo(t, call)
  BY <1>1
<1> HIDE DEF call
<1> QED
  BY <1>2, <1>3, <1>4, <1>5, <1>6, <1>7, <1>8, GoOnce

\* What is beyond the newest n of a kind has n newer ones, written each.
LEMMA BeyondEnough ==
  ASSUME OnceInv, NEW ids \in SUBSET DOMAIN backups, NEW n \in Nat, NEW id \in BeyondNewest(ids, n),
         \A i, j \in ids : IsFull(backups[i]) = IsFull(backups[j]),
         n = ToKeep(backups[id])
  PROVE  /\ Entry(id, backups[id]) \in written
         /\ Enough(written, backups[id])
<1> DEFINE newer == {j \in ids : backups[j].time > backups[id].time}
           f == [j \in newer |-> Entry(j, backups[j])]
<1>1. id \in ids /\ Cardinality(newer) >= n
  BY DEF BeyondNewest
<1>2. \A j \in ids : Entry(j, backups[j]) \in written
  BY DEF OnceInv, ListedWritten
<1>3. \A i, m : Entry(i, m).id = i /\ Entry(i, m).manifest = m
  BY DEF Entry
<1>4. \A j \in newer : f[j] \in Newer(written, backups[id])
  BY <1>1, <1>2, <1>3 DEF Newer
<1>5. \A i, j \in newer : f[i] = f[j] => i = j
  BY <1>3
<1>6. f \in Injection(newer, Newer(written, backups[id]))
  <2>1. f \in [newer -> Newer(written, backups[id])]
    BY <1>4
  <2> QED
    BY <1>5, <2>1 DEF Injection, IsInjective
<1>7. IsFiniteSet(Newer(written, backups[id]))
  <2>1. Newer(written, backups[id]) \in SUBSET written
    BY DEF Newer
  <2> QED
    BY <2>1, FS_Subset DEF OnceInv, WrittenOnce
<1> HIDE DEF f, newer
<1>8. /\ IsFiniteSet(newer) /\ Cardinality(newer) <= Cardinality(Newer(written, backups[id]))
      /\ Cardinality(newer) \in Nat /\ Cardinality(Newer(written, backups[id])) \in Nat
  BY <1>6, <1>7, FS_Injection, FS_CardinalityType
<1> QED
  BY <1>1, <1>2, <1>8 DEF Enough

LEMMA ListOnce ==
  ASSUME OnceInv, NEW t \in BackupThreads, ListBackups(t)
  PROVE  OnceInv'
<1> DEFINE full == {id \in DOMAIN backups : IsFull(backups[id])}
           incremental == DOMAIN backups \ full
           todo == BeyondNewest(full, MaxFull) \cup BeyondNewest(incremental, MaxIncremental)
           call == [at |-> "remove", todo |-> todo]
<1>1. BackupGo(t, call) /\ UNCHANGED <<begun, written, backups, purged>>
  BY DEF ListBackups
<1>2. /\ full \in SUBSET DOMAIN backups /\ incremental \in SUBSET DOMAIN backups
      /\ \A i \in full : IsFull(backups[i]) /\ ToKeep(backups[i]) = MaxFull
      /\ \A i \in incremental : ~IsFull(backups[i]) /\ ToKeep(backups[i]) = MaxIncremental
  BY DEF ToKeep
<1>3. \A i, j \in full : IsFull(backups[i]) = IsFull(backups[j])
  BY <1>2
<1>4. \A i, j \in incremental : IsFull(backups[i]) = IsFull(backups[j])
  BY <1>2 DEF IsFull
<1> HIDE DEF full, incremental
<1>5. MaxFull \in Nat /\ MaxIncremental \in Nat
  BY BackupsAssumption
<1>6. ASSUME NEW id \in todo
      PROVE  Entry(id, backups[id]) \in written /\ Enough(written, backups[id])
  <2>1. CASE id \in BeyondNewest(full, MaxFull)
    <3>1. id \in full
      BY <2>1 DEF BeyondNewest
    <3> QED
      BY <1>2, <1>3, <1>5, <2>1, <3>1, BeyondEnough
  <2>2. CASE id \in BeyondNewest(incremental, MaxIncremental)
    <3>1. id \in incremental
      BY <2>2 DEF BeyondNewest
    <3> QED
      BY <1>2, <1>4, <1>5, <2>2, <3>1, BeyondEnough
  <2> QED
    BY <2>1, <2>2
<1>7. \A id \in todo : \E w \in written : w.id = id /\ Enough(written, w.manifest)
  BY <1>6 DEF Entry
<1>8. ~Writing(call) /\ call \in [at : {"remove"}, todo : {call.todo}] /\ call.todo = todo
  BY DEF Writing
<1> HIDE DEF call, todo
<1> QED
  BY <1>1, <1>7, <1>8, GoOnce DEF OnceInv

LEMMA OnceInvStep ==
  ASSUME OnceInv, [BackupsNext]_backupVars
  PROVE  OnceInv'
<1>1. ASSUME NEW t \in BackupThreads, BeginFull(t) PROVE OnceInv'
  <2>1. PICK id \in ChosenIds \cup {begun'} :
          BackupGo(t, [at |-> "full", id |-> id, time |-> begun'])
    BY <1>1 DEF BeginFull
  <2> DEFINE call == [at |-> "full", id |-> id, time |-> begun']
  <2>2. Writing(call) /\ call.at # "remove" /\ (call.id \in ChosenIds \/ call.id = begun')
    BY DEF Writing
  <2> HIDE DEF call
  <2>3. begun < MaxBackups /\ begun' = begun + 1 /\ UNCHANGED <<backups, written, purged>>
    BY <1>1 DEF BeginFull
  <2> QED
    BY <2>1, <2>2, <2>3, BeginOnce DEF call
<1>2. ASSUME NEW t \in BackupThreads, NEW since \in BackupIds, BeginIncremental(t, since)
      PROVE  OnceInv'
  <2> DEFINE call == [at |-> "incremental", id |-> begun', time |-> begun',
                      root |-> backups[since].root]
  <2>1. UNCHANGED backupCalls \/ BackupGo(t, call)
    BY <1>2 DEF BeginIncremental
  <2>2. Writing(call) /\ call.at # "remove" /\ (call.id \in ChosenIds \/ call.id = begun')
    BY DEF Writing
  <2> HIDE DEF call
  <2>3. begun < MaxBackups /\ begun' = begun + 1 /\ UNCHANGED <<backups, written, purged>>
    BY <1>2 DEF BeginIncremental
  <2> QED
    BY <2>1, <2>2, <2>3, BeginOnce
<1>3. ASSUME NEW t \in BackupThreads, WriteFull(t) \/ WriteIncremental(t)
      PROVE  OnceInv'
  <2>1. Writing(backupCalls[t])
    BY <1>3 DEF WriteFull, WriteIncremental, BackupAt, Writing
  <2>2. ~Writing([at |-> "list"]) /\ ~Writing(BackupIdle) /\ BackupIdle.at # "remove"
    BY DEF Writing, BackupIdle
  <2>3. PICK manifest : WriteManifest(t, manifest, [at |-> "list"]) \/ WriteManifest(t, manifest, BackupIdle)
    BY <1>3 DEF WriteFull, WriteIncremental
  <2> QED
    BY <2>1, <2>2, <2>3, WriteOnce
<1>4. ASSUME NEW t \in BackupThreads, BackupFails(t) \/ CleanupReturns(t)
      PROVE  OnceInv'
  <2>1. ~Writing(BackupIdle) /\ BackupIdle.at # "remove"
    BY DEF Writing, BackupIdle
  <2>2. BackupGo(t, BackupIdle) /\ UNCHANGED <<backups, begun, written, purged>>
    BY <1>4 DEF BackupFails, CleanupReturns
  <2> QED
    BY <2>1, <2>2, GoOnce DEF OnceInv
<1>5. ASSUME NEW t \in BackupThreads, ListBackups(t) PROVE OnceInv'
  BY <1>5, ListOnce
<1>6. ASSUME NEW t \in BackupThreads, RemoveBackup(t) PROVE OnceInv'
  BY <1>6, RemoveOnce
<1>7. CASE UNCHANGED backupVars
  BY <1>7 DEF backupVars, OnceInv, CallsOnce, WrittenOnce, ListedWritten, ChosenWell, PurgedWell
<1> QED
  BY <1>1, <1>2, <1>3, <1>4, <1>5, <1>6, <1>7 DEF BackupsNext

\* For any number of threads and any limits, a clean-up takes a backup with a
\* generated identifier only when as many newer ones of its kind were written
\* as are to be kept: what cleanup_old_backups has listed is what it removes.
THEOREM CleanupsKeepNewest == BackupsSpec => []BackupCleanupKeepsNewest
<1>1. OnceInv /\ [BackupsNext]_backupVars => OnceInv'
  BY OnceInvStep
<1>2. OnceInv => BackupCleanupKeepsNewest
  BY DEF OnceInv, PurgedWell, Enough, Newer, ToKeep, BackupCleanupKeepsNewest
<1> QED
  BY OnceInvInit, <1>1, <1>2, PTL DEF BackupsSpec
=============================================================================
