-------------------------------- MODULE Wal --------------------------------
(***************************************************************************)
(* The write-ahead log of the engine (wal/mod.rs): numbered files of       *)
(* length-prefixed records, one writer that appends to the newest file     *)
(* through a BufWriter, and what a crash, a power loss or a failed system  *)
(* call leaves behind.                                                     *)
(*                                                                         *)
(* A record is one WriteBatch; sizes and offsets count records.  A record  *)
(* reaches the file in two halves, so that a crash can fall inside it and  *)
(* leave the file torn.  A failed flush keeps in the buffer what it could  *)
(* not write.  When the buffer is full of such leftovers, or a batch is    *)
(* bigger than the buffer, a write can fail with its length header written *)
(* and its data not: the header stays, an orphan, and nothing counts it.   *)
(***************************************************************************)
EXTENDS Naturals, Sequences, FiniteSets

CONSTANTS
    Batch,              \* the write batches handed to the log
    None,               \* no open file; no write in progress
    FileSize,           \* WalConfig.file_size: a file this long is rotated
    SyncEnabled,        \* WalConfig.sync_enabled
    PowerLossPossible,  \* may the machine lose its page cache
    MaxAcks,            \* bound: writes acknowledged in a behaviour
    MaxFaults           \* bound: crashes, power losses and I/O errors together

VARIABLES
    files,    \* disk: file id -> see DiskFile
    current,  \* Wal.current_file: None or [id, offset, pend]
    fileId,   \* Wal.file_id: the id the next created file takes
    up,       \* a Wal value exists
    writing,  \* the batch of the Wal::write in progress (it holds the lock)
    acked,    \* ghost: the entries write() returned Ok with
    acks,     \* ghost: how many there have been
    holed,    \* ghost: an id has been skipped or a file removed or lost
    faults    \* ghost: faults so far

walVars == <<files, current, fileId, up, writing, acked, acks, holed, faults>>

OpenFile == [id : Nat, offset : Nat, pend : Seq(Batch)]

\* A file: its complete records; whether part of another follows them; how many
\* are synced; how many stand in front of each orphan, which may still be in
\* the buffer, or have been lost with it, if the file has no more than those;
\* and whether the directory entry is known to be on disk.
DiskFile == [recs : Seq(Batch), torn : BOOLEAN, synced : Nat,
             orphans : SUBSET Nat, linked : BOOLEAN]

\* What write() returned Ok for.  pos is the number of the record in its file;
\* it is sound if no orphan stood in front of it when write() returned.
Entry == [no : Nat, id : Nat, pos : Nat, batch : Batch, sound : BOOLEAN]

ASSUME WalAssumption ==
    /\ None \notin OpenFile
    /\ None \notin Batch
    /\ FileSize \in Nat \ {0}
    /\ SyncEnabled \in BOOLEAN
    /\ PowerLossPossible \in BOOLEAN
    /\ MaxAcks \in Nat
    /\ MaxFaults \in Nat

----------------------------------------------------------------------------
(* Files and the buffer in front of the newest one *)

EmptyFile ==
    [recs |-> <<>>, torn |-> FALSE, synced |-> 0, orphans |-> {}, linked |-> FALSE]

WithNewFile(fs, id) ==
    [i \in DOMAIN fs \cup {id} |-> IF i = id THEN EmptyFile ELSE fs[i]]

\* No orphan stands in front of the record number pos of the file f.
Sound(f, pos) == \A o \in f.orphans : pos <= o

\* The ways a flush of the buffer q to the file f can end: k records written
\* and, when torn, part of the next one or of an orphan behind the last.
FlushEnds(f, q) ==
    {e \in [k : 0..Len(q), torn : BOOLEAN] :
        /\ e.torn => e.k < Len(q) \/ Len(f.recs) + Len(q) \in f.orphans
        /\ f.torn /\ e.k = 0 => e.torn}

Drained(f, q, e) ==
    [f EXCEPT !.recs = @ \o SubSeq(q, 1, e.k), !.torn = e.torn]

\* The file f once the buffered record b is complete in it.
Completed(f, b) == [f EXCEPT !.recs = Append(@, b), !.torn = FALSE]

\* The file f after sync_all.
Synced(f) == [f EXCEPT !.synced = Len(f.recs)]

\* The file f holds all that the buffer of its writer held.
AllWritten(f, offset) == Len(f.recs) = offset /\ (offset \in f.orphans => f.torn)

\* The disk once the BufWriter of the current file is dropped: Drop flushes
\* it and ignores the error.
AfterDrop ==
    IF current = None THEN {files}
    ELSE {[files EXCEPT ![current.id] = Drained(@, current.pend, e)] :
            e \in FlushEnds(files[current.id], current.pend)}

\* Mutant: the rotation test is off by one.
NeedsFileLate == current # None => current.offset > FileSize

NeedsFile == current # None => current.offset >= FileSize

Idle == up /\ writing = None

Faulty == faults < MaxFaults /\ faults' = faults + 1

----------------------------------------------------------------------------
(* The life of the Wal value *)

Init ==
    /\ files = <<>>
    /\ current = None
    /\ fileId = 0
    /\ up = FALSE
    /\ writing = None
    /\ acked = {}
    /\ acks = 0
    /\ holed = FALSE
    /\ faults = 0

\* Wal::new: the counter starts at 0, whatever the directory holds.
Open ==
    /\ ~up
    /\ up' = TRUE
    /\ current' = None
    /\ fileId' = 0
    /\ UNCHANGED <<files, writing, acked, acks, holed, faults>>

\* Wal::close: take the current file, flush it, sync it.
Close ==
    /\ Idle
    /\ IF current = None
       THEN UNCHANGED <<files, faults>>
       ELSE \E fs \in AfterDrop :
              LET f == fs[current.id] IN
              \/ /\ AllWritten(f, current.offset)
                 /\ files' = [fs EXCEPT ![current.id] = Synced(f)]
                 /\ UNCHANGED faults
              \/ /\ files' = fs
                 /\ Faulty
    /\ current' = None
    /\ UNCHANGED <<fileId, up, writing, acked, acks, holed>>

\* The Wal value is dropped without a close.
Shutdown ==
    /\ Idle
    /\ files' \in AfterDrop
    /\ up' = FALSE
    /\ current' = None
    /\ UNCHANGED <<fileId, writing, acked, acks, holed, faults>>

\* The process dies; what it had handed to the kernel stays.
Crash ==
    /\ up
    /\ Faulty
    /\ up' = FALSE
    /\ current' = None
    /\ writing' = None
    /\ UNCHANGED <<files, fileId, acked, acks, holed>>

\* What a power loss can leave of a file: its synced records and any number
\* of the later ones.
Survivors(f) ==
    {[f EXCEPT !.recs = SubSeq(@, 1, s.k), !.torn = s.torn, !.linked = TRUE] :
        s \in {s \in [k : f.synced..Len(f.recs), torn : BOOLEAN] :
                 s.torn => f.torn \/ s.k < Len(f.recs)}}

\* The machine dies: unsynced data may be lost, file by file.  The directory is
\* never synced: a file created since the last power loss may be gone, with the
\* records that were synced in it.
PowerLoss ==
    /\ PowerLossPossible
    /\ Faulty
    /\ \E gone \in SUBSET {i \in DOMAIN files : ~files[i].linked} :
         LET left == DOMAIN files \ gone IN
         /\ files' \in [left -> UNION {Survivors(files[i]) : i \in left}]
         /\ \A i \in left : files'[i] \in Survivors(files[i])
         /\ acked' = {e \in acked : e.id \notin gone}
         /\ holed' = (holed \/ gone # {})
    /\ up' = FALSE
    /\ current' = None
    /\ writing' = None
    /\ UNCHANGED <<fileId, acks>>

----------------------------------------------------------------------------
(* Wal::write, from taking the lock to releasing it *)

\* Mutant: the counter is advanced only once the file is open.
CreateRefusedKeepsId ==
    /\ Idle
    /\ NeedsFile
    /\ fileId \in DOMAIN files
    /\ UNCHANGED walVars

\* create_file finds the id taken (create_new): the write fails, the id is
\* consumed.
CreateRefused ==
    /\ Idle
    /\ NeedsFile
    /\ fileId \in DOMAIN files
    /\ fileId' = fileId + 1
    /\ UNCHANGED <<files, current, up, writing, acked, acks, holed, faults>>

\* create_file fails for another reason: the id is consumed all the same.
CreateFails ==
    /\ Idle
    /\ NeedsFile
    /\ fileId \notin DOMAIN files
    /\ Faulty
    /\ fileId' = fileId + 1
    /\ holed' = TRUE
    /\ UNCHANGED <<files, current, up, writing, acked, acks>>

\* Mutant: create_new is left out and the file is opened to append.
WriteToReusedFile(b) ==
    /\ Idle
    /\ acks < MaxAcks
    /\ NeedsFile
    /\ \E fs \in AfterDrop :
          files' = IF fileId \in DOMAIN fs THEN fs ELSE WithNewFile(fs, fileId)
    /\ fileId' = fileId + 1
    /\ current' = [id |-> fileId, offset |-> 1, pend |-> <<b>>]
    /\ writing' = b
    /\ UNCHANGED <<up, acked, acks, holed, faults>>

\* Mutant: create and truncate in place of create_new.
WriteToTruncatedFile(b) ==
    /\ Idle
    /\ acks < MaxAcks
    /\ NeedsFile
    /\ \E fs \in AfterDrop : files' = WithNewFile(fs, fileId)
    /\ fileId' = fileId + 1
    /\ current' = [id |-> fileId, offset |-> 1, pend |-> <<b>>]
    /\ writing' = b
    /\ UNCHANGED <<up, acked, acks, holed, faults>>

\* The batch goes to the buffer of a new file; the writer it replaces, if
\* any, is dropped.
WriteToNewFile(b) ==
    /\ Idle
    /\ acks < MaxAcks
    /\ NeedsFile
    /\ fileId \notin DOMAIN files
    /\ \E fs \in AfterDrop : files' = WithNewFile(fs, fileId)
    /\ fileId' = fileId + 1
    /\ current' = [id |-> fileId, offset |-> 1, pend |-> <<b>>]
    /\ writing' = b
    /\ UNCHANGED <<up, acked, acks, holed, faults>>

\* The batch goes to the buffer of the current file, behind whatever an
\* earlier failed flush has left there.
WriteToCurrentFile(b) ==
    /\ Idle
    /\ acks < MaxAcks
    /\ ~NeedsFile
    /\ current' = [current EXCEPT !.offset = @ + 1, !.pend = Append(@, b)]
    /\ writing' = b
    /\ UNCHANGED <<files, fileId, up, acked, acks, holed, faults>>

\* write_u32 or write_all fails in the current file: the leftovers could not be
\* written, or not all of them, or the data itself.  If the header had been
\* buffered it stays, an orphan; the offset is what it was.
RecordFails ==
    /\ Idle
    /\ ~NeedsFile
    /\ Faulty
    /\ \E headers \in {{}, {current.offset}} :
         LET f == [files[current.id] EXCEPT !.orphans = @ \cup headers] IN
         \E e \in FlushEnds(f, current.pend) :
            /\ files' = [files EXCEPT ![current.id] = Drained(f, current.pend, e)]
            /\ current' = [current EXCEPT !.pend = SubSeq(@, e.k + 1, Len(@))]
    /\ UNCHANGED <<fileId, up, writing, acked, acks, holed>>

\* write_all fails in a new file, whose buffer has taken the header: the file
\* stays the current one, with an orphan at its start.
FirstRecordFails ==
    /\ Idle
    /\ NeedsFile
    /\ fileId \notin DOMAIN files
    /\ Faulty
    /\ \E fs \in AfterDrop, torn \in BOOLEAN :
         files' = [WithNewFile(fs, fileId) EXCEPT ![fileId].orphans = {0},
                                                  ![fileId].torn = torn]
    /\ fileId' = fileId + 1
    /\ current' = [id |-> fileId, offset |-> 0, pend |-> <<>>]
    /\ UNCHANGED <<up, writing, acked, acks, holed>>

\* Mutant: the buffered records run together, without their length headers.
FlushUnframed ==
    /\ writing # None
    /\ current.pend # <<>>
    /\ files' = [files EXCEPT ![current.id].recs = Append(@, current.pend)]
    /\ current' = [current EXCEPT !.pend = <<>>]
    /\ UNCHANGED <<fileId, up, writing, acked, acks, holed, faults>>

\* flush(): half a record reaches the file.
FlushStep ==
    /\ writing # None
    /\ current.pend # <<>>
    /\ IF files[current.id].torn
       THEN /\ files' = [files EXCEPT ![current.id] = Completed(@, Head(current.pend))]
            /\ current' = [current EXCEPT !.pend = Tail(@)]
       ELSE /\ files' = [files EXCEPT ![current.id].torn = TRUE]
            /\ UNCHANGED current
    /\ UNCHANGED <<fileId, up, writing, acked, acks, holed, faults>>

\* flush() fails: write() returns the error, the buffer keeps the rest.
FlushFails ==
    /\ writing # None
    /\ current.pend # <<>>
    /\ Faulty
    /\ writing' = None
    /\ UNCHANGED <<files, current, fileId, up, acked, acks, holed>>

\* sync_all() fails: the record is in the file and write() returns the error.
SyncFails ==
    /\ writing # None
    /\ current.pend = <<>>
    /\ SyncEnabled
    /\ Faulty
    /\ writing' = None
    /\ UNCHANGED <<files, current, fileId, up, acked, acks, holed>>

\* Mutant: sync_all is left out.
WriteReturnsUnsynced ==
    /\ writing # None
    /\ current.pend = <<>>
    /\ acked' = acked \cup {[no |-> acks + 1, id |-> current.id,
                             pos |-> current.offset, batch |-> writing,
                             sound |-> Sound(files[current.id], current.offset)]}
    /\ acks' = acks + 1
    /\ writing' = None
    /\ UNCHANGED <<files, current, fileId, up, holed, faults>>

\* write() syncs, if it is to, and returns the WalEntry: pos is the record's
\* number in the file, one more than WalEntry.offset.
WriteReturns ==
    /\ writing # None
    /\ current.pend = <<>>
    /\ files' = IF SyncEnabled
                THEN [files EXCEPT ![current.id] = Synced(@)]
                ELSE files
    /\ acked' = acked \cup {[no |-> acks + 1, id |-> current.id,
                             pos |-> current.offset, batch |-> writing,
                             sound |-> Sound(files[current.id], current.offset)]}
    /\ acks' = acks + 1
    /\ writing' = None
    /\ UNCHANGED <<current, fileId, up, holed, faults>>

----------------------------------------------------------------------------
(* Wal::purge, which takes no lock.  Nothing in the engine calls it; a      *)
(* caller is taken to name an existing file, not newer than the current     *)
(* one, as the oldest to keep.                                              *)

Purge(before) ==
    /\ up
    /\ current # None => before <= current.id
    /\ LET old == {i \in DOMAIN files : i < before} IN
       \E gone \in SUBSET old :
          /\ gone # {}
          /\ IF gone = old THEN UNCHANGED faults ELSE Faulty
          /\ files' = [i \in DOMAIN files \ gone |-> files[i]]
          /\ acked' = {e \in acked : e.id \notin gone}
    /\ holed' = TRUE
    /\ UNCHANGED <<current, fileId, up, writing, acks>>

----------------------------------------------------------------------------

Write(b) == WriteToNewFile(b) \/ WriteToCurrentFile(b)

Next ==
    \/ Open \/ Close \/ Shutdown \/ Crash \/ PowerLoss
    \/ CreateRefused \/ CreateFails \/ RecordFails \/ FirstRecordFails
    \/ \E b \in Batch : Write(b)
    \/ FlushStep \/ FlushFails \/ SyncFails \/ WriteReturns
    \/ \E before \in DOMAIN files : Purge(before)

Spec == Init /\ [][Next]_walVars

\* The clients keep writing, and a write in progress is scheduled.
Advance ==
    \/ CreateRefused
    \/ \E b \in Batch : Write(b)
    \/ FlushStep
    \/ WriteReturns

LiveSpec == Spec /\ WF_walVars(Advance)

----------------------------------------------------------------------------
(* Wal::replay: the complete records, by file id and then by offset *)

Records ==
    UNION {{[id |-> i, pos |-> p] : p \in DOMAIN files[i].recs} : i \in DOMAIN files}

Before(a, b) == a.id < b.id \/ (a.id = b.id /\ a.pos < b.pos)

BatchAt(r) == files[r.id].recs[r.pos]

\* The elements of a finite set one after the other in the order given as a
\* set of pairs: the n-th has n - 1 before it.
InOrder(S, less) ==
    [n \in 1..Cardinality(S) |->
        CHOOSE x \in S : Cardinality({y \in S : <<y, x>> \in less}) = n - 1]

\* No orphan stands in front of the record r.
Reached(r) == Sound(files[r.id], r.pos)

\* replay_file gets to the end of every file: read_exact fails on a torn one,
\* and the error is returned.
Replayable == \A i \in DOMAIN files : ~files[i].torn

\* What replay can deliver.  An orphan is read as the header of what follows
\* it: from there on replay is out of step with the records and skips them,
\* until its steps happen to end where a record begins, if they ever do, and
\* the records up to the next orphan are read.  Bytes read out of step are
\* taken not to make a batch.
Deliveries ==
    {rs \in SUBSET Records :
        \A r \in Records :
          \/ r \in rs
          \/ ~Reached(r) /\ \A p \in rs : p.id = r.id /\ p.pos + 1 = r.pos
                                           => p.pos \in files[r.id].orphans}

\* Whether replay can succeed, and can fail: out of step it may find a length
\* of 0, which ends the file, or one that is too long.
OutOfStep(f) == ~Sound(f, Len(f.recs))
CanReplay  == \A i \in DOMAIN files : files[i].torn => OutOfStep(files[i])
ReplayFails == \E i \in DOMAIN files : files[i].torn \/ OutOfStep(files[i])

----------------------------------------------------------------------------
(* Properties *)

FilesTyped ==
    /\ files = [i \in DOMAIN files |-> files[i]]
    /\ \A i \in DOMAIN files : i \in Nat /\ files[i] \in DiskFile

\* The variables stay in their types.
TypeOK ==
    /\ FilesTyped
    /\ current = None \/ current \in OpenFile
    /\ fileId \in Nat
    /\ up \in BOOLEAN
    /\ writing = None \/ writing \in Batch
    /\ \A e \in acked : e \in Entry
    /\ acks \in Nat
    /\ holed \in BOOLEAN
    /\ faults \in Nat

\* Every write that returned Ok is a complete record of its file, whatever has
\* crashed, failed or been reopened since, until the file is purged or a power
\* loss takes its directory entry.  If no orphan stood in front of the record
\* when write() returned, none ever will: replay reads it, and exactly where
\* its WalEntry says.  What a failed write leaves spoils later writes only
\* (write, write_entry_internal, create_file, replay_file).
AckedInWal ==
    \A e \in acked :
        /\ e.id \in DOMAIN files
        /\ e.pos \in DOMAIN files[e.id].recs
        /\ files[e.id].recs[e.pos] = e.batch
        /\ e.sound => Sound(files[e.id], e.pos)

\* Replay visits the acknowledged writes in the order they were acknowledged,
\* across rotations and restarts, as long as no id has been skipped by a
\* failed create_file and no file has been purged or lost.
AckOrder ==
    ~holed => \A a, b \in acked : a.no < b.no => Before(a, b)

\* The writer's offset counts the records in its file and those still in the
\* buffer, and none of the orphans between them, which all stand where the
\* offset has been; what is torn is a record the buffer can still complete or
\* an orphan; a write that returns finds its own record untorn in the file; and
\* rotation keeps every file within file_size, orphans apart.
WriterConsistent ==
    /\ current # None =>
         /\ current.id \in DOMAIN files
         /\ current.offset = Len(files[current.id].recs) + Len(current.pend)
         /\ \A o \in files[current.id].orphans : o <= current.offset
         /\ files[current.id].torn => current.pend # <<>> \/ current.offset \in files[current.id].orphans
    /\ writing # None /\ current.pend = <<>> => ~files[current.id].torn
    /\ \A i \in DOMAIN files : Len(files[i].recs) <= FileSize

\* Only the file being written changes, and only at its end: reopening never
\* touches what an earlier process wrote (create_new in create_file).
OnlyAppends ==
    [][up' => \A i \in DOMAIN files \cap DOMAIN files' :
                files'[i] # files[i] =>
                  /\ current # None /\ i = current.id
                  /\ SubSeq(files'[i].recs, 1, Len(files[i].recs)) = files[i].recs
      ]_walVars

\* The acknowledged batches in the order replay delivers them, read from the
\* files in front of any orphan.
ReplayedAcks ==
    LET found   == {e \in acked : e.id \in DOMAIN files /\ e.pos \in DOMAIN files[e.id].recs
                                     /\ Reached(e)}
        entries == InOrder(found, {p \in found \X found : Before(p[1], p[2])})
    IN  [n \in 1..Cardinality(found) |-> BatchAt(entries[n])]

\* A write has been acknowledged that replay may not reach.
Unreached == \E e \in acked : ~e.sound

Promise == INSTANCE AckedLog WITH log <- ReplayedAcks, damaged <- holed \/ Unreached

\* The write-ahead log is an acknowledged log: a crash, a power loss, a failed
\* write, a rotation or a restart neither loses, repeats nor reorders what was
\* acknowledged.  The promise ends when an id is skipped, a file is purged or
\* lost with its directory entry, or a write is acknowledged behind an orphan
\* (Wal::write, Wal::replay).
ImplementsAckedLog == Promise!Spec

\* A crash leaves a log that replay reads to its end.
CrashLeavesReplayable == [][Crash => Replayable']_walVars

\* Replay visits all acknowledged writes in the order they were acknowledged,
\* whatever has been purged and whichever ids were skipped.
ReplayInOrder == \A a, b \in acked : a.no < b.no => Before(a, b)

\* A client that keeps trying gets a write through, although after a restart
\* create_file must first count past every file on the disk.
Progress ==
    \A n \in 0..(MaxAcks - 1) : (up /\ acks = n) ~> (acks > n \/ ~up)
=============================================================================
