----------------------------- MODULE WalProofs -----------------------------
(***************************************************************************)
(* Proofs about the write-ahead log, for every set of batches, file size   *)
(* and bound.                                                              *)
(***************************************************************************)
EXTENDS Wal, FiniteSetTheorems, TLAPS

----------------------------------------------------------------------------
(* Flushing *)

\* The disk gs holds the files of fs, each as it was or with records added.
Extends(fs, gs) ==
    /\ gs = [i \in DOMAIN fs |-> gs[i]]
    /\ \A i \in DOMAIN fs :
         /\ gs[i] \in DiskFile
         /\ gs[i].synced = fs[i].synced
         /\ gs[i].orphans = fs[i].orphans
         /\ Len(fs[i].recs) <= Len(gs[i].recs)
         /\ \A p \in 1..Len(fs[i].recs) : gs[i].recs[p] = fs[i].recs[p]

\* A file with other records, and torn or not, field by field.
LEMMA FileWith ==
    ASSUME NEW f \in DiskFile, NEW r, NEW t
    PROVE  [f EXCEPT !.recs = r, !.torn = t] =
             [recs |-> r, torn |-> t, synced |-> f.synced,
              orphans |-> f.orphans, linked |-> f.linked]
<1> DEFINE g == [f EXCEPT !.recs = r]
<1>1. g = [recs |-> r, torn |-> f.torn, synced |-> f.synced,
           orphans |-> f.orphans, linked |-> f.linked]
  BY DEF DiskFile
<1>2. [f EXCEPT !.recs = r, !.torn = t] = [g EXCEPT !.torn = t]
  BY Zenon
<1> HIDE DEF g
<1>3. [g EXCEPT !.torn = t] =
        [recs |-> r, torn |-> t, synced |-> f.synced,
         orphans |-> f.orphans, linked |-> f.linked]
  BY <1>1
<1> QED
  BY <1>2, <1>3

\* The files the writer makes of a file, field by field.
LEMMA DrainedIs ==
    ASSUME NEW f \in DiskFile, NEW q, NEW e
    PROVE  Drained(f, q, e) =
             [recs |-> f.recs \o SubSeq(q, 1, e.k), torn |-> e.torn, synced |-> f.synced,
              orphans |-> f.orphans, linked |-> f.linked]
BY FileWith, Zenon DEF Drained

LEMMA CompletedIs ==
    ASSUME NEW f \in DiskFile, NEW b
    PROVE  Completed(f, b) =
             [recs |-> Append(f.recs, b), torn |-> FALSE, synced |-> f.synced,
              orphans |-> f.orphans, linked |-> f.linked]
BY FileWith, Zenon DEF Completed

LEMMA SyncedIs ==
    ASSUME NEW f \in DiskFile
    PROVE  Synced(f) =
             [recs |-> f.recs, torn |-> f.torn, synced |-> Len(f.recs),
              orphans |-> f.orphans, linked |-> f.linked]
<1> DEFINE n == Len(f.recs)
<1> HIDE DEF n
<1>1. [f EXCEPT !.synced = n] =
        [recs |-> f.recs, torn |-> f.torn, synced |-> n,
         orphans |-> f.orphans, linked |-> f.linked]
  BY DEF DiskFile
<1> QED
  BY <1>1, Zenon DEF Synced, n

\* A file with a record completed or synced is a typed file.
LEMMA CompletedFile ==
    ASSUME NEW f \in DiskFile, NEW b \in Batch
    PROVE  /\ Completed(f, b) \in DiskFile
           /\ Completed(f, b).recs = Append(f.recs, b)
           /\ Len(Completed(f, b).recs) = Len(f.recs) + 1
           /\ Completed(f, b).torn = FALSE
           /\ Completed(f, b).synced = f.synced
           /\ Completed(f, b).orphans = f.orphans
<1>1. /\ f.recs \in Seq(Batch) /\ f.synced \in Nat
      /\ f.orphans \in SUBSET Nat /\ f.linked \in BOOLEAN
  BY DEF DiskFile
<1> DEFINE r == Append(f.recs, b)
<1>2. r \in Seq(Batch) /\ Len(r) = Len(f.recs) + 1
  BY <1>1
<1>3. Completed(f, b) = [recs |-> r, torn |-> FALSE, synced |-> f.synced,
                        orphans |-> f.orphans, linked |-> f.linked]
  BY ONLY f \in DiskFile, CompletedIs, Zenon
<1> HIDE DEF r
<1>4. Completed(f, b) \in DiskFile
  BY <1>1, <1>2, <1>3 DEF DiskFile
<1> QED
  BY <1>2, <1>3, <1>4 DEF r

LEMMA SyncedFile ==
    ASSUME NEW f \in DiskFile
    PROVE  /\ Synced(f) \in DiskFile
           /\ Synced(f).recs = f.recs
           /\ Synced(f).torn = f.torn
           /\ Synced(f).synced = Len(f.recs)
           /\ Synced(f).orphans = f.orphans
<1>1. /\ f.recs \in Seq(Batch) /\ f.torn \in BOOLEAN /\ Len(f.recs) \in Nat
      /\ f.orphans \in SUBSET Nat /\ f.linked \in BOOLEAN
  BY DEF DiskFile
<1>2. Synced(f) = [recs |-> f.recs, torn |-> f.torn, synced |-> Len(f.recs),
                  orphans |-> f.orphans, linked |-> f.linked]
  BY ONLY f \in DiskFile, SyncedIs, Zenon
<1>3. Synced(f) \in DiskFile
  BY <1>1, <1>2 DEF DiskFile
<1> QED
  BY <1>2, <1>3

\* Flushing to a typed file leaves a typed file that starts with the old one.
LEMMA DrainedFile ==
    ASSUME NEW f \in DiskFile, NEW q \in Seq(Batch), NEW e \in FlushEnds(f, q)
    PROVE  /\ Drained(f, q, e) \in DiskFile
           /\ Drained(f, q, e).synced = f.synced
           /\ Drained(f, q, e).orphans = f.orphans
           /\ Drained(f, q, e).torn = e.torn
           /\ Len(Drained(f, q, e).recs) = Len(f.recs) + e.k
           /\ \A p \in 1..Len(f.recs) : Drained(f, q, e).recs[p] = f.recs[p]
           /\ e.k \in 0..Len(q)
<1>1. e.k \in 0..Len(q) /\ e.torn \in BOOLEAN
  BY DEF FlushEnds
<1>2. f.recs \in Seq(Batch) /\ f.synced \in Nat
  BY DEF DiskFile
<1>3. SubSeq(q, 1, e.k) \in Seq(Batch) /\ Len(SubSeq(q, 1, e.k)) = e.k
  BY <1>1
<1>4. f.recs \o SubSeq(q, 1, e.k) \in Seq(Batch)
  BY <1>2, <1>3
<1>5. /\ Len(f.recs \o SubSeq(q, 1, e.k)) = Len(f.recs) + e.k
      /\ \A p \in 1..Len(f.recs) : (f.recs \o SubSeq(q, 1, e.k))[p] = f.recs[p]
  BY <1>1, <1>2, <1>3
<1>6. Drained(f, q, e) = [recs |-> f.recs \o SubSeq(q, 1, e.k), torn |-> e.torn,
                          synced |-> f.synced, orphans |-> f.orphans, linked |-> f.linked]
  BY ONLY f \in DiskFile, DrainedIs, Zenon
<1>7. f.orphans \in SUBSET Nat /\ f.linked \in BOOLEAN
  BY DEF DiskFile
<1>8. Drained(f, q, e) \in DiskFile
  BY <1>1, <1>2, <1>4, <1>6, <1>7 DEF DiskFile
<1> QED
  BY <1>1, <1>5, <1>6, <1>8

----------------------------------------------------------------------------
(* The writer *)

\* Who holds what, and how the buffer continues the current file.
WriterInv ==
    /\ ~up => current = None /\ writing = None
    /\ writing # None => current # None
    /\ current # None =>
         /\ current.id \in DOMAIN files
         /\ current.offset = Len(files[current.id].recs) + Len(current.pend)
         /\ current.offset <= FileSize
         /\ \A o \in files[current.id].orphans : o <= current.offset
         /\ files[current.id].torn => current.pend # <<>> \/ current.offset \in files[current.id].orphans
    /\ writing # None => current.offset \notin files[current.id].orphans
    /\ writing # None =>
         IF current.pend = <<>>
         THEN current.offset > 0 /\ files[current.id].recs[current.offset] = writing
         ELSE current.pend[Len(current.pend)] = writing
    /\ \A i \in DOMAIN files :
         /\ files[i].synced <= Len(files[i].recs)
         /\ Len(files[i].recs) <= FileSize

WInv == TypeOK /\ WriterInv

\* Dropping the writer only adds records, and no more than the buffer holds.
LEMMA DropExtends ==
    ASSUME WInv, NEW fs \in AfterDrop
    PROVE  /\ Extends(files, fs)
           /\ \A i \in DOMAIN files : Len(fs[i].recs) <= FileSize
<1>1. CASE current = None
  <2>1. fs = files
    BY <1>1 DEF AfterDrop
  <2> QED
    BY <2>1 DEF Extends, WInv, TypeOK, FilesTyped, WriterInv, DiskFile
<1>2. CASE current # None
  <2>1. /\ current.id \in DOMAIN files
        /\ files[current.id] \in DiskFile
        /\ current.pend \in Seq(Batch)
        /\ current.offset = Len(files[current.id].recs) + Len(current.pend)
        /\ current.offset <= FileSize
    BY <1>2 DEF WInv, TypeOK, FilesTyped, WriterInv, OpenFile
  <2>2. PICK e \in FlushEnds(files[current.id], current.pend) :
          fs = [files EXCEPT ![current.id] =
                  Drained(files[current.id], current.pend, e)]
    BY <1>2 DEF AfterDrop
  <2>3. /\ Drained(files[current.id], current.pend, e) \in DiskFile
        /\ Drained(files[current.id], current.pend, e).synced
             = files[current.id].synced
        /\ Drained(files[current.id], current.pend, e).orphans
             = files[current.id].orphans
        /\ Len(Drained(files[current.id], current.pend, e).recs)
             = Len(files[current.id].recs) + e.k
        /\ \A p \in 1..Len(files[current.id].recs) :
             Drained(files[current.id], current.pend, e).recs[p]
               = files[current.id].recs[p]
        /\ e.k \in 0..Len(current.pend)
    BY <2>1, DrainedFile
  <2>4. /\ fs = [i \in DOMAIN files |-> fs[i]]
        /\ fs[current.id] = Drained(files[current.id], current.pend, e)
        /\ \A i \in DOMAIN files : i # current.id => fs[i] = files[i]
    BY <2>1, <2>2 DEF WInv, TypeOK, FilesTyped
  <2>5. Len(files[current.id].recs) \in Nat /\ Len(current.pend) \in Nat
    BY <2>1 DEF DiskFile
  <2>6. Len(fs[current.id].recs) <= FileSize
    <3> DEFINE old  == Len(files[current.id].recs)
               left == Len(current.pend)
    <3>1. /\ Len(fs[current.id].recs) = old + e.k
          /\ old + left <= FileSize
          /\ e.k \in 0..left
      BY <2>1, <2>3, <2>4
    <3>2. old \in Nat /\ left \in Nat /\ FileSize \in Nat
      BY <2>5, WalAssumption
    <3> HIDE DEF old, left
    <3> QED
      BY <3>1, <3>2
  <2>7. \A i \in DOMAIN files : files[i] \in DiskFile /\ Len(files[i].recs) \in Nat
    BY DEF WInv, TypeOK, FilesTyped, DiskFile
  <2>8. Extends(files, fs)
    BY <2>3, <2>4, <2>7 DEF Extends
  <2>9. \A i \in DOMAIN files : Len(files[i].recs) <= FileSize
    BY DEF WInv, WriterInv
  <2> QED
    BY <2>4, <2>6, <2>8, <2>9
<1> QED
  BY <1>1, <1>2

\* Records that were synced still are when a file has only grown.
LEMMA ExtendsSynced ==
    ASSUME TypeOK, WriterInv, NEW fs, Extends(files, fs)
    PROVE  /\ DOMAIN fs = DOMAIN files
           /\ \A i \in DOMAIN files : fs[i].synced <= Len(fs[i].recs)
<1>1. DOMAIN fs = DOMAIN files
  BY DEF Extends
<1>2. ASSUME NEW i \in DOMAIN files PROVE fs[i].synced <= Len(fs[i].recs)
  <2> DEFINE old == Len(files[i].recs)
             new == Len(fs[i].recs)
  <2>1. old \in Nat /\ files[i].synced \in Nat
    BY DEF TypeOK, FilesTyped, DiskFile
  <2>2. new \in Nat
    BY DEF Extends, DiskFile
  <2>3. fs[i].synced = files[i].synced /\ old <= new
    BY DEF Extends
  <2>4. files[i].synced <= old
    BY DEF WriterInv
  <2> HIDE DEF old, new
  <2>5. fs[i].synced <= new
    BY <2>1, <2>2, <2>3, <2>4
  <2> QED
    BY <2>5 DEF new
<1> QED
  BY <1>1, <1>2

\* What is left of a file after a power loss starts like the file and keeps
\* its synced records.
LEMMA SurvivingFile ==
    ASSUME NEW f \in DiskFile, f.synced <= Len(f.recs), NEW g \in Survivors(f)
    PROVE  /\ g \in DiskFile
           /\ g.synced = f.synced
           /\ g.orphans = f.orphans
           /\ g.synced <= Len(g.recs)
           /\ Len(g.recs) <= Len(f.recs)
           /\ \A p \in 1..Len(g.recs) : g.recs[p] = f.recs[p]
<1>1. PICK s \in [k : f.synced..Len(f.recs), torn : BOOLEAN] :
        g = [f EXCEPT !.recs = SubSeq(@, 1, s.k), !.torn = s.torn, !.linked = TRUE]
  BY DEF Survivors
<1>2. f.recs \in Seq(Batch) /\ f.synced \in Nat /\ Len(f.recs) \in Nat
  BY DEF DiskFile
<1>3. s.k \in Nat /\ f.synced <= s.k /\ s.k <= Len(f.recs) /\ s.torn \in BOOLEAN
  BY <1>2
<1>4. /\ SubSeq(f.recs, 1, s.k) \in Seq(Batch)
      /\ Len(SubSeq(f.recs, 1, s.k)) = s.k
      /\ \A p \in 1..s.k : SubSeq(f.recs, 1, s.k)[p] = f.recs[p]
  BY <1>2, <1>3
<1>5. g = [recs |-> SubSeq(f.recs, 1, s.k), torn |-> s.torn, synced |-> f.synced,
           orphans |-> f.orphans, linked |-> TRUE]
  BY <1>1 DEF DiskFile
<1>6. f.orphans \in SUBSET Nat
  BY DEF DiskFile
<1> QED
  BY <1>2, <1>3, <1>4, <1>5, <1>6 DEF DiskFile

\* What a failed write_u32 or write_all does to the current file and its buffer.
LEMMA RecordFailsIs ==
    ASSUME WInv, RecordFails
    PROVE  /\ current # None /\ current' # None /\ current' \in OpenFile
           /\ current.id \in DOMAIN files
           /\ current'.id = current.id /\ current'.offset = current.offset
           /\ files' = [i \in DOMAIN files |-> files'[i]]
           /\ \A i \in DOMAIN files : i # current.id => files'[i] = files[i]
           /\ files'[current.id] \in DiskFile
           /\ files'[current.id].synced = files[current.id].synced
           /\ \A o \in files'[current.id].orphans :
                o \in files[current.id].orphans \/ o = current.offset
           /\ Len(files[current.id].recs) <= Len(files'[current.id].recs)
           /\ \A p \in 1..Len(files[current.id].recs) :
                files'[current.id].recs[p] = files[current.id].recs[p]
           /\ current.offset = Len(files'[current.id].recs) + Len(current'.pend)
           /\ files'[current.id].torn =>
                current'.pend # <<>> \/ current.offset \in files'[current.id].orphans
<1> USE DEF WInv
<1>1. current # None
  BY DEF RecordFails, NeedsFile
<1>2. PICK headers \in {{}, {current.offset}} :
        LET f == [files[current.id] EXCEPT !.orphans = @ \cup headers] IN
        \E e \in FlushEnds(f, current.pend) :
           /\ files' = [files EXCEPT ![current.id] = Drained(f, current.pend, e)]
           /\ current' = [current EXCEPT !.pend = SubSeq(@, e.k + 1, Len(@))]
  BY DEF RecordFails
<1> DEFINE f == [files[current.id] EXCEPT !.orphans = @ \cup headers]
           q == current.pend
<1>3. PICK e \in FlushEnds(f, q) :
        /\ files' = [files EXCEPT ![current.id] = Drained(f, q, e)]
        /\ current' = [current EXCEPT !.pend = SubSeq(@, e.k + 1, Len(@))]
  BY <1>2
<1>4. /\ current.id \in DOMAIN files
      /\ files[current.id] \in DiskFile
      /\ current \in OpenFile
      /\ q \in Seq(Batch)
      /\ current.offset \in Nat
      /\ current.offset = Len(files[current.id].recs) + Len(q)
  BY <1>1 DEF TypeOK, FilesTyped, WriterInv, OpenFile
<1>5. /\ f \in DiskFile
      /\ f.recs = files[current.id].recs
      /\ f.synced = files[current.id].synced
      /\ f.orphans = files[current.id].orphans \cup headers
  BY <1>4 DEF DiskFile
<1> HIDE DEF f
<1> DEFINE d == Drained(f, q, e)
<1>6. /\ d \in DiskFile
      /\ d.synced = f.synced
      /\ d.orphans = f.orphans
      /\ d.torn = e.torn
      /\ Len(d.recs) = Len(f.recs) + e.k
      /\ \A p \in 1..Len(f.recs) : d.recs[p] = f.recs[p]
      /\ e.k \in 0..Len(q)
  BY <1>4, <1>5, DrainedFile
<1>7. files' = [files EXCEPT ![current.id] = d]
  BY <1>3
<1> HIDE DEF d
<1>8. /\ files' = [i \in DOMAIN files |-> files'[i]]
      /\ files'[current.id] = d
      /\ \A i \in DOMAIN files : i # current.id => files'[i] = files[i]
  BY <1>4, <1>7 DEF TypeOK, FilesTyped
<1> DEFINE r == SubSeq(q, e.k + 1, Len(q))
<1>9. /\ r \in Seq(Batch)
      /\ Len(r) = Len(q) - e.k
  <2>1. Len(q) \in Nat /\ e.k \in Nat /\ e.k <= Len(q)
    BY <1>4, <1>6
  <2>2. CASE e.k = Len(q)
    BY <1>4, <2>1, <2>2
  <2>3. CASE e.k < Len(q)
    BY <1>4, <2>1, <2>3
  <2> QED
    BY <2>1, <2>2, <2>3
<1>10. current' = [id |-> current.id, offset |-> current.offset, pend |-> r]
  BY <1>3, <1>4 DEF OpenFile
<1> HIDE DEF r
<1>11. current' \in OpenFile /\ current' # None
  <2>1. current' \in OpenFile
    BY <1>4, <1>9, <1>10 DEF OpenFile
  <2> QED
    BY <2>1, WalAssumption
<1>12. /\ current.offset = Len(d.recs) + Len(r)
       /\ Len(f.recs) <= Len(d.recs)
  <2> DEFINE m == Len(f.recs)
             n == Len(q)
             u == Len(d.recs)
             v == Len(r)
  <2>1. m \in Nat /\ n \in Nat /\ e.k \in 0..n /\ u = m + e.k /\ v = n - e.k
        /\ current.offset = m + n
    BY <1>4, <1>5, <1>6, <1>9 DEF DiskFile
  <2> HIDE DEF m, n, u, v
  <2>2. current.offset = u + v /\ m <= u
    BY <2>1
  <2> QED
    BY <2>2 DEF m, u, v
<1>13. d.torn => r # <<>> \/ current.offset \in d.orphans
  <2> SUFFICES ASSUME e.torn PROVE r # <<>> \/ current.offset \in d.orphans
    BY <1>6
  <2>1. e.k < Len(q) \/ Len(f.recs) + Len(q) \in f.orphans
    BY DEF FlushEnds
  <2>2. CASE e.k < Len(q)
    <3>1. Len(r) # 0
      BY <1>4, <1>6, <1>9, <2>2
    <3>2. Len(<<>>) = 0
      OBVIOUS
    <3>3. r # <<>>
      BY <3>1, <3>2, Zenon
    <3> QED
      BY <3>3
  <2>3. CASE Len(f.recs) + Len(q) \in f.orphans
    BY <1>4, <1>5, <1>6, <2>3
  <2> QED
    BY <2>1, <2>2, <2>3
<1>14. /\ current'.id = current.id /\ current'.offset = current.offset
       /\ current'.pend = r
  BY <1>10
<1>15. \A o \in d.orphans : o \in files[current.id].orphans \/ o = current.offset
  BY <1>5, <1>6
<1> QED
  BY <1>1, <1>4, <1>5, <1>6, <1>8, <1>11, <1>12, <1>13, <1>14, <1>15

\* The disk and the writer after a failed write_all in a new file.
LEMMA FirstRecordFailsIs ==
    ASSUME WInv, FirstRecordFails
    PROVE  \E fs \in AfterDrop, torn \in BOOLEAN :
             /\ DOMAIN files' = DOMAIN files \cup {fileId}
             /\ files' = [i \in DOMAIN files' |-> files'[i]]
             /\ files'[fileId] = [recs |-> <<>>, torn |-> torn, synced |-> 0,
                                   orphans |-> {0}, linked |-> FALSE]
             /\ \A i \in DOMAIN files : files'[i] = fs[i]
<1>1. fileId \notin DOMAIN files
  BY DEF FirstRecordFails
<1>2. PICK fs \in AfterDrop, torn \in BOOLEAN :
        files' = [WithNewFile(fs, fileId) EXCEPT ![fileId].orphans = {0},
                                                 ![fileId].torn = torn]
  BY DEF FirstRecordFails
<1>3. DOMAIN fs = DOMAIN files
  BY DropExtends DEF Extends
<1> DEFINE g == WithNewFile(fs, fileId)
<1>4. /\ g = [i \in DOMAIN files \cup {fileId} |-> IF i = fileId THEN EmptyFile ELSE fs[i]]
      /\ files' = [g EXCEPT ![fileId].orphans = {0}, ![fileId].torn = torn]
  BY <1>2, <1>3 DEF WithNewFile
<1>5. g[fileId] = EmptyFile /\ \A i \in DOMAIN files : g[i] = fs[i]
  BY <1>1, <1>4
<1>6. DOMAIN g = DOMAIN files \cup {fileId}
  BY <1>4
<1> HIDE DEF g
<1>7. /\ DOMAIN files' = DOMAIN files \cup {fileId}
      /\ files' = [i \in DOMAIN files' |-> files'[i]]
      /\ \A i \in DOMAIN files : files'[i] = fs[i]
  BY <1>1, <1>4, <1>5, <1>6
<1>8. files'[fileId] = [[EmptyFile EXCEPT !.orphans = {0}] EXCEPT !.torn = torn]
  BY <1>4, <1>5, <1>6
<1>9. files'[fileId] = [recs |-> <<>>, torn |-> torn, synced |-> 0,
                        orphans |-> {0}, linked |-> FALSE]
  BY <1>8 DEF EmptyFile
<1> QED
  BY <1>7, <1>9

THEOREM WriterInitially == Init => WInv
<1> SUFFICES ASSUME Init PROVE WInv
  OBVIOUS
<1>1. DOMAIN files = {} /\ files = [i \in DOMAIN files |-> files[i]]
  BY DEF Init
<1>2. TypeOK
  BY <1>1 DEF Init, TypeOK, FilesTyped
<1>3. WriterInv
  BY <1>1 DEF Init, WriterInv
<1> QED
  BY <1>2, <1>3 DEF WInv

LEMMA WriterStep == WInv /\ [Next]_walVars => WInv'
<1> SUFFICES ASSUME TypeOK, WriterInv, [Next]_walVars PROVE TypeOK' /\ WriterInv'
  BY DEF WInv
<1>1. CASE Open
  <2>1. TypeOK'
    <3>1. FilesTyped'
      BY <1>1 DEF Open, TypeOK, FilesTyped
    <3> QED
      BY <1>1, <3>1 DEF Open, TypeOK
  <2>2. WriterInv'
    BY <1>1 DEF Open, WriterInv
  <2> QED
    BY <2>1, <2>2
<1>2. CASE Close
  <2>1. /\ current' = None
        /\ UNCHANGED <<fileId, up, writing, acked, acks, holed>>
        /\ Idle
    BY <1>2 DEF Close
  <2>2. faults' \in Nat
    <3>1. faults' = faults \/ faults' = faults + 1
      <4>1. CASE current = None
        BY <1>2, <4>1 DEF Close
      <4>2. CASE current # None
        <5>1. PICK fs \in AfterDrop : UNCHANGED faults \/ Faulty
          BY <1>2, <4>2 DEF Close
        <5> QED
          BY <5>1 DEF Faulty
      <4> QED
        BY <4>1, <4>2
    <3> QED
      BY <3>1 DEF TypeOK
  <2>3. CASE current = None
    <3>1. files' = files
      BY <1>2, <2>3 DEF Close
    <3>2. TypeOK'
      BY <2>1, <2>2, <3>1 DEF TypeOK, FilesTyped
    <3>3. WriterInv'
      BY <2>1, <3>1 DEF WriterInv, Idle
    <3> QED
      BY <3>2, <3>3
  <2>4. CASE current # None
    <3>1. PICK fs \in AfterDrop :
            \/ files' = [fs EXCEPT ![current.id] = Synced(fs[current.id])]
            \/ files' = fs
      BY <1>2, <2>4 DEF Close
    <3>2. /\ Extends(files, fs)
          /\ \A i \in DOMAIN files : Len(fs[i].recs) <= FileSize
      BY DropExtends DEF WInv
    <3>3. \A i \in DOMAIN files : fs[i].synced <= Len(fs[i].recs)
      BY <3>2, ExtendsSynced
    <3>4. /\ files' = [i \in DOMAIN files |-> files'[i]]
          /\ \A i \in DOMAIN files :
               /\ files'[i].recs = fs[i].recs
               /\ files'[i] \in DiskFile
               /\ files'[i].synced <= Len(files'[i].recs)
      <4>1. CASE files' = fs
        BY <3>2, <3>3, <4>1 DEF Extends
      <4>2. CASE files' = [fs EXCEPT ![current.id] = Synced(fs[current.id])]
        <5>1. /\ DOMAIN fs = DOMAIN files
              /\ \A i \in DOMAIN fs : fs[i] \in DiskFile /\ Len(fs[i].recs) \in Nat
          BY <3>2 DEF Extends, DiskFile
        <5> DEFINE g == Synced(fs[current.id])
        <5>2. current.id \in DOMAIN fs
          BY <2>4, <5>1 DEF WriterInv
        <5>3. g \in DiskFile /\ g.recs = fs[current.id].recs /\ g.synced = Len(g.recs)
          BY <5>1, <5>2, SyncedFile
        <5>4. files' = [fs EXCEPT ![current.id] = g]
          BY <4>2
        <5> HIDE DEF g
        <5>5. /\ files'[current.id] = g
              /\ \A i \in DOMAIN fs : i # current.id => files'[i] = fs[i]
              /\ files' = [i \in DOMAIN fs |-> files'[i]]
          BY <5>1, <5>2, <5>4, <3>2 DEF Extends
        <5>6. g.synced <= Len(g.recs)
          BY <5>3, <5>1, <5>2
        <5> QED
          BY <3>3, <5>1, <5>2, <5>3, <5>5, <5>6
      <4> QED
        BY <3>1, <4>1, <4>2
    <3>5. TypeOK'
      <4>1. FilesTyped'
        BY <3>4 DEF FilesTyped, TypeOK
      <4> QED
        BY <2>1, <2>2, <4>1 DEF TypeOK
    <3>6. WriterInv'
      BY <2>1, <3>2, <3>4 DEF WriterInv, Idle
    <3> QED
      BY <3>5, <3>6
  <2> QED
    BY <2>3, <2>4
<1>3. CASE Shutdown
  <2>1. files' \in AfterDrop
    BY <1>3 DEF Shutdown
  <2>2. /\ Extends(files, files')
        /\ \A i \in DOMAIN files : Len(files'[i].recs) <= FileSize
    BY <2>1, DropExtends DEF WInv
  <2>3. TypeOK'
    <3>1. FilesTyped'
      BY <2>2 DEF Extends, TypeOK, FilesTyped
    <3> QED
      BY <1>3, <3>1 DEF Shutdown, TypeOK
  <2>4. WriterInv'
    BY <1>3, <2>2, ExtendsSynced DEF Shutdown, Idle, WriterInv
  <2> QED
    BY <2>3, <2>4
<1>4. CASE Crash
  <2>1. TypeOK'
    <3>1. FilesTyped'
      BY <1>4 DEF Crash, TypeOK, FilesTyped
    <3>2. faults' \in Nat
      BY <1>4 DEF Crash, Faulty, TypeOK
    <3> QED
      BY <1>4, <3>1, <3>2 DEF Crash, TypeOK
  <2>2. WriterInv'
    BY <1>4 DEF Crash, WriterInv
  <2> QED
    BY <2>1, <2>2
<1>5. CASE PowerLoss
  <2>1. PICK gone \in SUBSET {i \in DOMAIN files : ~files[i].linked} :
          /\ files' = [i \in DOMAIN files \ gone |-> files'[i]]
          /\ \A i \in DOMAIN files \ gone : files'[i] \in Survivors(files[i])
          /\ acked' = {e \in acked : e.id \notin gone}
          /\ holed' = (holed \/ gone # {})
    BY <1>5 DEF PowerLoss
  <2>2. \A i \in DOMAIN files' :
           /\ i \in DOMAIN files
           /\ files'[i] \in DiskFile
           /\ files'[i].synced <= Len(files'[i].recs)
           /\ Len(files'[i].recs) <= Len(files[i].recs)
    BY <2>1, SurvivingFile DEF TypeOK, FilesTyped, WriterInv
  <2>3. TypeOK'
    <3>1. FilesTyped'
      BY <2>1, <2>2 DEF TypeOK, FilesTyped
    <3>2. faults' \in Nat
      BY <1>5 DEF PowerLoss, Faulty, TypeOK
    <3>3. holed' \in BOOLEAN /\ \A e \in acked' : e \in Entry
      BY <2>1 DEF TypeOK
    <3> QED
      BY <1>5, <3>1, <3>2, <3>3 DEF PowerLoss, TypeOK
  <2>4. \A i \in DOMAIN files' : Len(files'[i].recs) <= FileSize
    BY <2>2, WalAssumption DEF TypeOK, FilesTyped, WriterInv, DiskFile
  <2>5. WriterInv'
    BY <1>5, <2>2, <2>4 DEF PowerLoss, WriterInv
  <2> QED
    BY <2>3, <2>5
<1>6. CASE CreateRefused
  <2>1. TypeOK'
    <3>1. FilesTyped'
      BY <1>6 DEF CreateRefused, TypeOK, FilesTyped
    <3> QED
      BY <1>6, <3>1 DEF CreateRefused, TypeOK
  <2>2. WriterInv'
    BY <1>6 DEF CreateRefused, WriterInv
  <2> QED
    BY <2>1, <2>2
<1>7. CASE CreateFails
  <2>1. TypeOK'
    <3>1. FilesTyped'
      BY <1>7 DEF CreateFails, TypeOK, FilesTyped
    <3> QED
      BY <1>7, <3>1 DEF CreateFails, Faulty, TypeOK
  <2>2. WriterInv'
    BY <1>7 DEF CreateFails, WriterInv
  <2> QED
    BY <2>1, <2>2
<1>8. ASSUME NEW b \in Batch, WriteToNewFile(b) PROVE TypeOK' /\ WriterInv'
  <2>1. PICK fs \in AfterDrop : files' = WithNewFile(fs, fileId)
    BY <1>8 DEF WriteToNewFile
  <2>2. /\ Extends(files, fs)
        /\ \A i \in DOMAIN files : Len(fs[i].recs) <= FileSize
    BY DropExtends DEF WInv
  <2>3. \A i \in DOMAIN files : fs[i].synced <= Len(fs[i].recs)
    BY <2>2, ExtendsSynced
  <2>4. /\ current' = [id |-> fileId, offset |-> 1, pend |-> <<b>>]
        /\ writing' = b
        /\ fileId' = fileId + 1
        /\ fileId \notin DOMAIN files
        /\ up
        /\ UNCHANGED <<up, acked, acks, holed, faults>>
    BY <1>8 DEF WriteToNewFile, Idle
  <2>5. /\ DOMAIN files' = DOMAIN files \cup {fileId}
        /\ files' = [i \in DOMAIN files' |-> files'[i]]
        /\ files'[fileId] = EmptyFile
        /\ \A i \in DOMAIN files : files'[i] = fs[i]
    BY <2>1, <2>2, <2>4 DEF WithNewFile, Extends
  <2>6. EmptyFile \in DiskFile /\ Len(EmptyFile.recs) = 0 /\ EmptyFile.synced = 0
        /\ EmptyFile.orphans = {}
    BY DEF EmptyFile, DiskFile
  <2>7. current' \in OpenFile /\ current' # None
    <3>1. current' \in OpenFile
      BY <2>4 DEF OpenFile, TypeOK
    <3> QED
      BY <3>1, WalAssumption
  <2>8. TypeOK'
    <3>1. FilesTyped'
      BY <2>2, <2>5, <2>6 DEF FilesTyped, TypeOK, Extends
    <3>3. fileId' \in Nat
      BY <2>4 DEF TypeOK
    <3> QED
      BY <2>4, <2>7, <3>1, <3>3 DEF TypeOK
  <2>9. WriterInv'
    <3>1. current'.pend # <<>>
      BY <2>4
    <3>2. /\ current'.id \in DOMAIN files'
          /\ current'.offset = Len(files'[current'.id].recs) + Len(current'.pend)
          /\ current'.offset <= FileSize
          /\ files'[current'.id].orphans = {}
          /\ current'.pend[Len(current'.pend)] = writing'
      BY <2>4, <2>5, <2>6, WalAssumption
    <3>3. \A i \in DOMAIN files' :
            /\ files'[i].synced <= Len(files'[i].recs)
            /\ Len(files'[i].recs) <= FileSize
      BY <2>2, <2>3, <2>5, <2>6, WalAssumption
    <3> QED
      BY <2>4, <2>7, <3>1, <3>2, <3>3 DEF WriterInv
  <2> QED
    BY <2>8, <2>9
<1>9. ASSUME NEW b \in Batch, WriteToCurrentFile(b) PROVE TypeOK' /\ WriterInv'
  <2>1. /\ current # None
        /\ current.offset < FileSize
        /\ writing' = b
        /\ up /\ up'
        /\ UNCHANGED <<files, fileId, up, acked, acks, holed, faults>>
    BY <1>9, WalAssumption DEF WriteToCurrentFile, NeedsFile, Idle, TypeOK, OpenFile
  <2>2. /\ current \in OpenFile
        /\ current.offset \in Nat
        /\ current.pend \in Seq(Batch)
    BY <2>1 DEF TypeOK, OpenFile
  <2>3. current' = [id |-> current.id, offset |-> current.offset + 1,
                    pend |-> Append(current.pend, b)]
    BY <1>9, <2>2 DEF WriteToCurrentFile, OpenFile
  <2>4. /\ Append(current.pend, b) \in Seq(Batch)
        /\ Len(Append(current.pend, b)) = Len(current.pend) + 1
        /\ Append(current.pend, b)[Len(Append(current.pend, b))] = b
        /\ Append(current.pend, b) # <<>>
    BY <2>2
  <2>5. current' \in OpenFile /\ current' # None
    <3>1. current' \in OpenFile
      BY <2>2, <2>3, <2>4 DEF OpenFile
    <3> QED
      BY <3>1, WalAssumption
  <2>6. TypeOK'
    BY <2>1, <2>5 DEF TypeOK, FilesTyped
  <2>7. WriterInv'
    <3>1. current.offset + 1 <= FileSize
      BY <2>1, <2>2, WalAssumption
    <3>2. current.offset + 1 = Len(files[current.id].recs) + Len(Append(current.pend, b))
      <4> DEFINE m == Len(files[current.id].recs)
                 n == Len(current.pend)
      <4>1. m \in Nat /\ n \in Nat
        BY <2>1, <2>2 DEF WriterInv, TypeOK, FilesTyped, DiskFile
      <4>2. current.offset = m + n
        BY <2>1 DEF WriterInv
      <4> HIDE DEF m, n
      <4>3. current.offset + 1 = m + (n + 1)
        BY <4>1, <4>2
      <4> QED
        BY <4>3, <2>4 DEF m, n
    <3>3. \A o \in files[current.id].orphans : o <= current.offset + 1 /\ o # current.offset + 1
      <4>1. files[current.id].orphans \subseteq Nat
        BY <2>1 DEF WriterInv, TypeOK, FilesTyped, DiskFile
      <4>2. \A o \in files[current.id].orphans : o <= current.offset
        BY <2>1 DEF WriterInv
      <4> QED
        BY <2>2, <4>1, <4>2
    <3> QED
      BY <2>1, <2>3, <2>4, <2>5, <3>1, <3>2, <3>3 DEF WriterInv
  <2> QED
    BY <2>6, <2>7
<1>10. CASE FlushStep
  <2>1. /\ writing # None /\ current # None
        /\ current.pend # <<>>
        /\ UNCHANGED <<fileId, up, writing, acked, acks, holed, faults>>
    BY <1>10 DEF FlushStep, WriterInv
  <2>2. /\ current \in OpenFile
        /\ current.id \in DOMAIN files
        /\ files[current.id] \in DiskFile
        /\ current.offset \in Nat
        /\ current.pend \in Seq(Batch)
        /\ files[current.id].recs \in Seq(Batch)
    BY <2>1 DEF TypeOK, FilesTyped, OpenFile, DiskFile, WriterInv
  <2>3. CASE files[current.id].torn
    <3> DEFINE f == Completed(files[current.id], Head(current.pend))
    <3>1. /\ files' = [files EXCEPT ![current.id] = f]
          /\ current' = [current EXCEPT !.pend = Tail(@)]
      BY <1>10, <2>3 DEF FlushStep
    <3>2. /\ Head(current.pend) \in Batch
          /\ Tail(current.pend) \in Seq(Batch)
          /\ Len(Tail(current.pend)) = Len(current.pend) - 1
      BY <2>1, <2>2
    <3>3. /\ f \in DiskFile
          /\ f.recs = Append(files[current.id].recs, Head(current.pend))
          /\ Len(f.recs) = Len(files[current.id].recs) + 1
          /\ ~f.torn
          /\ f.synced = files[current.id].synced
          /\ f.orphans = files[current.id].orphans
      BY <2>2, <3>2, CompletedFile
    <3> HIDE DEF f
    <3>4. /\ files' = [i \in DOMAIN files |-> files'[i]]
          /\ files'[current.id] = f
          /\ \A i \in DOMAIN files : i # current.id => files'[i] = files[i]
      BY <2>2, <3>1 DEF TypeOK, FilesTyped
    <3>5. /\ current' = [id |-> current.id, offset |-> current.offset,
                         pend |-> Tail(current.pend)]
          /\ current' \in OpenFile
      BY <2>2, <3>1, <3>2 DEF OpenFile
    <3>6. TypeOK'
      <4>1. FilesTyped'
        BY <3>3, <3>4 DEF FilesTyped, TypeOK
      <4> QED
        BY <2>1, <3>5, <4>1 DEF TypeOK
    <3> DEFINE m == Len(files[current.id].recs)
               n == Len(current.pend)
    <3>7. /\ m \in Nat /\ n \in Nat /\ FileSize \in Nat
          /\ current.offset = m + n
          /\ current.offset <= FileSize
          /\ n > 0
          /\ Len(f.recs) = m + 1
          /\ Len(Tail(current.pend)) = n - 1
          /\ f.synced \in Nat /\ f.synced <= m
      <4>1. m \in Nat /\ n \in Nat /\ FileSize \in Nat
        BY <2>2, WalAssumption
      <4>2. current.offset = m + n /\ current.offset <= FileSize
        BY <2>1 DEF WriterInv
      <4>3. n > 0
        BY <2>1, <2>2
      <4>4. Len(f.recs) = m + 1 /\ Len(Tail(current.pend)) = n - 1
        BY <3>2, <3>3
      <4>5. f.synced \in Nat /\ f.synced <= m
        BY <2>2, <3>3 DEF WriterInv, DiskFile
      <4> QED
        BY <4>1, <4>2, <4>3, <4>4, <4>5
    <3>8. /\ current.offset = Len(f.recs) + Len(Tail(current.pend))
          /\ Len(f.recs) <= FileSize
          /\ f.synced <= Len(f.recs)
      <4> HIDE DEF m, n
      <4> DEFINE r == Len(f.recs)
                 t == Len(Tail(current.pend))
      <4>1. r = m + 1 /\ t = n - 1
        BY <3>7
      <4> HIDE DEF r, t
      <4>2. current.offset = r + t /\ r <= FileSize /\ f.synced <= r
        BY <3>7, <4>1
      <4> QED
        BY <4>2 DEF r, t
    <3>9. IF Tail(current.pend) = <<>>
          THEN current.offset > 0 /\ f.recs[current.offset] = writing
          ELSE Tail(current.pend)[Len(Tail(current.pend))] = writing
      <4>1. current.pend[n] = writing
        BY <2>1 DEF WriterInv
      <4>2. CASE Tail(current.pend) = <<>>
        <5>1. n = 1
          <6>1. Len(Tail(current.pend)) = 0
            <7>1. Len(<<>>) = 0
              OBVIOUS
            <7> QED
              BY <4>2, <7>1, Zenon
          <6> DEFINE t == Len(Tail(current.pend))
          <6>2. n \in Nat /\ t = n - 1 /\ t = 0
            BY <3>7, <6>1
          <6> HIDE DEF m, n, t
          <6> QED
            BY <6>2
        <5>2. Head(current.pend) = writing
          <6>1. Head(current.pend) = current.pend[1]
            BY <2>1, <2>2
          <6> QED
            BY <4>1, <5>1, <6>1
        <5>3. current.offset = m + 1
          <6> HIDE DEF m, n
          <6> QED
            BY <3>7, <5>1
        <5>4. f.recs[m + 1] = writing
          BY <2>2, <3>2, <3>3, <5>2
        <5>5. current.offset > 0
          <6> HIDE DEF m, n
          <6> QED
            BY <3>7, <5>3
        <5> QED
          BY <4>2, <5>3, <5>4, <5>5
      <4>3. CASE Tail(current.pend) # <<>>
        BY <2>1, <2>2, <3>2, <4>1, <4>3
      <4> QED
        BY <4>2, <4>3
    <3>10. WriterInv'
      <4>1. /\ current' # None /\ up'
            /\ current'.id = current.id
            /\ current'.offset = current.offset
            /\ current'.pend = Tail(current.pend)
            /\ writing' = writing
        BY <2>1, <3>5, WalAssumption DEF WriterInv
      <4>2. DOMAIN files' = DOMAIN files
        BY <3>4
      <4>3. /\ current.offset <= FileSize
            /\ \A o \in files[current.id].orphans : o <= current.offset
            /\ current.offset \notin files[current.id].orphans
            /\ \A i \in DOMAIN files :
                 /\ files[i].synced <= Len(files[i].recs)
                 /\ Len(files[i].recs) <= FileSize
        BY <2>1 DEF WriterInv
      <4>4. \A i \in DOMAIN files :
              /\ files'[i].synced <= Len(files'[i].recs)
              /\ Len(files'[i].recs) <= FileSize
        BY <3>4, <3>8, <4>3
      <4> QED
        BY <2>2, <3>3, <3>4, <3>8, <3>9, <4>1, <4>2, <4>3, <4>4 DEF WriterInv
    <3> QED
      BY <3>6, <3>10
  <2>4. CASE ~files[current.id].torn
    <3>1. /\ files' = [files EXCEPT ![current.id].torn = TRUE]
          /\ current' = current
      BY <1>10, <2>4 DEF FlushStep
    <3>2. /\ files' = [i \in DOMAIN files |-> files'[i]]
          /\ \A i \in DOMAIN files :
               /\ files'[i] \in DiskFile
               /\ files'[i].recs = files[i].recs
               /\ files'[i].orphans = files[i].orphans
               /\ files'[i].synced = files[i].synced
      BY <2>2, <3>1 DEF TypeOK, FilesTyped, DiskFile
    <3>3. TypeOK'
      <4>1. FilesTyped'
        BY <3>2 DEF FilesTyped, TypeOK
      <4> QED
        BY <2>1, <3>1, <4>1 DEF TypeOK
    <3>4. WriterInv'
      BY <2>1, <3>1, <3>2 DEF WriterInv
    <3> QED
      BY <3>3, <3>4
  <2> QED
    BY <2>3, <2>4
<1>11. CASE FlushFails
  <2>1. TypeOK'
    <3>1. FilesTyped'
      BY <1>11 DEF FlushFails, TypeOK, FilesTyped
    <3> QED
      BY <1>11, <3>1 DEF FlushFails, Faulty, TypeOK
  <2>2. WriterInv'
    BY <1>11 DEF FlushFails, WriterInv
  <2> QED
    BY <2>1, <2>2
<1>12. CASE SyncFails
  <2>1. TypeOK'
    <3>1. FilesTyped'
      BY <1>12 DEF SyncFails, TypeOK, FilesTyped
    <3> QED
      BY <1>12, <3>1 DEF SyncFails, Faulty, TypeOK
  <2>2. WriterInv'
    BY <1>12 DEF SyncFails, WriterInv
  <2> QED
    BY <2>1, <2>2
<1>13. CASE WriteReturns
  <2>1. /\ writing # None /\ current # None
        /\ current.pend = <<>>
        /\ writing' = None
        /\ acks' = acks + 1
        /\ acked' = acked \cup {[no |-> acks + 1, id |-> current.id,
                                 pos |-> current.offset, batch |-> writing,
                                 sound |-> Sound(files[current.id], current.offset)]}
        /\ UNCHANGED <<current, fileId, up, holed, faults>>
    BY <1>13 DEF WriteReturns, WriterInv
  <2>2. /\ current \in OpenFile
        /\ current.id \in DOMAIN files
        /\ writing \in Batch
        /\ acks + 1 \in Nat
    BY <2>1 DEF TypeOK, WriterInv
  <2> DEFINE f == Synced(files[current.id])
  <2>3. files' = files \/ files' = [files EXCEPT ![current.id] = f]
    BY <1>13 DEF WriteReturns
  <2>10. files[current.id] \in DiskFile /\ Len(files[current.id].recs) \in Nat
    BY <2>2 DEF TypeOK, FilesTyped, DiskFile
  <2>4. f \in DiskFile
    BY <2>10, SyncedFile
  <2>6. /\ f.recs = files[current.id].recs
        /\ f.torn = files[current.id].torn
        /\ f.synced = Len(files[current.id].recs)
        /\ f.orphans = files[current.id].orphans
    BY <2>10, SyncedFile
  <2>5. f.synced <= Len(f.recs)
    BY <2>6, <2>10
  <2> HIDE DEF f
  <2>7. /\ files' = [i \in DOMAIN files |-> files'[i]]
        /\ \A i \in DOMAIN files :
             /\ files'[i] \in DiskFile
             /\ files'[i].recs = files[i].recs
             /\ files'[i].torn = files[i].torn
             /\ files'[i].orphans = files[i].orphans
             /\ files'[i].synced <= Len(files'[i].recs)
    BY <2>2, <2>3, <2>4, <2>5, <2>6 DEF TypeOK, FilesTyped, WriterInv
  <2>8. TypeOK'
    <3>1. FilesTyped'
      BY <2>7 DEF FilesTyped, TypeOK
    <3>2. [no |-> acks + 1, id |-> current.id, pos |-> current.offset,
           batch |-> writing, sound |-> Sound(files[current.id], current.offset)] \in Entry
      <4>1. Sound(files[current.id], current.offset) \in BOOLEAN
        BY DEF Sound
      <4> QED
        BY <2>2, <4>1 DEF Entry, OpenFile
    <3> QED
      BY <2>1, <2>2, <3>1, <3>2 DEF TypeOK
  <2>9. WriterInv'
    BY <2>1, <2>7 DEF WriterInv
  <2> QED
    BY <2>8, <2>9
<1>14. ASSUME NEW before \in DOMAIN files, Purge(before) PROVE TypeOK' /\ WriterInv'
  <2>1. PICK gone \in SUBSET {i \in DOMAIN files : i < before} :
          /\ files' = [i \in DOMAIN files \ gone |-> files[i]]
          /\ acked' = {e \in acked : e.id \notin gone}
          /\ UNCHANGED faults \/ Faulty
    BY <1>14 DEF Purge
  <2>2. /\ UNCHANGED <<current, fileId, up, writing, acks>>
        /\ holed' = TRUE
        /\ current # None => before <= current.id
    BY <1>14 DEF Purge
  <2>3. faults' \in Nat
    BY <2>1 DEF Faulty, TypeOK
  <2>4. TypeOK'
    <3>1. FilesTyped'
      BY <2>1 DEF FilesTyped, TypeOK
    <3> QED
      BY <2>1, <2>2, <2>3, <3>1 DEF TypeOK
  <2>5. current # None => current.id \in DOMAIN files'
    <3>1. current # None => current.id \in Nat /\ before \in Nat
      BY DEF TypeOK, FilesTyped, OpenFile
    <3> QED
      BY <2>1, <2>2, <3>1 DEF WriterInv
  <2>6. WriterInv'
    BY <2>1, <2>2, <2>5 DEF WriterInv
  <2> QED
    BY <2>4, <2>6
<1>16. CASE RecordFails
  <2>1. /\ writing = None /\ up
        /\ UNCHANGED <<fileId, up, writing, acked, acks, holed>>
        /\ faults' = faults + 1
    BY <1>16 DEF RecordFails, Idle, Faulty
  <2>2. /\ current' # None /\ current' \in OpenFile
        /\ current.id \in DOMAIN files
        /\ current'.id = current.id /\ current'.offset = current.offset
        /\ files' = [i \in DOMAIN files |-> files'[i]]
        /\ \A i \in DOMAIN files : i # current.id => files'[i] = files[i]
        /\ files'[current.id] \in DiskFile
        /\ files'[current.id].synced = files[current.id].synced
        /\ \A o \in files'[current.id].orphans :
             o \in files[current.id].orphans \/ o = current.offset
        /\ Len(files[current.id].recs) <= Len(files'[current.id].recs)
        /\ current.offset = Len(files'[current.id].recs) + Len(current'.pend)
        /\ files'[current.id].torn =>
             current'.pend # <<>> \/ current.offset \in files'[current.id].orphans
    BY <1>16, RecordFailsIs DEF WInv
  <2>3. TypeOK'
    <3>1. FilesTyped'
      BY <2>2 DEF FilesTyped, TypeOK
    <3> QED
      BY <2>1, <2>2, <3>1 DEF TypeOK
  <2>4. /\ current # None /\ current.offset <= FileSize
        /\ current.offset \in Nat
        /\ \A o \in files[current.id].orphans : o <= current.offset
    BY <1>16, RecordFailsIs DEF WInv, WriterInv, TypeOK, OpenFile
  <2> DEFINE m == Len(files[current.id].recs)
             u == Len(files'[current.id].recs)
             v == Len(current'.pend)
             y == files[current.id].synced
  <2>5. /\ m \in Nat /\ u \in Nat /\ v \in Nat /\ y \in Nat /\ FileSize \in Nat
        /\ y <= m /\ m <= u /\ current.offset = u + v
    BY <2>2, WalAssumption DEF TypeOK, FilesTyped, OpenFile, DiskFile, WriterInv
  <2>6. u <= FileSize /\ y <= u
    <3> HIDE DEF m, u, v, y
    <3> QED
      BY <2>4, <2>5
  <2>7. \A i \in DOMAIN files' :
          /\ files'[i].synced <= Len(files'[i].recs)
          /\ Len(files'[i].recs) <= FileSize
    BY <2>2, <2>6 DEF WriterInv
  <2>8. \A o \in files'[current'.id].orphans : o <= current'.offset
    <3>1. \A o \in files'[current.id].orphans : o <= current.offset
      <4>1. current.offset <= current.offset
        BY <2>4
      <4> QED
        BY <2>2, <2>4, <4>1
    <3> QED
      BY <2>2, <3>1
  <2>9. WriterInv'
    BY <2>1, <2>2, <2>4, <2>7, <2>8 DEF WriterInv
  <2> QED
    BY <2>3, <2>9
<1>17. CASE FirstRecordFails
  <2>1. /\ writing = None /\ up
        /\ UNCHANGED <<up, writing, acked, acks, holed>>
        /\ faults' = faults + 1
        /\ fileId' = fileId + 1
        /\ current' = [id |-> fileId, offset |-> 0, pend |-> <<>>]
    BY <1>17 DEF FirstRecordFails, Idle, Faulty
  <2>2. PICK fs \in AfterDrop, torn \in BOOLEAN :
          /\ DOMAIN files' = DOMAIN files \cup {fileId}
          /\ files' = [i \in DOMAIN files' |-> files'[i]]
          /\ files'[fileId] = [recs |-> <<>>, torn |-> torn, synced |-> 0,
                                orphans |-> {0}, linked |-> FALSE]
          /\ \A i \in DOMAIN files : files'[i] = fs[i]
    BY <1>17, FirstRecordFailsIs DEF WInv
  <2>3. /\ Extends(files, fs)
        /\ \A i \in DOMAIN files : Len(fs[i].recs) <= FileSize
    BY DropExtends DEF WInv
  <2>4. \A i \in DOMAIN files : fs[i].synced <= Len(fs[i].recs)
    BY <2>3, ExtendsSynced
  <2>5. /\ files'[fileId] \in DiskFile
        /\ files'[fileId].recs = <<>> /\ Len(files'[fileId].recs) = 0
        /\ files'[fileId].synced = 0 /\ files'[fileId].orphans = {0}
    BY <2>2 DEF DiskFile
  <2>6. current' \in OpenFile /\ current' # None
    <3>1. current' \in OpenFile
      BY <2>1 DEF OpenFile, TypeOK
    <3> QED
      BY <3>1, WalAssumption
  <2>7. TypeOK'
    <3>1. FilesTyped'
      BY <2>2, <2>3, <2>5 DEF FilesTyped, TypeOK, Extends
    <3>2. fileId' \in Nat /\ faults' \in Nat
      BY <2>1 DEF TypeOK
    <3> QED
      BY <2>1, <2>6, <3>1, <3>2 DEF TypeOK
  <2>8. WriterInv'
    <3>1. /\ current'.id = fileId /\ current'.offset = 0
          /\ current'.pend = <<>> /\ Len(current'.pend) = 0
      BY <2>1
    <3>2. /\ current'.id \in DOMAIN files'
          /\ current'.offset = Len(files'[current'.id].recs) + Len(current'.pend)
          /\ current'.offset <= FileSize
          /\ current'.offset \in files'[current'.id].orphans
          /\ \A o \in files'[current'.id].orphans : o <= current'.offset
      BY <2>2, <2>5, <3>1, WalAssumption
    <3>3. \A i \in DOMAIN files' :
            /\ files'[i].synced <= Len(files'[i].recs)
            /\ Len(files'[i].recs) <= FileSize
      BY <2>2, <2>3, <2>4, <2>5, WalAssumption
    <3> QED
      BY <2>1, <2>6, <3>2, <3>3 DEF WriterInv
  <2> QED
    BY <2>7, <2>8
<1>15. CASE UNCHANGED walVars
  <2>1. TypeOK'
    <3>1. FilesTyped'
      BY <1>15 DEF walVars, TypeOK, FilesTyped
    <3> QED
      BY <1>15, <3>1 DEF walVars, TypeOK
  <2>2. WriterInv'
    BY <1>15 DEF walVars, WriterInv
  <2> QED
    BY <2>1, <2>2
<1> QED
  BY <1>1, <1>2, <1>3, <1>4, <1>5, <1>6, <1>7, <1>8, <1>9, <1>10, <1>11, <1>12,
     <1>13, <1>14, <1>15, <1>16, <1>17 DEF Next, Write

\* The variables of the log stay in their types.
THEOREM WalTypeCorrect == Spec => []TypeOK
<1>1. WInv => TypeOK
  BY DEF WInv
<1> QED
  BY <1>1, WriterInitially, WriterStep, PTL DEF Spec

\* The writer's offset counts the records in its file and its buffer in every
\* state and none of the orphans that failed writes have left between them, the
\* record of a write that returns is untorn, and no file outgrows file_size but
\* by orphans (write, write_entry_internal).
THEOREM WriterIsConsistent == Spec => []WriterConsistent
<1>1. WInv => WriterConsistent
  BY DEF WInv, WriterInv, WriterConsistent
<1> QED
  BY <1>1, WriterInitially, WriterStep, PTL DEF Spec

----------------------------------------------------------------------------
(* Durability *)

\* The disk fs holds what was acknowledged as e, behind a sync if writes sync.
Kept(e, fs) ==
    /\ e.id \in DOMAIN fs
    /\ e.pos \in 1..Len(fs[e.id].recs)
    /\ fs[e.id].recs[e.pos] = e.batch
    /\ SyncEnabled => e.pos <= fs[e.id].synced
    /\ e.sound => Sound(fs[e.id], e.pos)

DurInv == \A e \in acked : Kept(e, files)

\* A disk that only grows keeps what was acknowledged.
LEMMA ExtendsKeeps ==
    ASSUME TypeOK, NEW fs, Extends(files, fs), NEW e \in Entry, Kept(e, files)
    PROVE  Kept(e, fs)
<1> DEFINE old == Len(files[e.id].recs)
           new == Len(fs[e.id].recs)
<1>1. e.id \in DOMAIN files /\ e.id \in DOMAIN fs
  BY DEF Kept, Extends
<1>2. old \in Nat /\ new \in Nat /\ e.pos \in Nat
  BY <1>1 DEF TypeOK, FilesTyped, Extends, DiskFile, Entry
<1>3. old <= new /\ e.pos \in 1..old
  BY <1>1 DEF Extends, Kept
<1>4. e.pos \in 1..new
  <2> HIDE DEF old, new
  <2> QED
    BY <1>2, <1>3
<1>5. fs[e.id].recs[e.pos] = e.batch
  BY <1>1, <1>3 DEF Extends, Kept
<1>6. SyncEnabled => e.pos <= fs[e.id].synced
  BY <1>1 DEF Extends, Kept
<1>7. e.sound => Sound(fs[e.id], e.pos)
  BY <1>1 DEF Extends, Kept, Sound
<1> QED
  BY <1>1, <1>4, <1>5, <1>6, <1>7 DEF Kept

LEMMA DurableStep ==
    ASSUME SyncEnabled \/ ~PowerLossPossible
    PROVE  WInv /\ DurInv /\ [Next]_walVars => DurInv'
<1> SUFFICES ASSUME WInv, DurInv, [Next]_walVars PROVE DurInv'
  OBVIOUS
<1> USE DEF WInv
<1>0. \A e \in acked : e \in Entry /\ Kept(e, files)
  BY DEF DurInv, TypeOK
<1>1. CASE UNCHANGED <<files, acked>>
  BY <1>1 DEF DurInv, Kept
<1>2. CASE Close
  <2>1. UNCHANGED acked
    BY <1>2 DEF Close
  <2>2. CASE current = None
    BY <1>1, <1>2, <2>1, <2>2 DEF Close
  <2>3. CASE current # None
    <3>1. PICK fs \in AfterDrop :
            \/ files' = [fs EXCEPT ![current.id] = Synced(fs[current.id])]
            \/ files' = fs
      BY <1>2, <2>3 DEF Close
    <3>2. Extends(files, fs)
      BY DropExtends
    <3>3. \A e \in acked : Kept(e, fs)
      BY <1>0, <3>2, ExtendsKeeps
    <3>4. ASSUME NEW e \in acked PROVE Kept(e, files')
      <4>1. CASE files' = fs
        BY <3>3, <4>1
      <4>2. CASE files' = [fs EXCEPT ![current.id] = Synced(fs[current.id])]
        <5> DEFINE g == Synced(fs[current.id])
        <5>1. /\ g.recs = fs[current.id].recs /\ g.synced = Len(fs[current.id].recs)
              /\ g.orphans = fs[current.id].orphans
          <6>1. fs[current.id] \in DiskFile
            BY <2>3, <3>2 DEF Extends, WriterInv
          <6> QED
            BY <6>1, SyncedFile
        <5>2. files' = [fs EXCEPT ![current.id] = g]
          BY <4>2
        <5> HIDE DEF g
        <5>3. /\ e.id \in DOMAIN files'
              /\ files'[e.id] = IF e.id = current.id THEN g ELSE fs[e.id]
          BY <3>2, <3>3, <5>2 DEF Kept, Extends
        <5>4. CASE e.id # current.id
          BY <3>3, <5>3, <5>4 DEF Kept
        <5>5. CASE e.id = current.id
          <6>1. /\ e.pos \in 1..Len(fs[current.id].recs)
                /\ fs[current.id].recs[e.pos] = e.batch
            BY <3>3, <5>5 DEF Kept
          <6>2. files'[e.id] = g
            BY <5>3, <5>5
          <6>3. e.pos <= g.synced
            BY <5>1, <6>1
          <6>4. e.sound => Sound(g, e.pos)
            BY <3>3, <5>1, <5>5 DEF Kept, Sound
          <6> QED
            BY <5>1, <5>3, <6>1, <6>2, <6>3, <6>4 DEF Kept
        <5> QED
          BY <5>4, <5>5
      <4> QED
        BY <3>1, <4>1, <4>2
    <3> QED
      BY <2>1, <3>4 DEF DurInv
  <2> QED
    BY <2>2, <2>3
<1>3. CASE Shutdown
  <2>1. files' \in AfterDrop /\ UNCHANGED acked
    BY <1>3 DEF Shutdown
  <2>2. Extends(files, files')
    BY <2>1, DropExtends
  <2> QED
    BY <1>0, <2>1, <2>2, ExtendsKeeps DEF DurInv
<1>4. CASE PowerLoss
  <2>1. SyncEnabled
    BY <1>4 DEF PowerLoss
  <2>2. PICK gone \in SUBSET {i \in DOMAIN files : ~files[i].linked} :
          /\ DOMAIN files' = DOMAIN files \ gone
          /\ \A i \in DOMAIN files \ gone : files'[i] \in Survivors(files[i])
          /\ acked' = {e \in acked : e.id \notin gone}
    BY <1>4 DEF PowerLoss
  <2>3. ASSUME NEW e \in acked' PROVE Kept(e, files')
    <3>0. e \in acked /\ e.id \notin gone
      BY <2>2
    <3> DEFINE f == files[e.id]
               g == files'[e.id]
    <3>1. /\ e.id \in DOMAIN files
          /\ e.pos \in Nat /\ 1 <= e.pos
          /\ f.recs[e.pos] = e.batch
          /\ e.pos <= f.synced
          /\ e.sound => Sound(f, e.pos)
      BY <1>0, <2>1, <3>0 DEF Kept, Entry
    <3>2. f \in DiskFile /\ f.synced <= Len(f.recs)
      BY <3>1 DEF TypeOK, FilesTyped, WriterInv
    <3>3. g \in Survivors(f)
      BY <2>2, <3>0, <3>1
    <3> HIDE DEF f, g
    <3>4. /\ g \in DiskFile
          /\ g.synced = f.synced
          /\ g.orphans = f.orphans
          /\ g.synced <= Len(g.recs)
          /\ \A p \in 1..Len(g.recs) : g.recs[p] = f.recs[p]
      BY <3>2, <3>3, SurvivingFile
    <3>5. g.synced \in Nat /\ Len(g.recs) \in Nat
      BY <3>4 DEF DiskFile
    <3>6. e.pos \in 1..Len(g.recs)
      BY <3>1, <3>4, <3>5
    <3>7. e.pos <= g.synced /\ g.recs[e.pos] = e.batch
      BY <3>1, <3>4, <3>6
    <3>8. e.sound => Sound(g, e.pos)
      BY <3>1, <3>4 DEF Sound
    <3> QED
      BY <2>2, <3>0, <3>1, <3>6, <3>7, <3>8 DEF g, Kept
  <2> QED
    BY <2>3 DEF DurInv
<1>5. ASSUME NEW b \in Batch, WriteToNewFile(b) PROVE DurInv'
  <2>1. PICK fs \in AfterDrop : files' = WithNewFile(fs, fileId)
    BY <1>5 DEF WriteToNewFile
  <2>2. UNCHANGED acked /\ fileId \notin DOMAIN files
    BY <1>5 DEF WriteToNewFile
  <2>3. Extends(files, fs)
    BY DropExtends
  <2>4. \A e \in acked : Kept(e, fs)
    BY <1>0, <2>3, ExtendsKeeps
  <2>5. \A i \in DOMAIN fs : i \in DOMAIN files' /\ files'[i] = fs[i]
    BY <2>1, <2>2, <2>3 DEF WithNewFile, Extends
  <2> QED
    BY <2>2, <2>4, <2>5 DEF DurInv, Kept
<1>6. CASE FlushStep
  <2>1. /\ current # None /\ current.pend # <<>>
        /\ UNCHANGED acked
    BY <1>6 DEF FlushStep, WriterInv
  <2>2. /\ current.id \in DOMAIN files
        /\ files[current.id] \in DiskFile
        /\ Head(current.pend) \in Batch
    BY <2>1 DEF TypeOK, FilesTyped, OpenFile, WriterInv
  <2>3. PICK f \in {Completed(files[current.id], Head(current.pend)),
                    [files[current.id] EXCEPT !.torn = TRUE]} :
          files' = [files EXCEPT ![current.id] = f]
    BY <1>6 DEF FlushStep
  <2>4. /\ f \in DiskFile
        /\ f.synced = files[current.id].synced
        /\ f.orphans = files[current.id].orphans
        /\ Len(files[current.id].recs) <= Len(f.recs)
        /\ \A p \in 1..Len(files[current.id].recs) :
             f.recs[p] = files[current.id].recs[p]
    <3>1. CASE f = [files[current.id] EXCEPT !.torn = TRUE]
      <4>1. /\ f.recs = files[current.id].recs /\ f.synced = files[current.id].synced
            /\ f.orphans = files[current.id].orphans
        BY <3>1, <2>2 DEF DiskFile
      <4>2. f \in DiskFile
        BY <3>1, <2>2 DEF DiskFile
      <4>3. Len(f.recs) \in Nat
        BY <4>2 DEF DiskFile
      <4> QED
        BY <4>1, <4>2, <4>3
    <3>2. CASE f = Completed(files[current.id], Head(current.pend))
      <4> DEFINE g == files[current.id]
                 b == Head(current.pend)
      <4>1. g \in DiskFile /\ b \in Batch /\ f = Completed(g, b)
        BY <2>2, <3>2
      <4> HIDE DEF g, b
      <4>2. /\ f \in DiskFile /\ f.synced = g.synced /\ f.orphans = g.orphans
            /\ f.recs = Append(g.recs, b) /\ g.recs \in Seq(Batch)
        BY <4>1, CompletedFile DEF DiskFile
      <4>3. Len(g.recs) <= Len(f.recs) /\ \A p \in 1..Len(g.recs) : f.recs[p] = g.recs[p]
        BY <4>1, <4>2
      <4> QED
        BY <4>2, <4>3 DEF g
    <3> QED
      BY <3>1, <3>2
  <2>5. Extends(files, files')
    <3>1. /\ files' = [i \in DOMAIN files |-> files'[i]]
          /\ files'[current.id] = f
          /\ \A i \in DOMAIN files : i # current.id => files'[i] = files[i]
      BY <2>2, <2>3 DEF TypeOK, FilesTyped
    <3>2. \A i \in DOMAIN files : files[i] \in DiskFile /\ Len(files[i].recs) \in Nat
      BY DEF TypeOK, FilesTyped, DiskFile
    <3> QED
      BY <2>4, <3>1, <3>2 DEF Extends
  <2> QED
    BY <1>0, <2>1, <2>5, ExtendsKeeps DEF DurInv
<1>7. CASE WriteReturns
  <2> DEFINE new == [no |-> acks + 1, id |-> current.id,
                     pos |-> current.offset, batch |-> writing,
                     sound |-> Sound(files[current.id], current.offset)]
             f   == Synced(files[current.id])
  <2>1. /\ writing # None /\ current # None
        /\ current.pend = <<>>
        /\ acked' = acked \cup {new}
        /\ files' = IF SyncEnabled THEN [files EXCEPT ![current.id] = f] ELSE files
    BY <1>7 DEF WriteReturns, WriterInv
  <2>2. /\ current.id \in DOMAIN files
        /\ current.offset = Len(files[current.id].recs) + Len(current.pend)
        /\ current.offset > 0
        /\ files[current.id].recs[current.offset] = writing
    BY <2>1 DEF WriterInv
  <2>3. /\ Len(files[current.id].recs) \in Nat
        /\ current.offset \in Nat
    BY <2>1, <2>2 DEF TypeOK, FilesTyped, DiskFile, OpenFile
  <2>4. current.offset = Len(files[current.id].recs)
    <3> DEFINE m == Len(files[current.id].recs)
    <3>1. Len(<<>>) = 0
      OBVIOUS
    <3>2. Len(current.pend) = 0
      BY <2>1, <3>1, Zenon
    <3> HIDE DEF m
    <3>3. current.offset = m + 0
      BY <2>2, <3>2, Zenon DEF m
    <3>4. m \in Nat
      BY <2>3 DEF m
    <3>5. current.offset = m
      BY <3>3, <3>4
    <3> QED
      BY <3>5 DEF m
  <2>5. /\ f.recs = files[current.id].recs
        /\ f.synced = Len(files[current.id].recs)
        /\ f.orphans = files[current.id].orphans
    <3>1. files[current.id] \in DiskFile
      BY <2>2 DEF TypeOK, FilesTyped
    <3> QED
      BY <3>1, SyncedFile
  <2> HIDE DEF f
  <2>6. /\ DOMAIN files' = DOMAIN files
        /\ \A i \in DOMAIN files : /\ files'[i].recs = files[i].recs
                                    /\ files'[i].orphans = files[i].orphans
        /\ \A i \in DOMAIN files :
             SyncEnabled => files'[i].synced = IF i = current.id THEN current.offset
                                               ELSE files[i].synced
    BY <2>1, <2>2, <2>4, <2>5
  <2>7. Kept(new, files')
    <3> DEFINE m == Len(files[current.id].recs)
    <3>1. /\ new.id = current.id /\ new.pos = current.offset /\ new.batch = writing
          /\ new.sound = Sound(files[current.id], current.offset)
      OBVIOUS
    <3> HIDE DEF new
    <3>2. m \in Nat /\ new.pos = m /\ m > 0
      BY <2>2, <2>3, <2>4, <3>1
    <3>3. files'[new.id].recs = files[current.id].recs
      BY <2>2, <2>6, <3>1
    <3>4. new.pos \in 1..m
      <4> HIDE DEF m
      <4> QED
        BY <3>2
    <3>5. new.id \in DOMAIN files' /\ new.pos \in 1..Len(files'[new.id].recs)
      BY <2>2, <2>6, <3>1, <3>3, <3>4
    <3>6. files'[new.id].recs[new.pos] = new.batch
      BY <2>2, <3>1, <3>3
    <3>7. SyncEnabled => new.pos <= files'[new.id].synced
      <4>1. SyncEnabled => files'[new.id].synced = new.pos
        BY <2>2, <2>6, <3>1
      <4>2. new.pos \in Nat
        BY <3>2
      <4> QED
        BY <4>1, <4>2
    <3>8. new.sound => Sound(files'[new.id], new.pos)
      BY <2>2, <2>6, <3>1 DEF Sound
    <3> QED
      BY <3>5, <3>6, <3>7, <3>8 DEF Kept
  <2>8. ASSUME NEW e \in acked PROVE Kept(e, files')
    <3>1. /\ e.id \in DOMAIN files
          /\ e.pos \in 1..Len(files[e.id].recs)
          /\ files[e.id].recs[e.pos] = e.batch
          /\ SyncEnabled => e.pos <= files[e.id].synced
          /\ e.sound => Sound(files[e.id], e.pos)
      BY <1>0 DEF Kept
    <3>2. e.id = current.id => e.pos <= current.offset
      BY <2>4, <3>1, <2>3
    <3>3. e.sound => Sound(files'[e.id], e.pos)
      BY <2>6, <3>1 DEF Sound
    <3> QED
      BY <2>6, <3>1, <3>2, <3>3 DEF Kept
  <2> QED
    BY <2>1, <2>7, <2>8 DEF DurInv
<1>8. ASSUME NEW before \in DOMAIN files, Purge(before) PROVE DurInv'
  <2>1. PICK gone \in SUBSET {i \in DOMAIN files : i < before} :
          /\ files' = [i \in DOMAIN files \ gone |-> files[i]]
          /\ acked' = {e \in acked : e.id \notin gone}
    BY <1>8 DEF Purge
  <2> QED
    BY <1>0, <2>1 DEF DurInv, Kept
<1>11. CASE RecordFails
  <2>1. UNCHANGED acked
    BY <1>11 DEF RecordFails
  <2>2. /\ current.id \in DOMAIN files
        /\ files' = [i \in DOMAIN files |-> files'[i]]
        /\ \A i \in DOMAIN files : i # current.id => files'[i] = files[i]
        /\ files'[current.id] \in DiskFile
        /\ files'[current.id].synced = files[current.id].synced
        /\ \A o \in files'[current.id].orphans :
             o \in files[current.id].orphans \/ o = current.offset
        /\ Len(files[current.id].recs) <= Len(files'[current.id].recs)
        /\ \A p \in 1..Len(files[current.id].recs) :
             files'[current.id].recs[p] = files[current.id].recs[p]
    BY <1>11, RecordFailsIs
  <2>3. /\ Len(files[current.id].recs) \in Nat
        /\ Len(files'[current.id].recs) \in Nat
        /\ Len(files[current.id].recs) <= current.offset
        /\ current.offset \in Nat
    <3> DEFINE m == Len(files[current.id].recs)
               n == Len(current.pend)
    <3>1. m \in Nat /\ n \in Nat /\ current.offset = m + n
      <4>1. current # None
        BY <1>11, RecordFailsIs
      <4>2. current.offset = m + n
        BY <4>1 DEF WriterInv
      <4>3. m \in Nat
        BY <2>2 DEF TypeOK, FilesTyped, DiskFile
      <4>4. n \in Nat
        BY <4>1 DEF TypeOK, OpenFile
      <4> QED
        BY <4>2, <4>3, <4>4
    <3> HIDE DEF m, n
    <3>2. m <= current.offset /\ current.offset \in Nat
      BY <3>1
    <3> QED
      BY <2>2, <3>1, <3>2 DEF m, DiskFile
  <2>4. ASSUME NEW e \in acked PROVE Kept(e, files')
    <3>1. CASE e.id # current.id
      BY <1>0, <2>2, <3>1 DEF Kept
    <3>2. CASE e.id = current.id
      <4>1. /\ e.pos \in 1..Len(files[current.id].recs)
            /\ files[current.id].recs[e.pos] = e.batch
            /\ SyncEnabled => e.pos <= files[current.id].synced
            /\ e.sound => Sound(files[current.id], e.pos)
        BY <1>0, <3>2 DEF Kept
      <4>2. e.pos \in 1..Len(files'[current.id].recs) /\ e.pos <= current.offset
        BY <2>2, <2>3, <4>1
      <4>3. e.sound => Sound(files'[current.id], e.pos)
        BY <2>2, <4>1, <4>2 DEF Sound
      <4> QED
        BY <2>2, <3>2, <4>1, <4>2, <4>3 DEF Kept
    <3> QED
      BY <3>1, <3>2
  <2> QED
    BY <2>1, <2>4 DEF DurInv
<1>12. CASE FirstRecordFails
  <2>1. PICK fs \in AfterDrop : \A i \in DOMAIN files :
          i \in DOMAIN files' /\ files'[i] = fs[i]
    BY <1>12, FirstRecordFailsIs
  <2>2. UNCHANGED acked
    BY <1>12 DEF FirstRecordFails
  <2>3. Extends(files, fs)
    BY DropExtends
  <2>4. \A e \in acked : Kept(e, fs)
    BY <1>0, <2>3, ExtendsKeeps
  <2>5. \A e \in acked : e.id \in DOMAIN files
    BY <1>0 DEF Kept
  <2> QED
    BY <2>1, <2>2, <2>4, <2>5 DEF DurInv, Kept
<1>9. CASE UNCHANGED walVars
  BY <1>1, <1>9 DEF walVars
<1>10. ASSUME \/ Open \/ Crash \/ CreateRefused \/ CreateFails
              \/ FlushFails \/ SyncFails
              \/ \E b \in Batch : WriteToCurrentFile(b)
       PROVE  UNCHANGED <<files, acked>>
  BY <1>10 DEF Open, Crash, CreateRefused, CreateFails, FlushFails, SyncFails,
               WriteToCurrentFile
<1> QED
  BY <1>1, <1>2, <1>3, <1>4, <1>5, <1>6, <1>7, <1>8, <1>9, <1>10, <1>11, <1>12
     DEF Next, Write

\* If writes are synced, or the machine keeps its page cache, a write that
\* returned Ok stays in the log through every crash, I/O error, rotation and
\* restart, until its file is purged or a power loss takes its directory entry.
\* And what a failed write_all leaves spoils no write acknowledged before it: if
\* replay could read the record, where its WalEntry says, when write() returned,
\* it can ever after (Wal::write, write_entry_internal, replay_file).
THEOREM AckedWritesSurvive ==
    ASSUME SyncEnabled \/ ~PowerLossPossible
    PROVE  Spec => []AckedInWal
<1>1. Init => WInv /\ DurInv
  BY WriterInitially DEF Init, DurInv
<1>2. WInv /\ DurInv /\ [Next]_walVars => (WInv /\ DurInv)'
  BY WriterStep, DurableStep
<1>3. WInv /\ DurInv => AckedInWal
  <2> SUFFICES ASSUME WInv, DurInv, NEW e \in acked
               PROVE  /\ e.id \in DOMAIN files
                      /\ e.pos \in DOMAIN files[e.id].recs
                      /\ files[e.id].recs[e.pos] = e.batch
                      /\ e.sound => Sound(files[e.id], e.pos)
    BY DEF AckedInWal
  <2>1. e.id \in DOMAIN files /\ files[e.id].recs \in Seq(Batch)
    BY DEF DurInv, Kept, WInv, TypeOK, FilesTyped, DiskFile
  <2> QED
    BY <2>1 DEF DurInv, Kept
<1> QED
  BY <1>1, <1>2, <1>3, PTL DEF Spec
----------------------------------------------------------------------------
(* Order *)

\* What was acknowledged is in a file that exists and, in the file being
\* written, before the record in progress; the ids in use have no gaps below
\* the counter or below one another, and the current file is the newest.
OrderInv ==
    /\ \A a \in acked :
         /\ a.no <= acks
         /\ a.id \in DOMAIN files
         /\ current # None /\ a.id = current.id =>
              /\ a.pos <= current.offset
              /\ writing # None => a.pos < current.offset
    /\ ~holed =>
         /\ \A j \in Nat : j < fileId => j \in DOMAIN files
         /\ \A i \in DOMAIN files : \A j \in Nat : j < i => j \in DOMAIN files
         /\ current # None => \A i \in DOMAIN files : i <= current.id
         /\ AckOrder

\* A step that leaves the ids and the acknowledgements alone, and drops the
\* writer or keeps its place.
LEMMA OrderKept ==
    ASSUME OrderInv,
           DOMAIN files' = DOMAIN files,
           UNCHANGED <<acked, acks, holed>>,
           fileId' = fileId \/ fileId' = 0,
           \/ current' = None
           \/ /\ current # None
              /\ current'.id = current.id
              /\ current'.offset = current.offset
              /\ writing' = writing \/ writing' = None
    PROVE  OrderInv'
<1>1. (\A j \in Nat : j < fileId => j \in DOMAIN files) =>
        (\A j \in Nat : j < fileId' => j \in DOMAIN files')
  OBVIOUS
<1>2. CASE current' = None
  BY <1>1, <1>2 DEF OrderInv, AckOrder, Before
<1>3. CASE current' # None
  BY <1>1, <1>3 DEF OrderInv, AckOrder, Before
<1> QED
  BY <1>2, <1>3

\* A step that adds a file and makes it the current one.
LEMMA OrderOfNewFile ==
    ASSUME WInv, OrderInv,
           fileId \notin DOMAIN files,
           DOMAIN files' = DOMAIN files \cup {fileId},
           fileId' = fileId + 1,
           current'.id = fileId,
           UNCHANGED <<acked, acks, holed>>
    PROVE  OrderInv'
<1>1. fileId \in Nat /\ \A i \in DOMAIN files : i \in Nat
  BY DEF WInv, TypeOK, FilesTyped
<1>2. \A a \in acked' :
        /\ a.no <= acks'
        /\ a.id \in DOMAIN files'
        /\ a.id # current'.id
  BY DEF OrderInv
<1>3. ASSUME ~holed'
      PROVE  /\ \A j \in Nat : j < fileId' => j \in DOMAIN files'
             /\ \A i \in DOMAIN files' : \A j \in Nat : j < i => j \in DOMAIN files'
             /\ \A i \in DOMAIN files' : i <= fileId
  <2>1. /\ \A j \in Nat : j < fileId => j \in DOMAIN files
        /\ \A i \in DOMAIN files : \A j \in Nat : j < i => j \in DOMAIN files
    BY <1>3 DEF OrderInv
  <2>2. \A j \in Nat : j < fileId + 1 => j < fileId \/ j = fileId
    BY <1>1
  <2>3. \A j \in Nat : j < fileId' => j \in DOMAIN files'
    BY <2>1, <2>2
  <2>4. \A i \in DOMAIN files' : \A j \in Nat : j < i => j \in DOMAIN files'
    BY <2>1
  <2>5. \A i \in DOMAIN files : i <= fileId
    BY <1>1, <2>1
  <2> QED
    BY <1>1, <2>3, <2>4, <2>5
<1>4. ~holed' => AckOrder'
  BY DEF OrderInv, AckOrder, Before
<1> QED
  BY <1>2, <1>3, <1>4 DEF OrderInv

LEMMA OrderStep == WInv /\ OrderInv /\ [Next]_walVars => OrderInv'
<1> SUFFICES ASSUME WInv, OrderInv, [Next]_walVars PROVE OrderInv'
  OBVIOUS
<1> USE DEF WInv
<1>1. CASE Open
  BY <1>1, OrderKept DEF Open
<1>2. CASE Close
  <2>1. /\ current' = None
        /\ UNCHANGED <<fileId, writing, acked, acks, holed>>
    BY <1>2 DEF Close
  <2>2. DOMAIN files' = DOMAIN files
    <3>1. CASE current = None
      BY <1>2, <3>1 DEF Close
    <3>2. CASE current # None
      <4>1. PICK fs \in AfterDrop :
              \/ files' = [fs EXCEPT ![current.id] = Synced(fs[current.id])]
              \/ files' = fs
        BY <1>2, <3>2 DEF Close
      <4>2. Extends(files, fs)
        BY DropExtends
      <4> QED
        BY <4>1, <4>2 DEF Extends
    <3> QED
      BY <3>1, <3>2
  <2> QED
    BY <2>1, <2>2, OrderKept
<1>3. CASE Shutdown
  <2>1. files' \in AfterDrop
    BY <1>3 DEF Shutdown
  <2>2. Extends(files, files')
    BY <2>1, DropExtends
  <2>3. DOMAIN files' = DOMAIN files
    BY <2>2 DEF Extends
  <2> QED
    BY <1>3, <2>3, OrderKept DEF Shutdown
<1>4. CASE Crash
  BY <1>4, OrderKept DEF Crash
<1>5. CASE PowerLoss
  <2>1. PICK gone \in SUBSET {i \in DOMAIN files : ~files[i].linked} :
          /\ DOMAIN files' = DOMAIN files \ gone
          /\ acked' = {e \in acked : e.id \notin gone}
          /\ holed' = (holed \/ gone # {})
    BY <1>5 DEF PowerLoss
  <2>2. current' = None /\ UNCHANGED <<fileId, acks>>
    BY <1>5 DEF PowerLoss
  <2>3. \A a \in acked' : a.no <= acks' /\ a.id \in DOMAIN files'
    BY <2>1, <2>2 DEF OrderInv
  <2>4. ~holed' => ~holed /\ DOMAIN files' = DOMAIN files /\ acked' = acked
    BY <2>1
  <2>5. ~holed' =>
         /\ \A j \in Nat : j < fileId' => j \in DOMAIN files'
         /\ \A i \in DOMAIN files' : \A j \in Nat : j < i => j \in DOMAIN files'
         /\ AckOrder'
    BY <2>2, <2>4 DEF OrderInv, AckOrder, Before
  <2> QED
    BY <2>2, <2>3, <2>5 DEF OrderInv
<1>6. CASE CreateRefused
  <2>1. /\ fileId \in DOMAIN files /\ fileId' = fileId + 1
        /\ UNCHANGED <<files, current, writing, acked, acks, holed>>
    BY <1>6 DEF CreateRefused
  <2>2. fileId \in Nat
    BY DEF TypeOK
  <2>3. (\A j \in Nat : j < fileId => j \in DOMAIN files) =>
          (\A j \in Nat : j < fileId' => j \in DOMAIN files')
    <3>1. \A j \in Nat : j < fileId + 1 => j < fileId \/ j = fileId
      BY <2>2
    <3> QED
      BY <2>1, <3>1
  <2> QED
    BY <2>1, <2>3 DEF OrderInv, AckOrder, Before
<1>7. CASE CreateFails
  <2>1. /\ holed' = TRUE
        /\ UNCHANGED <<files, current, writing, acked, acks>>
    BY <1>7 DEF CreateFails
  <2> QED
    BY <2>1 DEF OrderInv
<1>8. ASSUME NEW b \in Batch, WriteToNewFile(b) PROVE OrderInv'
  <2>1. PICK fs \in AfterDrop : files' = WithNewFile(fs, fileId)
    BY <1>8 DEF WriteToNewFile
  <2>2. /\ fileId \notin DOMAIN files
        /\ fileId' = fileId + 1
        /\ current' = [id |-> fileId, offset |-> 1, pend |-> <<b>>]
        /\ UNCHANGED <<acked, acks, holed>>
    BY <1>8 DEF WriteToNewFile
  <2>3. Extends(files, fs)
    BY DropExtends
  <2>4. DOMAIN files' = DOMAIN files \cup {fileId}
    BY <2>1, <2>3 DEF WithNewFile, Extends
  <2> QED
    BY <2>2, <2>4, OrderOfNewFile
<1>9. ASSUME NEW b \in Batch, WriteToCurrentFile(b) PROVE OrderInv'
  <2>1. /\ current # None
        /\ writing' = b
        /\ writing = None
        /\ UNCHANGED <<files, fileId, acked, acks, holed>>
        /\ current' = [current EXCEPT !.offset = @ + 1, !.pend = Append(@, b)]
    BY <1>9 DEF WriteToCurrentFile, NeedsFile, Idle
  <2>2. current \in OpenFile
    BY <2>1 DEF TypeOK
  <2>3. /\ current.offset \in Nat
        /\ current'.id = current.id
        /\ current'.offset = current.offset + 1
    BY <2>1, <2>2 DEF OpenFile
  <2>4. \A a \in acked : a.pos \in Nat
    BY DEF TypeOK, Entry
  <2>5. \A a \in acked' :
          /\ a.no <= acks'
          /\ a.id \in DOMAIN files'
          /\ a.id = current'.id => a.pos <= current'.offset /\ a.pos < current'.offset
    BY <2>1, <2>3, <2>4 DEF OrderInv
  <2>6. ~holed' =>
         /\ \A j \in Nat : j < fileId' => j \in DOMAIN files'
         /\ \A i \in DOMAIN files' : \A j \in Nat : j < i => j \in DOMAIN files'
         /\ \A i \in DOMAIN files' : i <= current'.id
         /\ AckOrder'
    BY <2>1, <2>3 DEF OrderInv, AckOrder, Before
  <2> QED
    BY <2>5, <2>6 DEF OrderInv
<1>10. CASE FlushStep
  <2>1. current # None /\ UNCHANGED <<fileId, writing, acked, acks, holed>>
    BY <1>10 DEF FlushStep, WriterInv
  <2>2. current \in OpenFile /\ current.id \in DOMAIN files
    BY <2>1 DEF TypeOK, WriterInv
  <2>3. DOMAIN files' = DOMAIN files
    BY <1>10 DEF FlushStep
  <2>4. current'.id = current.id /\ current'.offset = current.offset
    BY <1>10, <2>2 DEF FlushStep, OpenFile
  <2> QED
    BY <2>1, <2>3, <2>4, OrderKept
<1>11. CASE FlushFails \/ SyncFails
  <2>1. current # None
    BY <1>11 DEF FlushFails, SyncFails, WriterInv
  <2> QED
    BY <1>11, <2>1, OrderKept DEF FlushFails, SyncFails
<1>12. CASE WriteReturns
  <2> DEFINE new == [no |-> acks + 1, id |-> current.id,
                     pos |-> current.offset, batch |-> writing,
                     sound |-> Sound(files[current.id], current.offset)]
  <2>1. /\ writing # None /\ current # None
        /\ writing' = None
        /\ acks' = acks + 1
        /\ acked' = acked \cup {new}
        /\ UNCHANGED <<current, fileId, holed>>
        /\ DOMAIN files' = DOMAIN files
    BY <1>12 DEF WriteReturns, WriterInv
  <2>2. /\ new.no = acks + 1
        /\ new.id = current.id
        /\ new.pos = current.offset
    OBVIOUS
  <2> HIDE DEF new
  <2>3. /\ acks \in Nat
        /\ current.offset \in Nat /\ current.id \in Nat
        /\ \A a \in acked : a.no \in Nat /\ a.pos \in Nat /\ a.id \in Nat
        /\ current.id \in DOMAIN files
    BY <2>1 DEF TypeOK, Entry, OpenFile, WriterInv
  <2>4. \A a \in acked :
          /\ a.no <= acks
          /\ a.id \in DOMAIN files
          /\ a.id = current.id => a.pos < current.offset
    BY <2>1 DEF OrderInv
  <2>5. \A a \in acked' :
          /\ a.no <= acks'
          /\ a.id \in DOMAIN files'
          /\ a.id = current.id => a.pos <= current.offset
    BY <2>1, <2>2, <2>3, <2>4
  <2>6. ASSUME ~holed PROVE AckOrder'
    <3>1. /\ \A i \in DOMAIN files : i <= current.id
          /\ \A a, c \in acked : a.no < c.no => Before(a, c)
      BY <2>1, <2>6 DEF OrderInv, AckOrder
    <3>2. ASSUME NEW a \in acked', NEW c \in acked', a.no < c.no
          PROVE  Before(a, c)
      <4>1. CASE a \in acked /\ c \in acked
        BY <3>1, <3>2, <4>1
      <4>2. CASE a \in acked /\ c = new
        <5>1. a.id <= current.id
          BY <2>4, <3>1, <4>2
        <5> QED
          BY <2>2, <2>3, <2>4, <4>2, <5>1 DEF Before
      <4>3. CASE a = new
        <5>1. c.no <= acks + 1
          BY <2>1, <2>5
        <5>2. c.no \in Nat
          BY <2>1, <2>2, <2>3
        <5> QED
          BY <2>2, <2>3, <3>2, <4>3, <5>1, <5>2
      <4> QED
        BY <2>1, <4>1, <4>2, <4>3
    <3> QED
      BY <3>2 DEF AckOrder
  <2>7. ~holed' =>
         /\ \A j \in Nat : j < fileId' => j \in DOMAIN files'
         /\ \A i \in DOMAIN files' : \A j \in Nat : j < i => j \in DOMAIN files'
         /\ \A i \in DOMAIN files' : i <= current.id
    BY <2>1 DEF OrderInv
  <2> QED
    BY <2>1, <2>5, <2>6, <2>7 DEF OrderInv
<1>13. ASSUME NEW before \in DOMAIN files, Purge(before) PROVE OrderInv'
  <2>1. PICK gone \in SUBSET {i \in DOMAIN files : i < before} :
          /\ files' = [i \in DOMAIN files \ gone |-> files[i]]
          /\ acked' = {e \in acked : e.id \notin gone}
    BY <1>13 DEF Purge
  <2>2. UNCHANGED <<current, writing, acks>> /\ holed'
    BY <1>13 DEF Purge
  <2> QED
    BY <2>1, <2>2 DEF OrderInv
<1>14. CASE UNCHANGED walVars
  BY <1>14 DEF walVars, OrderInv, AckOrder, Before
<1>15. CASE RecordFails
  <2>1. UNCHANGED <<fileId, writing, acked, acks, holed>>
    BY <1>15 DEF RecordFails
  <2>2. /\ current # None
        /\ current'.id = current.id /\ current'.offset = current.offset
        /\ DOMAIN files' = DOMAIN files
    BY <1>15, RecordFailsIs
  <2> QED
    BY <2>1, <2>2, OrderKept
<1>16. CASE FirstRecordFails
  <2>1. /\ fileId \notin DOMAIN files
        /\ fileId' = fileId + 1
        /\ current'.id = fileId
        /\ UNCHANGED <<acked, acks, holed>>
    BY <1>16 DEF FirstRecordFails
  <2>2. DOMAIN files' = DOMAIN files \cup {fileId}
    BY <1>16, FirstRecordFailsIs
  <2> QED
    BY <2>1, <2>2, OrderOfNewFile
<1> QED
  BY <1>1, <1>2, <1>3, <1>4, <1>5, <1>6, <1>7, <1>8, <1>9, <1>10, <1>11, <1>12,
     <1>13, <1>14, <1>15, <1>16 DEF Next, Write

\* Replay meets the acknowledged writes in the order they were acknowledged,
\* as long as no id was skipped and no file purged or lost, whether or not writes
\* are synced (create_file, replay).
THEOREM AcksAreOrdered == Spec => []AckOrder
<1>1. Init => WInv /\ OrderInv
  <2>1. Init => OrderInv
    BY DEF Init, OrderInv, AckOrder
  <2> QED
    BY <2>1, WriterInitially
<1>2. WInv /\ OrderInv /\ [Next]_walVars => (WInv /\ OrderInv)'
  BY WriterStep, OrderStep
<1>3. OrderInv => AckOrder
  BY DEF OrderInv, AckOrder
<1> QED
  BY <1>1, <1>2, <1>3, PTL DEF Spec

----------------------------------------------------------------------------
(* Appending *)

\* A file whose first records are those of another starts with it.
LEMMA StartsWith ==
    ASSUME NEW s \in Seq(Batch), NEW t \in Seq(Batch), Len(s) <= Len(t),
           \A p \in 1..Len(s) : t[p] = s[p]
    PROVE  SubSeq(t, 1, Len(s)) = s
<1>1. SubSeq(t, 1, Len(s)) \in Seq(Batch) /\ Len(SubSeq(t, 1, Len(s))) = Len(s)
  OBVIOUS
<1>2. \A p \in 1..Len(s) : SubSeq(t, 1, Len(s))[p] = s[p]
  OBVIOUS
<1> QED
  BY <1>1, <1>2

\* What the file i of the disk fs may have become on the disk gs.
AppendedTo(fs, gs, i) ==
    gs[i] # fs[i] => /\ current # None /\ i = current.id
                     /\ Len(fs[i].recs) <= Len(gs[i].recs)
                     /\ SubSeq(gs[i].recs, 1, Len(fs[i].recs)) = fs[i].recs

\* Dropping the writer adds to the end of its own file.
LEMMA DropAppends ==
    ASSUME WInv, NEW fs \in AfterDrop, NEW i \in DOMAIN files
    PROVE  i \in DOMAIN fs /\ AppendedTo(files, fs, i)
<1>1. Extends(files, fs)
  BY DropExtends
<1>2. fs[i] # files[i] => current # None /\ i = current.id
  <2>1. CASE current = None
    BY <2>1 DEF AfterDrop
  <2>2. CASE current # None
    BY <2>2 DEF AfterDrop, WInv, TypeOK, FilesTyped
  <2> QED
    BY <2>1, <2>2
<1>3. i \in DOMAIN fs /\ files[i].recs \in Seq(Batch) /\ fs[i].recs \in Seq(Batch)
  BY <1>1 DEF Extends, WInv, TypeOK, FilesTyped, DiskFile
<1>4. /\ Len(files[i].recs) <= Len(fs[i].recs)
      /\ SubSeq(fs[i].recs, 1, Len(files[i].recs)) = files[i].recs
  BY <1>1, <1>3, StartsWith DEF Extends
<1> QED
  BY <1>2, <1>3, <1>4 DEF AppendedTo

LEMMA AppendStep ==
    ASSUME WInv, [Next]_walVars, up',
           NEW i \in DOMAIN files, i \in DOMAIN files'
    PROVE  AppendedTo(files, files', i)
<1> USE DEF WInv
<1>1. CASE Open
  BY <1>1 DEF Open, AppendedTo
<1>2. CASE Close
  <2>1. CASE current = None
    BY <1>2, <2>1 DEF Close, AppendedTo
  <2>2. CASE current # None
    <3>1. PICK fs \in AfterDrop :
            \/ files' = [fs EXCEPT ![current.id] = Synced(fs[current.id])]
            \/ files' = fs
      BY <1>2, <2>2 DEF Close
    <3>2. i \in DOMAIN fs /\ AppendedTo(files, fs, i)
      BY <3>1, DropAppends
    <3>3. i # current.id => files'[i] = fs[i]
      BY <3>1
    <3>4. files'[i].recs = fs[i].recs
      <4>1. CASE files' = fs
        BY <4>1
      <4>2. CASE files' = [fs EXCEPT ![current.id] = Synced(fs[current.id])]
        <5>1. fs[i] \in DiskFile
          BY <3>1, DropExtends DEF Extends
        <5>2. files'[i] = IF i = current.id THEN Synced(fs[i]) ELSE fs[i]
          BY <3>2, <4>2
        <5>3. Synced(fs[i]).recs = fs[i].recs
          BY <5>1, SyncedFile
        <5> QED
          BY <5>2, <5>3
      <4> QED
        BY <3>1, <4>1, <4>2
    <3>5. fs[i].recs \in Seq(Batch) /\ files[i].recs \in Seq(Batch)
      BY <3>1, DropExtends DEF Extends, TypeOK, FilesTyped, DiskFile
    <3>6. /\ Len(files[i].recs) <= Len(files[i].recs)
          /\ SubSeq(files[i].recs, 1, Len(files[i].recs)) = files[i].recs
      BY <3>5, StartsWith
    <3> QED
      BY <2>2, <3>2, <3>3, <3>4, <3>6 DEF AppendedTo
  <2> QED
    BY <2>1, <2>2
<1>3. CASE Shutdown
  BY <1>3, DropAppends DEF Shutdown
<1>4. CASE Crash
  BY <1>4 DEF Crash
<1>5. CASE PowerLoss
  BY <1>5 DEF PowerLoss
<1>6. CASE CreateRefused \/ CreateFails
  BY <1>6 DEF CreateRefused, CreateFails, AppendedTo
<1>7. ASSUME NEW b \in Batch, WriteToNewFile(b) PROVE AppendedTo(files, files', i)
  <2>1. PICK fs \in AfterDrop : files' = WithNewFile(fs, fileId)
    BY <1>7 DEF WriteToNewFile
  <2>2. i # fileId
    BY <1>7 DEF WriteToNewFile
  <2>3. files'[i] = fs[i]
    BY <2>1, <2>2, DropAppends DEF WithNewFile
  <2> QED
    BY <2>1, <2>3, DropAppends DEF AppendedTo
<1>8. ASSUME NEW b \in Batch, WriteToCurrentFile(b) PROVE AppendedTo(files, files', i)
  BY <1>8 DEF WriteToCurrentFile, AppendedTo
<1>9. CASE FlushStep
  <2>1. /\ files[i].recs \in Seq(Batch) /\ current.pend \in Seq(Batch)
        /\ current # None /\ current.pend # <<>>
    BY <1>9 DEF FlushStep, TypeOK, FilesTyped, DiskFile, WriterInv, OpenFile
  <2>2. files'[i] # files[i] => i = current.id
    BY <1>9 DEF FlushStep, TypeOK, FilesTyped
  <2>3. files'[i].recs \in {files[i].recs, Append(files[i].recs, Head(current.pend))}
    <3>1. CASE i # current.id
      BY <2>2, <3>1
    <3>2. CASE i = current.id /\ files[i].torn
      <4>1. files'[i] = Completed(files[i], Head(current.pend))
        BY <1>9, <3>2 DEF FlushStep
      <4>2. files[i] \in DiskFile /\ Head(current.pend) \in Batch
        BY <2>1 DEF TypeOK, FilesTyped
      <4>3. Completed(files[i], Head(current.pend)).recs
              = Append(files[i].recs, Head(current.pend))
        BY ONLY <4>2, CompletedFile
      <4> QED
        BY <4>1, <4>3
    <3>3. CASE i = current.id /\ ~files[i].torn
      <4>1. files' = [files EXCEPT ![current.id].torn = TRUE]
        BY <1>9, <3>3 DEF FlushStep
      <4>2. files[i] \in DiskFile
        BY DEF TypeOK, FilesTyped
      <4> QED
        BY <3>3, <4>1, <4>2 DEF DiskFile
    <3> QED
      BY <3>1, <3>2, <3>3
  <2>4. Head(current.pend) \in Batch
    BY <2>1
  <2>5. /\ Len(files[i].recs) <= Len(files'[i].recs)
        /\ SubSeq(files'[i].recs, 1, Len(files[i].recs)) = files[i].recs
    <3> DEFINE s == files[i].recs
               t == files'[i].recs
               b == Head(current.pend)
    <3>1. s \in Seq(Batch) /\ b \in Batch /\ t \in {s, Append(s, b)}
      BY <2>1, <2>3, <2>4
    <3> HIDE DEF s, t, b
    <3>3. /\ t \in Seq(Batch) /\ Len(s) <= Len(t)
          /\ \A p \in 1..Len(s) : t[p] = s[p]
      BY <3>1
    <3>2. SubSeq(t, 1, Len(s)) = s
      BY <3>1, <3>3, StartsWith
    <3> QED
      BY <3>2, <3>3 DEF s, t
  <2> QED
    BY <2>1, <2>2, <2>5 DEF AppendedTo
<1>10. CASE FlushFails \/ SyncFails
  BY <1>10 DEF FlushFails, SyncFails, AppendedTo
<1>11. CASE WriteReturns
  <2>1. current # None /\ files[i].recs \in Seq(Batch)
    BY <1>11 DEF WriteReturns, TypeOK, FilesTyped, DiskFile, WriterInv
  <2>2. /\ files'[i] # files[i] => i = current.id
        /\ files'[i].recs = files[i].recs
    <3>1. files'[i] = files[i] \/ (i = current.id /\ files'[i] = Synced(files[i]))
      BY <1>11 DEF WriteReturns
    <3>2. Synced(files[i]).recs = files[i].recs
      BY SyncedFile DEF TypeOK, FilesTyped
    <3> QED
      BY <3>1, <3>2
  <2>3. /\ Len(files[i].recs) <= Len(files[i].recs)
        /\ SubSeq(files[i].recs, 1, Len(files[i].recs)) = files[i].recs
    BY <2>1, StartsWith
  <2> QED
    BY <2>1, <2>2, <2>3 DEF AppendedTo
<1>12. ASSUME NEW before \in DOMAIN files, Purge(before) PROVE AppendedTo(files, files', i)
  BY <1>12 DEF Purge, AppendedTo
<1>13. CASE UNCHANGED walVars
  BY <1>13 DEF walVars, AppendedTo
<1>14. CASE RecordFails
  <2>1. /\ current # None /\ current.id \in DOMAIN files
        /\ files'[i] # files[i] => i = current.id
        /\ files'[current.id] \in DiskFile
        /\ Len(files[current.id].recs) <= Len(files'[current.id].recs)
        /\ \A p \in 1..Len(files[current.id].recs) :
             files'[current.id].recs[p] = files[current.id].recs[p]
    BY <1>14, RecordFailsIs
  <2>2. files[current.id].recs \in Seq(Batch) /\ files'[current.id].recs \in Seq(Batch)
    BY <2>1 DEF TypeOK, FilesTyped, DiskFile
  <2>3. SubSeq(files'[current.id].recs, 1, Len(files[current.id].recs)) = files[current.id].recs
    BY <2>1, <2>2, StartsWith
  <2> QED
    BY <2>1, <2>3 DEF AppendedTo
<1>15. CASE FirstRecordFails
  <2>1. PICK fs \in AfterDrop : files'[i] = fs[i]
    BY <1>15, FirstRecordFailsIs
  <2> QED
    BY <2>1, DropAppends DEF AppendedTo
<1> QED
  BY <1>1, <1>2, <1>3, <1>4, <1>5, <1>6, <1>7, <1>8, <1>9, <1>10, <1>11, <1>12,
     <1>13, <1>14, <1>15 DEF Next, Write

\* Nothing but the file being written ever changes, and only at its end:
\* neither a rotation nor a reopened log touches what was written before
\* (create_file, write_entry_internal).
THEOREM LogOnlyAppends == Spec => OnlyAppends
<1>1. WInv /\ [Next]_walVars =>
        (up' => \A i \in DOMAIN files \cap DOMAIN files' : AppendedTo(files, files', i))
  BY AppendStep
<1>2. WInv /\ [Next]_walVars =>
        (up' => \A i \in DOMAIN files \cap DOMAIN files' :
                  files'[i] # files[i] =>
                    /\ current # None /\ i = current.id
                    /\ SubSeq(files'[i].recs, 1, Len(files[i].recs)) = files[i].recs)
  BY <1>1 DEF AppendedTo
<1> QED
  BY <1>2, WriterInitially, WriterStep, PTL DEF Spec, OnlyAppends

----------------------------------------------------------------------------
(* The refinement of AckedLog *)

\* The acknowledgements are numbered from 1, each number used once.
Numbered(entries, n) ==
    /\ \A a \in entries : a.no \in 1..n
    /\ \A a, b \in entries : a.no = b.no => a = b
    /\ \A m \in 1..n : \E a \in entries : a.no = m

NumberInv == ~holed => Numbered(acked, acks)

LEMMA NumberStep == WInv /\ NumberInv /\ [Next]_walVars => NumberInv'
<1> SUFFICES ASSUME WInv, NumberInv, [Next]_walVars PROVE NumberInv'
  OBVIOUS
<1>1. CASE WriteReturns
  <2>1. PICK e : /\ acked' = acked \cup {e} /\ e.no = acks + 1
                 /\ acks' = acks + 1 /\ holed' = holed
    BY <1>1 DEF WriteReturns
  <2>2. acks \in Nat
    BY DEF WInv, TypeOK
  <2>3. ASSUME Numbered(acked, acks) PROVE Numbered(acked', acks + 1)
    <3>1. \A a \in acked : a.no \in 1..acks
      BY <2>3 DEF Numbered
    <3>2. \A a \in acked' : a.no \in 1..(acks + 1)
      BY <2>1, <2>2, <3>1
    <3>3. \A a, b \in acked' : a.no = b.no => a = b
      BY <2>1, <2>2, <2>3, <3>1 DEF Numbered
    <3>4. \A m \in 1..(acks + 1) : \E a \in acked' : a.no = m
      BY <2>1, <2>2, <2>3 DEF Numbered
    <3> QED
      BY <3>2, <3>3, <3>4 DEF Numbered
  <2> QED
    BY <2>1, <2>3 DEF NumberInv
<1>2. ASSUME NEW before \in DOMAIN files, Purge(before) PROVE NumberInv'
  BY <1>2 DEF Purge, NumberInv
<1>4. CASE PowerLoss
  <2>1. acks' = acks /\ (holed' \/ (acked' = acked /\ holed' = holed))
    <3>1. PICK gone \in SUBSET DOMAIN files :
            acked' = {e \in acked : e.id \notin gone} /\ holed' = (holed \/ gone # {})
      BY <1>4 DEF PowerLoss
    <3>2. holed \in BOOLEAN /\ acks' = acks
      BY <1>4 DEF PowerLoss, WInv, TypeOK
    <3> QED
      BY <3>1, <3>2
  <2> QED
    BY <2>1 DEF NumberInv
<1>3. CASE \/ Open \/ Close \/ Shutdown \/ Crash \/ CreateRefused \/ CreateFails
           \/ RecordFails \/ FirstRecordFails
           \/ (\E b \in Batch : Write(b)) \/ FlushStep \/ FlushFails \/ SyncFails
           \/ UNCHANGED walVars
  <2>1. acked' = acked /\ acks' = acks /\ (holed' = holed \/ holed')
    BY <1>3 DEF Open, Close, Shutdown, Crash, CreateRefused, CreateFails, Write,
         RecordFails, FirstRecordFails,
         WriteToNewFile, WriteToCurrentFile, FlushStep, FlushFails, SyncFails, walVars
  <2> QED
    BY <2>1 DEF NumberInv
<1> QED
  BY <1>1, <1>2, <1>3, <1>4 DEF Next

\* The entry that was acknowledged as the n-th.
Acked(entries, n) == CHOOSE e \in entries : e.no = n

LEMMA AckedIs ==
    ASSUME NEW entries, NEW n, Numbered(entries, n), NEW e \in entries
    PROVE  Acked(entries, e.no) = e
BY DEF Numbered, Acked

\* As many acknowledgements have a number of at most m as m says.
LEMMA CountedNumbers ==
    ASSUME NEW entries, NEW n \in Nat, Numbered(entries, n), NEW m \in 0..n
    PROVE  /\ IsFiniteSet({e \in entries : e.no <= m})
           /\ Cardinality({e \in entries : e.no <= m}) = m
<1> DEFINE S == {e \in entries : e.no <= m}
           f == [i \in 1..m |-> Acked(entries, i)]
<1>1. ASSUME NEW i \in 1..m
      PROVE  Acked(entries, i) \in entries /\ Acked(entries, i).no = i
  <2>1. \E e \in entries : e.no = i
    BY DEF Numbered
  <2> QED
    BY <2>1 DEF Acked
<1>2. \A i \in 1..m : f[i] \in S /\ f[i].no = i
  BY <1>1
<1>3. \A e \in S : e.no \in 1..m /\ f[e.no] = e
  <2> SUFFICES ASSUME NEW e \in S PROVE e.no \in 1..m /\ f[e.no] = e
    OBVIOUS
  <2>1. e \in entries /\ e.no \in 1..n /\ e.no <= m
    BY DEF Numbered
  <2>2. e.no \in 1..m
    BY <2>1
  <2>3. Acked(entries, e.no) = e
    BY <2>1, AckedIs
  <2> QED
    BY <2>2, <2>3
<1> HIDE DEF f
<1>4. f \in [1..m -> S]
  BY <1>2 DEF f
<1>5. f \in Bijection(1..m, S)
  <2>1. \A i, j \in 1..m : f[i] = f[j] => i = j
    BY <1>2
  <2>2. \A e \in S : \E i \in 1..m : f[i] = e
    BY <1>3
  <2> HIDE DEF S
  <2>3. f \in {g \in [1..m -> S] : \A i, j \in 1..m : g[i] = g[j] => i = j}
    BY <1>4, <2>1, Zenon
  <2>4. f \in {g \in [1..m -> S] : \A e \in S : \E i \in 1..m : g[i] = e}
    BY <1>4, <2>2, Zenon
  <2> QED
    BY <2>3, <2>4 DEF Bijection, Injection, IsInjective, Surjection
<1>6. IsFiniteSet(1..m) /\ Cardinality(1..m) = m
  BY FS_Interval
<1>7. IsFiniteSet(S) /\ Cardinality(S) = Cardinality(1..m)
  BY <1>5, <1>6, FS_Bijection DEF ExistsBijection
<1> QED
  BY <1>6, <1>7

\* The log that the numbers give.
AckLog(entries, n) == [i \in 1..n |-> Acked(entries, i).batch]

PromiseInv == WInv /\ DurInv /\ OrderInv /\ NumberInv

\* Replay delivers just that log: each acknowledgement has as many records of
\* acknowledged writes before its own as there were acknowledgements before.
LEMMA ReplayGivesAckLog ==
    PromiseInv /\ ~(holed \/ Unreached) => ReplayedAcks = AckLog(acked, acks)
<1> SUFFICES ASSUME PromiseInv, ~holed, ~Unreached PROVE ReplayedAcks = AckLog(acked, acks)
  OBVIOUS
<1> DEFINE found == {e \in acked : e.id \in DOMAIN files /\ e.pos \in DOMAIN files[e.id].recs
                                     /\ Reached(e)}
           less == {p \in found \X found : Before(p[1], p[2])}
           Nth(n) == CHOOSE e \in found :
                       Cardinality({g \in found : <<g, e>> \in less}) = n - 1
<1>1. Numbered(acked, acks) /\ acks \in Nat
  BY DEF PromiseInv, NumberInv, WInv, TypeOK
<1>2. ASSUME NEW e \in acked PROVE e \in found /\ files[e.id].recs[e.pos] = e.batch
  <2>1. /\ e.id \in DOMAIN files /\ e.pos \in 1..Len(files[e.id].recs)
        /\ files[e.id].recs[e.pos] = e.batch
        /\ Reached(e)
    BY DEF PromiseInv, DurInv, Kept, Unreached, Reached
  <2>2. DOMAIN files[e.id].recs = 1..Len(files[e.id].recs)
    BY <2>1 DEF PromiseInv, WInv, TypeOK, FilesTyped, DiskFile
  <2> QED
    BY <2>1, <2>2
<1>3. found = acked
  BY <1>2
<1>4. Cardinality(acked) = acks
  <2>1. {e \in acked : e.no <= acks} = acked
    BY <1>1 DEF Numbered
  <2>2. acks \in 0..acks
    BY <1>1
  <2>3. Cardinality({e \in acked : e.no <= acks}) = acks
    BY <1>1, <2>2, CountedNumbers
  <2> QED
    BY <2>1, <2>3, Zenon
<1>5. ASSUME NEW e \in acked
      PROVE  Cardinality({g \in acked : Before(g, e)}) = e.no - 1
  <2>1. \A g \in acked : g.no < e.no => Before(g, e)
    BY DEF PromiseInv, OrderInv, AckOrder
  <2>2. \A g \in acked : e.no < g.no => Before(e, g)
    BY DEF PromiseInv, OrderInv, AckOrder
  <2>3. \A g \in acked : g.no \in 1..acks /\ g.id \in Nat /\ g.pos \in Nat
                        /\ (g.no = e.no => g = e)
    BY <1>1 DEF Numbered, PromiseInv, WInv, TypeOK, Entry
  <2>4. \A g \in acked : Before(g, e) <=> g.no <= e.no - 1
    BY <1>1, <2>1, <2>2, <2>3 DEF Before
  <2>5. {g \in acked : Before(g, e)} = {g \in acked : g.no <= e.no - 1}
    BY <2>4
  <2>6. e.no - 1 \in 0..acks
    BY <1>1, <2>3
  <2>7. Cardinality({g \in acked : g.no <= e.no - 1}) = e.no - 1
    BY <1>1, <2>6, CountedNumbers
  <2> QED
    BY <2>5, <2>7, Zenon
<1>10. ASSUME NEW e \in acked
       PROVE  Cardinality({g \in found : <<g, e>> \in less}) = e.no - 1
  <2>1. {g \in found : <<g, e>> \in less} = {g \in acked : Before(g, e)}
    BY <1>3
  <2> QED
    BY <1>5, <2>1, Zenon
<1>6. ASSUME NEW n \in 1..acks PROVE Nth(n) = Acked(acked, n) /\ Acked(acked, n) \in acked
  <2>1. PICK e \in acked : e.no = n
    BY <1>1 DEF Numbered
  <2>2. Acked(acked, n) = e
    BY <1>1, <2>1, AckedIs
  <2>3. ASSUME NEW g \in found, Cardinality({h \in found : <<h, g>> \in less}) = n - 1
        PROVE  g = e
    <3>1. g \in acked /\ g.no - 1 = n - 1
      BY <1>3, <1>10, <2>3
    <3>2. g.no \in Nat /\ n \in Nat
      BY <1>1, <3>1 DEF Numbered
    <3>3. g.no = e.no
      BY <2>1, <3>1, <3>2
    <3> QED
      BY <1>1, <2>1, <3>1, <3>3 DEF Numbered
  <2>4. e \in found /\ Cardinality({h \in found : <<h, e>> \in less}) = n - 1
    BY <1>3, <1>10, <2>1
  <2>5. Nth(n) = e
    BY <2>3, <2>4
  <2> QED
    BY <2>2, <2>5
<1>7. ASSUME NEW n \in 1..acks PROVE BatchAt(Nth(n)) = Acked(acked, n).batch
  BY <1>2, <1>6 DEF BatchAt
<1>8. ReplayedAcks = [n \in 1..Cardinality(found) |-> BatchAt(Nth(n))]
  BY DEF ReplayedAcks, InOrder
<1>9. Cardinality(found) = acks
  BY <1>3, <1>4, Zenon
<1> HIDE DEF found, Nth, less
<1> QED
  BY <1>7, <1>8, <1>9 DEF AckLog

\* A sequence and one element more, element by element.
LEMMA AppendIs ==
    ASSUME NEW n \in Nat, NEW s \in [1..n -> Batch], NEW b \in Batch
    PROVE  Append(s, b) = [i \in 1..(n + 1) |-> IF i = n + 1 THEN b ELSE s[i]]
<1>1. s \in Seq(Batch) /\ Len(s) = n
  OBVIOUS
<1> DEFINE t == [i \in 1..(n + 1) |-> IF i = n + 1 THEN b ELSE s[i]]
<1>2. Append(s, b) \in Seq(Batch) /\ Len(Append(s, b)) = n + 1
  BY <1>1
<1>3. t \in Seq(Batch) /\ Len(t) = n + 1
  OBVIOUS
<1>4. \A i \in 1..(n + 1) : Append(s, b)[i] = t[i]
  BY <1>1
<1> HIDE DEF t
<1>5. Append(s, b) = t
  BY <1>2, <1>3, <1>4
<1> QED
  BY <1>5 DEF t

LEMMA PromiseInvInit == Init => PromiseInv /\ ReplayedAcks = <<>>
<1> SUFFICES ASSUME Init PROVE PromiseInv /\ ReplayedAcks = <<>>
  OBVIOUS
<1>1. OrderInv /\ DurInv
  BY DEF Init, OrderInv, AckOrder, DurInv
<1>2. Numbered(acked, acks) /\ ~holed /\ acks = 0
  BY DEF Init, Numbered
<1>3. PromiseInv
  BY <1>1, <1>2, WriterInitially DEF PromiseInv, NumberInv
<1>4. ReplayedAcks = AckLog(acked, acks)
  <2>1. ~Unreached
    BY DEF Init, Unreached
  <2> QED
    BY <1>2, <1>3, <2>1, ReplayGivesAckLog
<1>5. AckLog(acked, acks) = <<>>
  BY <1>2 DEF AckLog
<1> QED
  BY <1>3, <1>4, <1>5

Grown(old, new) == new = old \/ \E b \in Batch : new = Append(old, b)

\* An acknowledgement adds one batch to the end of the log; no other step
\* changes the acknowledged entries while nothing is skipped, purged or lost.
LEMMA AckLogStep ==
    ASSUME PromiseInv, [Next]_walVars, ~(holed \/ Unreached)'
    PROVE  /\ ~(holed \/ Unreached)
           /\ Grown(AckLog(acked, acks), AckLog(acked', acks'))
<1>1. CASE WriteReturns
  <2> DEFINE e == [no |-> acks + 1, id |-> current.id, pos |-> current.offset,
                   batch |-> writing, sound |-> Sound(files[current.id], current.offset)]
  <2>1. /\ acked' = acked \cup {e} /\ e.no = acks + 1 /\ e.batch = writing
        /\ acks' = acks + 1 /\ holed' = holed
    BY <1>1 DEF WriteReturns
  <2> HIDE DEF e
  <2>2. writing \in Batch /\ acks \in Nat /\ Numbered(acked, acks)
    BY <1>1, <2>1 DEF WriteReturns, PromiseInv, NumberInv, WInv, TypeOK
  <2>3. Numbered(acked', acks')
    <3>1. NumberInv'
      BY NumberStep DEF PromiseInv
    <3> QED
      BY <3>1 DEF NumberInv
  <2>4. Acked(acked', acks + 1) = e
    BY <2>1, <2>3, AckedIs
  <2>5. ASSUME NEW i \in 1..acks
        PROVE  Acked(acked', i) = Acked(acked, i) /\ Acked(acked, i).batch \in Batch
    <3>1. PICK a \in acked : a.no = i
      BY <2>2 DEF Numbered
    <3>2. Acked(acked, i) = a
      BY <2>2, <3>1, AckedIs
    <3>3. a \in acked'
      BY <2>1
    <3>4. Acked(acked', i) = a
      BY <2>3, <3>1, <3>3, AckedIs
    <3>5. a.batch \in Batch
      BY DEF PromiseInv, WInv, TypeOK, Entry
    <3> QED
      BY <3>2, <3>4, <3>5
  <2> DEFINE old == AckLog(acked, acks)
             new == [i \in 1..(acks + 1) |-> IF i = acks + 1 THEN writing ELSE old[i]]
  <2>6. old \in [1..acks -> Batch] /\ \A i \in 1..acks : old[i] = Acked(acked, i).batch
    BY <2>5 DEF AckLog
  <2>7. AckLog(acked', acks') = [i \in 1..(acks + 1) |-> Acked(acked', i).batch]
    BY <2>1 DEF AckLog
  <2> HIDE DEF old
  <2>8. \A i \in 1..(acks + 1) :
          Acked(acked', i).batch = IF i = acks + 1 THEN writing ELSE old[i]
    <3> SUFFICES ASSUME NEW i \in 1..(acks + 1)
                 PROVE  Acked(acked', i).batch = IF i = acks + 1 THEN writing ELSE old[i]
      OBVIOUS
    <3>1. CASE i = acks + 1
      BY <2>1, <2>4, <3>1
    <3>2. CASE i # acks + 1
      <4>1. i \in 1..acks
        BY <2>2, <3>2
      <4> QED
        BY <2>5, <2>6, <3>2, <4>1
    <3> QED
      BY <3>1, <3>2
  <2>9. Append(old, writing) = new
    BY <2>2, <2>6, AppendIs
  <2>10. AckLog(acked', acks') = new
    BY <2>7, <2>8
  <2>11. ~(holed \/ Unreached)
    BY <2>1 DEF Unreached
  <2> HIDE DEF new
  <2> QED
    BY <2>2, <2>9, <2>10, <2>11 DEF old, Grown
<1>2. ASSUME NEW before \in DOMAIN files, Purge(before) PROVE FALSE
  BY <1>2 DEF Purge
<1>4. CASE PowerLoss
  <2>1. acks' = acks /\ (holed' \/ (acked' = acked /\ holed' = holed))
    <3>1. PICK gone \in SUBSET DOMAIN files :
            acked' = {e \in acked : e.id \notin gone} /\ holed' = (holed \/ gone # {})
      BY <1>4 DEF PowerLoss
    <3>2. holed \in BOOLEAN /\ acks' = acks
      BY <1>4 DEF PowerLoss, PromiseInv, WInv, TypeOK
    <3> QED
      BY <3>1, <3>2
  <2> QED
    BY <2>1 DEF Grown, Unreached
<1>3. CASE \/ Open \/ Close \/ Shutdown \/ Crash \/ CreateRefused \/ CreateFails
           \/ RecordFails \/ FirstRecordFails
           \/ (\E b \in Batch : Write(b)) \/ FlushStep \/ FlushFails \/ SyncFails
           \/ UNCHANGED walVars
  <2>1. acked' = acked /\ acks' = acks /\ (holed' = holed \/ holed')
    BY <1>3 DEF Open, Close, Shutdown, Crash, CreateRefused, CreateFails, Write,
         RecordFails, FirstRecordFails,
         WriteToNewFile, WriteToCurrentFile, FlushStep, FlushFails, SyncFails, walVars
  <2> QED
    BY <2>1 DEF Grown, Unreached
<1> QED
  BY <1>1, <1>2, <1>3, <1>4 DEF Next

LEMMA PromiseStep ==
    ASSUME SyncEnabled \/ ~PowerLossPossible
    PROVE  PromiseInv /\ [Next]_walVars => PromiseInv'
BY WriterStep, DurableStep, OrderStep, NumberStep DEF PromiseInv

\* The log keeps its promise: with sync enabled, or where the page cache
\* survives, what replay delivers of the acknowledged writes is an
\* acknowledged log, which grows by one batch at its end when a write returns
\* and by nothing else, through every crash, power loss, failed call, rotation
\* and restart, until an id is skipped, a file is purged or lost with its
\* directory entry, or a write is acknowledged behind what a failed write_all
\* left (Wal::write, replay).
THEOREM WalImplementsAckedLog ==
    ASSUME SyncEnabled \/ ~PowerLossPossible
    PROVE  Spec => ImplementsAckedLog
<1>1. Init => Promise!Init
  <2> SUFFICES ASSUME Init PROVE Promise!Init
    OBVIOUS
  <2>1. ReplayedAcks = <<>> /\ (holed \/ Unreached) = FALSE
    BY PromiseInvInit DEF Init, Unreached
  <2> QED
    BY <2>1 DEF Promise!Init
<1>2. PromiseInv /\ PromiseInv' /\ [Next]_walVars
        => [Promise!Next]_<<ReplayedAcks, holed \/ Unreached>>
  <2> SUFFICES ASSUME PromiseInv, PromiseInv', [Next]_walVars
               PROVE  [Promise!Next]_<<ReplayedAcks, holed \/ Unreached>>
    OBVIOUS
  <2>1. CASE (holed \/ Unreached)'
    BY <2>1 DEF Promise!Next, Promise!Damage
  <2>2. CASE ~(holed \/ Unreached)'
    <3>1. ~(holed \/ Unreached) /\ Grown(AckLog(acked, acks), AckLog(acked', acks'))
      BY <2>2, AckLogStep
    <3>2. ReplayedAcks = AckLog(acked, acks)
      BY <3>1, ReplayGivesAckLog
    <3>3. ReplayedAcks' = AckLog(acked', acks')
      <4>1. (PromiseInv /\ ~(holed \/ Unreached) => ReplayedAcks = AckLog(acked, acks))'
        BY ReplayGivesAckLog, PTL
      <4> QED
        BY <2>2, <4>1
    <3>4. (holed \/ Unreached) \in BOOLEAN /\ (holed \/ Unreached)' \in BOOLEAN
      OBVIOUS
    <3>5. (holed \/ Unreached)' = (holed \/ Unreached)
      BY <2>2, <3>1, <3>4
    <3> QED
      BY <3>1, <3>2, <3>3, <3>5 DEF Grown, Promise!Next, Promise!Acknowledge
  <2> QED
    BY <2>1, <2>2
<1>3. PromiseInv /\ [Next]_walVars => PromiseInv'
  BY PromiseStep
<1> QED
  BY <1>1, <1>2, <1>3, PromiseInvInit, PTL DEF Spec, ImplementsAckedLog, Promise!Spec
=============================================================================
