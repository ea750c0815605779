------------------------------ MODULE Selection ------------------------------
(***************************************************************************)
(* What the compaction planner and the merge tool make of a list of files. *)
(* The engine uses neither: it compacts all its files at once.  One pair   *)
(* of selections is made in one step.                                      *)
(***************************************************************************)
EXTENDS Lists, SequencesExt

CONSTANTS
  FileLists,            \* sequences of files: [id, size, min, max]
  CompactLimits,        \* values of max_compact_files
  MergeLimits           \* values of max_files, the limit of a merge

\* A list names no file twice: their identifiers differ.
IsFileList(list) ==
  /\ list \in Seq(ToSet(list))
  /\ \A f \in ToSet(list) : f.size \in Nat /\ {f.min, f.max} \subseteq Int
  /\ \A i, j \in DOMAIN list : i # j => list[i].id # list[j].id

ASSUME SelectionAssumption ==
  /\ \A list \in FileLists : IsFileList(list)
  /\ CompactLimits \subseteq Nat
  /\ MergeLimits \subseteq Nat \ {0}      \* with 0 the loop never ends

VARIABLES
  files,        \* the list
  limits,       \* the two limits, 0 for a call not made yet
  compactions,  \* what select_compaction_candidates returns
  merges        \* what select_merge_candidates returns

selectionVars == <<files, limits, compactions, merges>>

-----------------------------------------------------------------------------
(* Compaction: larger files first, earlier ones among those of one size. *)

Larger(f, g) == f.size > g.size \/ (f.size = g.size /\ f.min <= g.min)
LargerFirst(list) == {p \in (DOMAIN list) \X (DOMAIN list) : Larger(list[p[1]], list[p[2]])}

\* Mutant: a full batch is put away before the file that fills it is added.
BatchesOfLosing(list, n) ==
  LET after[i \in 0..Len(list)] ==
        IF i = 0 THEN [done |-> <<>>, batch |-> <<>>]
        ELSE IF Len(after[i - 1].batch) >= n
        THEN [done |-> Append(after[i - 1].done, after[i - 1].batch), batch |-> <<>>]
        ELSE [done |-> after[i - 1].done, batch |-> Append(after[i - 1].batch, list[i])]
      end == after[Len(list)]
  IN  IF end.batch = <<>> THEN end.done ELSE Append(end.done, end.batch)

\* After each file.  With a limit of 0 the first batch is empty and every other
\* has one file.
BatchesOf(list, n) ==
  LET after[i \in 0..Len(list)] ==
        IF i = 0 THEN [done |-> <<>>, batch |-> <<>>]
        ELSE IF Len(after[i - 1].batch) >= n
        THEN [done |-> Append(after[i - 1].done, after[i - 1].batch), batch |-> <<list[i]>>]
        ELSE [done |-> after[i - 1].done, batch |-> Append(after[i - 1].batch, list[i])]
      end == after[Len(list)]
  IN  IF end.batch = <<>> THEN end.done ELSE Append(end.done, end.batch)

Candidate(batch) ==
  [files |-> batch,
   size |-> SumOf([i \in DOMAIN batch |-> batch[i].size]),
   range |-> IF batch = <<>> THEN <<0, 0>>
             ELSE <<Least({f.min : f \in ToSet(batch)}), Greatest({f.max : f \in ToSet(batch)})>>]

SelectCompactionCandidates(list, n) ==
  LET batches == BatchesOf(Arranged(list, StableOrder(Len(list), LargerFirst(list))), n)
  IN  [i \in DOMAIN batches |-> Candidate(batches[i])]

-----------------------------------------------------------------------------
(* Merging: in the order of time, and a file that is left alone stays out. *)

EarlierFirst(list) == {p \in (DOMAIN list) \X (DOMAIN list) : list[p[1]].min <= list[p[2]].min}

\* After each round of the loop, which is over as soon as fewer than two files
\* are left.
SelectMergeCandidates(list, n) ==
  LET sorted == Arranged(list, StableOrder(Len(list), EarlierFirst(list)))
      after[r \in 0..Len(list)] ==
        IF r = 0 THEN [i |-> 0, candidates |-> <<>>]
        ELSE LET i == after[r - 1].i
                 size == IF n < Len(list) - i THEN n ELSE Len(list) - i
             IN  IF i + 2 > Len(list) THEN after[r - 1]
                 ELSE [i |-> i + size,
                       candidates |-> Append(after[r - 1].candidates, SubSeq(sorted, i + 1, i + size))]
  IN  after[Len(list)].candidates

\* merge skips a candidate of fewer than two files.
Merged(candidates) == Kept(candidates, {i \in DOMAIN candidates : Len(candidates[i]) >= 2})

-----------------------------------------------------------------------------
SelectionInit ==
  /\ files \in FileLists
  /\ limits = <<0, 0>>
  /\ compactions = <<>> /\ merges = <<>>

Select(compact, merge) ==
  /\ limits[2] = 0
  /\ limits' = <<compact, merge>>
  /\ compactions' = SelectCompactionCandidates(files, compact)
  /\ merges' = SelectMergeCandidates(files, merge)
  /\ UNCHANGED files

SelectionNext == \E compact \in CompactLimits, merge \in MergeLimits : Select(compact, merge)
SelectionSpec == SelectionInit /\ [][SelectionNext]_selectionVars

-----------------------------------------------------------------------------
(* Properties. *)

Occurrences(batches, file) ==
  Cardinality({p \in (DOMAIN batches) \X (1..Len(files)) :
                 p[2] <= Len(batches[p[1]]) /\ batches[p[1]][p[2]] = file})

\* Whatever the sizes, the times, the ties between them and the limits, the
\* selections lose no file and take none twice: each file is in one compaction
\* batch, which is no longer than the limit (one file for a limit of 0) and
\* covers its times, and all batches but the last are full; each file is in one
\* merge, but that the last one may be left over, and a later merge has no file
\* that starts before one of an earlier merge.
EveryFileOnce ==
  limits[2] # 0 =>
    LET batches == [i \in DOMAIN compactions |-> compactions[i].files]
        fits == IF limits[1] = 0 THEN 1 ELSE limits[1]
        merged == Merged(merges)
        left == {f \in ToSet(files) : Occurrences(merges, f) = 0}
    IN  /\ \A f \in ToSet(files) : Occurrences(batches, f) = 1 /\ Occurrences(merges, f) <= 1
        /\ \A i \in DOMAIN batches :
             /\ Len(batches[i]) <= fits
             /\ limits[1] # 0 /\ i < Len(batches) => Len(batches[i]) = fits
             /\ \A f \in ToSet(batches[i]) :
                  compactions[i].range[1] <= f.min /\ f.max <= compactions[i].range[2]
        /\ Cardinality(left) <= 1
        /\ \A f \in left, g \in ToSet(files) : g.min <= f.min
        /\ limits[2] > 1 => Len(merged) = Len(merges)
        /\ \A i, j \in DOMAIN merges : i < j =>
             \A f \in ToSet(merges[i]), g \in ToSet(merges[j]) : f.min <= g.min
=============================================================================
