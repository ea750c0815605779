----------------------------- MODULE MCServices -----------------------------
(***************************************************************************)
(* The services beside the engine: they share no state, so one run checks  *)
(* them side by side.  Which of them takes its steps is chosen at the      *)
(* start, and the state spaces add up instead of multiplying.              *)
(***************************************************************************)
EXTENDS Shards, Scheduler, Snapshots, Backups, Selection, Ageing

CONSTANTS t1, t2, mine

VARIABLE service

vars == <<service, shardVars, schedVars, snapVars, backupVars, selectionVars, ageingVars>>

Reports == {<<3, 1>>, <<1, 2>>}

File(i, size, min) == [id |-> i, size |-> size, min |-> min, max |-> min + 1]
SomeFiles ==
  UNION {{[i \in 1..n |-> File(i, p[i][1], p[i][2])] : p \in [1..n -> (1..2) \X (0..1)]} : n \in 0..5}

SomeRowLists == {<<>>} \cup {<<t>> : t \in -7..12} \cup {<<-5, 9>>, <<9, -5>>}

Values == [1..3 -> {-2, 1, 5}]
Times == {<<-6, -1, 1>>, <<-2, 2, 4>>, <<3, 0, 7>>, <<8, 5, -4>>, <<1, 1, -3>>}
SomePointLists ==
  {<<>>} \cup {<<<<t, 1>>>> : t \in -9..9}
    \cup {[i \in 1..3 |-> <<t[i], v[i]>>] : t \in Times, v \in Values}

Init ==
  /\ service \in {"shards", "scheduler", "snapshots", "backups", "selection", "ageing"}
  /\ ShardsInit /\ SchedInit /\ SnapInit /\ BackupsInit /\ AgeingInit
  /\ IF service = "selection" THEN SelectionInit
     ELSE files = <<>> /\ limits = <<0, 0>> /\ compactions = <<>> /\ merges = <<>>

Next ==
  /\ UNCHANGED service
  /\ \/ /\ service = "shards" /\ ShardsNext
        /\ UNCHANGED <<schedVars, snapVars, backupVars, selectionVars, ageingVars>>
     \/ /\ service = "scheduler" /\ SchedNext
        /\ UNCHANGED <<shardVars, snapVars, backupVars, selectionVars, ageingVars>>
     \/ /\ service = "snapshots" /\ SnapNext
        /\ UNCHANGED <<shardVars, schedVars, backupVars, selectionVars, ageingVars>>
     \/ /\ service = "backups" /\ BackupsNext
        /\ UNCHANGED <<shardVars, schedVars, snapVars, selectionVars, ageingVars>>
     \/ /\ service = "selection" /\ SelectionNext
        /\ UNCHANGED <<shardVars, schedVars, snapVars, backupVars, ageingVars>>
     \/ /\ service = "ageing" /\ AgeingNext
        /\ UNCHANGED <<shardVars, schedVars, snapVars, backupVars, selectionVars>>

Spec == Init /\ [][Next]_vars /\ SchedFairness

=============================================================================
