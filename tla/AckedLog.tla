------------------------------ MODULE AckedLog ------------------------------
(***************************************************************************)
(* What a write-ahead log promises its caller: a log of the acknowledged   *)
(* batches to which every acknowledgement adds one batch at the end, and   *)
(* which nothing else changes.  The promise ends when the log is damaged.  *)
(***************************************************************************)
EXTENDS Sequences

CONSTANT Batch

VARIABLES log, damaged

Init == log = <<>> /\ damaged = FALSE

Acknowledge(b) ==
    /\ ~damaged
    /\ log' = Append(log, b)
    /\ UNCHANGED damaged

\* From here on nothing is promised of the log.
Damage == damaged'

Next == Damage \/ \E b \in Batch : Acknowledge(b)

Spec == Init /\ [][Next]_<<log, damaged>>
=============================================================================
