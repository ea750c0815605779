------------------------------ MODULE MCEngine ------------------------------
(* Engine on a small instance. *)
EXTENDS Engine

Row(time, tagSet, value) == [ts |-> time, tags |-> tagSet, fields |-> [v |-> value]]

CONSTANT nan

\* A row; another version of it, which has the given value, behind an untagged
\* row in key order.
Batches(value) ==
    {[table |-> 1, rows |-> <<Row(1, 1, 1)>>],
     [table |-> 1, rows |-> <<Row(1, 1, value), Row(0, NoTags, 1)>>]}

MCBatch == Batches(nan)
PlainBatch == Batches(2)
=============================================================================
