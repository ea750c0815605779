------------------------------- MODULE Tables -------------------------------
(***************************************************************************)
(* What the services share: hash maps, as partial functions, and the       *)
(* division of signed integers.                                            *)
(***************************************************************************)
EXTENDS Integers, Functions

NoEntries == [k \in {} |-> {}]
Put(table, key, value) ==
  [k \in DOMAIN table \cup {key} |-> IF k = key THEN value ELSE table[k]]
Drop(table, key) == Restrict(table, DOMAIN table \ {key})
Entries(table) == {table[k] : k \in DOMAIN table}

\* i64 division truncates towards zero.
TruncDiv(a, b) == IF a >= 0 THEN a \div b ELSE -((-a) \div b)
=============================================================================
