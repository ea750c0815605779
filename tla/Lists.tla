------------------------------- MODULE Lists --------------------------------
(***************************************************************************)
(* What loops of the code make of a list: filters, sums, concatenation and *)
(* sorting.  A filter is given the positions it keeps and a sort the pairs *)
(* of positions in order, so that no operator is an argument of another.   *)
(***************************************************************************)
EXTENDS Integers, Sequences, FiniteSets

\* The elements at some positions, in their order.
Kept(list, keep) ==
  LET upTo[i \in 0..Len(list)] ==
        IF i = 0 THEN <<>>
        ELSE IF i \in keep THEN Append(upTo[i - 1], list[i]) ELSE upTo[i - 1]
  IN  upTo[Len(list)]

SumOf(numbers) ==
  LET upTo[i \in 0..Len(numbers)] == IF i = 0 THEN 0 ELSE upTo[i - 1] + numbers[i]
  IN  upTo[Len(numbers)]

\* The lists of a list, one behind the other.
Joined(lists) ==
  LET upTo[i \in 0..Len(lists)] == IF i = 0 THEN <<>> ELSE upTo[i - 1] \o lists[i]
  IN  upTo[Len(lists)]

\* A list in another order: where the element with k - 1 before it comes k-th.
Arranged(list, before) ==
  [k \in DOMAIN list |->
     list[CHOOSE i \in DOMAIN list : Cardinality({j \in DOMAIN list : <<j, i>> \in before}) = k - 1]]

\* The pairs in order after a stable sort, where "le" has those in order as they are.
StableOrder(n, le) ==
  {p \in (1..n) \X (1..n) : IF p[1] < p[2] THEN p \in le ELSE p[1] # p[2] /\ <<p[2], p[1]>> \notin le}

\* The numbers of a finite set, the smallest first.
Increasing(S) ==
  [k \in 1..Cardinality(S) |-> CHOOSE x \in S : Cardinality({y \in S : y < x}) = k - 1]

\* The ends of a set of numbers.
Least(S) == CHOOSE x \in S : \A y \in S : x <= y
Greatest(S) == CHOOSE x \in S : \A y \in S : y <= x
=============================================================================
