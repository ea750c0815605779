----------------------------- MODULE ListProofs -----------------------------
(***************************************************************************)
(* Facts about Lists, and induction over data for the other proofs: the    *)
(* positions where a claim holds are a set, and a loop is a function of    *)
(* its rounds that exists because no first round without one does.         *)
(***************************************************************************)
EXTENDS Lists, SequenceTheorems, WellFoundedInduction, FiniteSetTheorems, TLAPS

LEMMA LeastExists ==
  ASSUME NEW S, S \subseteq Nat, S # {}
  PROVE  \E n \in S : \A k \in S : n <= k
<1>1. PICK n \in S : \A k \in S : <<k, n>> \notin OpToRel(<, Nat)
  BY NatLessThanWellFounded, WFMin
<1>2. ASSUME NEW k \in S PROVE n <= k
  <2>1. ~(k < n)
    BY <1>1 DEF OpToRel
  <2> QED
    BY <2>1
<1> QED
  BY <1>2

\* Induction: a set that has the first of some rounds, and every round whose
\* predecessor it has, has them all.
LEMMA RoundInduction ==
  ASSUME NEW a \in Nat, NEW n \in Nat, NEW Good, a \in Good,
         \A i \in (a + 1)..n : i - 1 \in Good => i \in Good
  PROVE  a..n \subseteq Good
<1> DEFINE Bad == (a..n) \ Good
<1> SUFFICES ASSUME Bad # {} PROVE FALSE
  OBVIOUS
<1>1. PICK i \in Bad : \A k \in Bad : i <= k
  <2>1. Bad \subseteq Nat
    OBVIOUS
  <2> QED
    BY <2>1, LeastExists
<1>2. i \in (a + 1)..n /\ i - 1 \in a..n /\ i - 1 \notin Bad
  BY <1>1
<1> QED
  BY <1>1, <1>2

\* A loop of n rounds over states in S, whose body in round i is step[i].
IsLoop(g, n, S, start, step) ==
  /\ g \in [0..n -> S]
  /\ g[0] = start
  /\ \A i \in 1..n : g[i] = step[i][g[i - 1]]

LEMMA LoopExists ==
  ASSUME NEW n \in Nat, NEW S, NEW start \in S, NEW step \in [1..n -> [S -> S]]
  PROVE  \E g : IsLoop(g, n, S, start, step)
<1> DEFINE Good == {k \in 0..n : \E g : IsLoop(g, k, S, start, step)}
<1>1. 0 \in Good
  <2>1. IsLoop([i \in 0..0 |-> start], 0, S, start, step)
    BY DEF IsLoop
  <2> QED
    BY <2>1
<1>2. ASSUME NEW k \in (0 + 1)..n, k - 1 \in Good PROVE k \in Good
  <2>1. PICK g : IsLoop(g, k - 1, S, start, step)
    BY <1>2
  <2> DEFINE h == [i \in 0..k |-> IF i = k THEN step[k][g[k - 1]] ELSE g[i]]
  <2>2. g[k - 1] \in S /\ k - 1 \in 0..(k - 1) /\ k \in 1..n
    BY <2>1 DEF IsLoop
  <2>3. h \in [0..k -> S] /\ h[0] = start
    BY <2>1, <2>2 DEF IsLoop
  <2>4. ASSUME NEW i \in 1..k PROVE h[i] = step[i][h[i - 1]]
    <3>1. CASE i = k
      BY <2>2, <3>1
    <3>2. CASE i # k
      BY <2>1, <3>2 DEF IsLoop
    <3> QED
      BY <3>1, <3>2
  <2>5. IsLoop(h, k, S, start, step)
    BY <2>3, <2>4 DEF IsLoop
  <2> QED
    BY <2>5
<1>3. 0..n \subseteq Good
  <2> HIDE DEF Good
  <2> QED
    BY <1>1, <1>2, RoundInduction
<1> QED
  BY <1>3

\* What is computed in the same way in every round is what the loop computes.
LEMMA LoopUnique ==
  ASSUME NEW n \in Nat, NEW S, NEW start \in S, NEW step, NEW g, IsLoop(g, n, S, start, step),
         NEW f, f[0] = start, \A i \in 1..n : f[i - 1] \in S => f[i] = step[i][f[i - 1]]
  PROVE  \A i \in 0..n : f[i] = g[i]
<1> DEFINE Good == {i \in 0..n : f[i] = g[i]}
<1>1. 0 \in Good
  BY DEF IsLoop
<1>2. ASSUME NEW i \in (0 + 1)..n, i - 1 \in Good PROVE i \in Good
  <2>1. i \in 1..n /\ i \in 0..n /\ i - 1 \in 0..n /\ f[i - 1] = g[i - 1]
    BY <1>2
  <2>2. g[i - 1] \in S /\ g[i] = step[i][g[i - 1]]
    BY <2>1 DEF IsLoop
  <2> QED
    BY <2>1, <2>2
<1>3. 0..n \subseteq Good
  <2> HIDE DEF Good
  <2> QED
    BY <1>1, <1>2, RoundInduction
<1> QED
  BY <1>3

\* What stays of a list, round by round.
IsKept(g, S, list, keep) ==
  /\ g \in [0..Len(list) -> Seq(S)]
  /\ g[0] = <<>>
  /\ \A i \in 1..Len(list) :
       g[i] = IF i \in keep THEN Append(g[i - 1], list[i]) ELSE g[i - 1]
  /\ Kept(list, keep) = g[Len(list)]

LEMMA KeptRounds ==
  ASSUME NEW S, NEW list \in Seq(S), NEW keep
  PROVE  \E g : IsKept(g, S, list, keep)
<1> DEFINE n == Len(list)
           Step(i, s) == IF i \in keep THEN Append(s, list[i]) ELSE s
           step == [i \in 1..n |-> [s \in Seq(S) |-> Step(i, s)]]
           Body(f) == [i \in 0..n |-> IF i = 0 THEN <<>> ELSE Step(i, f[i - 1])]
           f == CHOOSE p : p = Body(p)
<1>1. n \in Nat /\ <<>> \in Seq(S)
  OBVIOUS
<1>2. \A i \in 1..n, s \in Seq(S) : Step(i, s) \in Seq(S) /\ step[i][s] = Step(i, s)
  OBVIOUS
<1>3. step \in [1..n -> [Seq(S) -> Seq(S)]]
  BY <1>2
<1>4. Kept(list, keep) = f[n]
  BY DEF Kept
<1> HIDE DEF step, n, Step
<1>5. PICK g : IsLoop(g, n, Seq(S), <<>>, step)
  BY <1>1, <1>3, LoopExists
<1>6. g \in [0..n -> Seq(S)] /\ g[0] = <<>> /\ \A i \in 1..n : g[i] = Step(i, g[i - 1])
  <2>1. \A i \in 1..n : i - 1 \in 0..n
    BY <1>1
  <2> QED
    BY <1>2, <1>5, <2>1 DEF IsLoop
<1>7. g = Body(g)
  <2>1. \A i \in 0..n : g[i] = Body(g)[i]
    BY <1>1, <1>6
  <2> QED
    BY <1>6, <2>1
<1>8. f = Body(f)
  <2> HIDE DEF Body
  <2> QED
    BY <1>7
<1> HIDE DEF f
<1>9. f[0] = <<>> /\ \A i \in 1..n : f[i - 1] \in Seq(S) => f[i] = step[i][f[i - 1]]
  <2>1. \A i \in 0..n : f[i] = IF i = 0 THEN <<>> ELSE Step(i, f[i - 1])
    BY <1>8
  <2>2. 0 \in 0..n /\ \A i \in 1..n : i \in 0..n /\ i # 0
    BY <1>1
  <2> HIDE DEF Body
  <2> QED
    BY <1>2, <2>1, <2>2
<1>10. n \in 0..n
  BY <1>1
<1>11. f[n] = g[n]
  <2> DEFINE T == Seq(S)
  <2>1. n \in Nat /\ <<>> \in T /\ IsLoop(g, n, T, <<>>, step)
        /\ f[0] = <<>> /\ \A i \in 1..n : f[i - 1] \in T => f[i] = step[i][f[i - 1]]
    BY <1>1, <1>5, <1>9
  <2> HIDE DEF Body, T
  <2>2. \A i \in 0..n : f[i] = g[i]
    BY <2>1, LoopUnique
  <2> QED
    BY <1>10, <2>2
<1> QED
  BY <1>4, <1>6, <1>11 DEF IsKept, n, Step

\* A list is what another list has at the positions in P, "at" their sequence.
Picks(at, kept, list, P) ==
  /\ at \in [1..Len(kept) -> P]
  /\ \A k, l \in 1..Len(kept) : k < l => at[k] < at[l]
  /\ \A i \in P : \E k \in 1..Len(kept) : at[k] = i
  /\ \A k \in 1..Len(kept) : kept[k] = list[at[k]]

LEMMA KeptPicks ==
  ASSUME NEW S, NEW list \in Seq(S), NEW keep
  PROVE  /\ Kept(list, keep) \in Seq(S)
         /\ \E at : Picks(at, Kept(list, keep), list, keep \cap (1..Len(list)))
<1> DEFINE n == Len(list)
           P(i) == keep \cap (1..i)
<1>1. PICK g : IsKept(g, S, list, keep)
  BY KeptRounds
<1>2. n \in Nat /\ n \in 0..n
  OBVIOUS
<1> DEFINE Good == {i \in 0..n : \E at : Picks(at, g[i], list, P(i))}
<1>3. 0 \in Good
  <2>1. g[0] = <<>>
    BY <1>1 DEF IsKept
  <2>2. Picks([k \in 1..0 |-> 0], <<>>, list, P(0))
    BY DEF Picks
  <2> QED
    BY <2>1, <2>2, <1>2
<1>4. ASSUME NEW i \in (0 + 1)..n, i - 1 \in Good PROVE i \in Good
  <2>1. PICK at : Picks(at, g[i - 1], list, P(i - 1))
    BY <1>4
  <2>2. i \in 1..n /\ i - 1 \in 0..n /\ i \in 0..n
    BY <1>2
  <2>3. /\ g[i - 1] \in Seq(S) /\ list[i] \in S
        /\ i \in keep => g[i] = Append(g[i - 1], list[i])
        /\ i \notin keep => g[i] = g[i - 1]
    <3>1. g \in [0..n -> Seq(S)] /\ g[i - 1] \in Seq(S)
      BY <1>1, <2>2 DEF IsKept
    <3>2. g[i] = IF i \in keep THEN Append(g[i - 1], list[i]) ELSE g[i - 1]
      BY <1>1, <2>2 DEF IsKept
    <3>3. list[i] \in S
      BY <2>2
    <3> QED
      BY <3>1, <3>2, <3>3
  <2>4. CASE i \notin keep
    <3>1. P(i) = P(i - 1) /\ g[i] = g[i - 1]
      BY <2>2, <2>3, <2>4
    <3> QED
      BY <2>1, <2>2, <3>1
  <2>5. CASE i \in keep
    <3> DEFINE m == Len(g[i - 1])
               up == [k \in 1..(m + 1) |-> IF k = m + 1 THEN i ELSE at[k]]
    <3>1. g[i] = Append(g[i - 1], list[i]) /\ m \in Nat /\ Len(g[i]) = m + 1
      BY <2>3, <2>5
    <3>2. P(i) = P(i - 1) \cup {i} /\ \A j \in P(i - 1) : j < i
      BY <2>2, <2>5
    <3>3. \A k \in 1..m : at[k] \in P(i - 1) /\ up[k] = at[k] /\ g[i][k] = g[i - 1][k]
      <4>1. \A k \in 1..m : at[k] \in P(i - 1)
        <5> HIDE DEF P
        <5> QED
          BY <2>1 DEF Picks
      <4>2. \A k \in 1..m : up[k] = at[k]
        BY <3>1
      <4>3. \A k \in 1..m : g[i][k] = g[i - 1][k]
        BY <2>3, <3>1
      <4> QED
        BY <4>1, <4>2, <4>3
    <3>4. up[m + 1] = i /\ g[i][m + 1] = list[i] /\ 1..(m + 1) = (1..m) \cup {m + 1}
      BY <2>3, <3>1
    <3>5. up \in [1..(m + 1) -> P(i)]
      BY <3>2, <3>3, <3>4
    <3>6. ASSUME NEW k \in 1..(m + 1), NEW l \in 1..(m + 1), k < l PROVE up[k] < up[l]
      <4>1. k \in 1..m
        BY <3>1, <3>6
      <4>2. CASE l \in 1..m
        BY <2>1, <3>3, <3>6, <4>1, <4>2 DEF Picks
      <4>3. CASE l = m + 1
        BY <3>2, <3>3, <3>4, <4>1, <4>3
      <4> QED
        BY <3>4, <4>2, <4>3
    <3>7. ASSUME NEW j \in P(i) PROVE \E k \in 1..(m + 1) : up[k] = j
      <4>1. CASE j = i
        BY <3>1, <3>4, <4>1
      <4>2. CASE j \in P(i - 1)
        <5>1. PICK k \in 1..m : at[k] = j
          BY <2>1, <4>2 DEF Picks
        <5> QED
          BY <3>3, <3>4, <5>1
      <4> QED
        BY <3>2, <4>1, <4>2
    <3>8. \A k \in 1..(m + 1) : g[i][k] = list[up[k]]
      BY <2>1, <3>3, <3>4 DEF Picks
    <3>9. Picks(up, g[i], list, P(i))
      <4> HIDE DEF up, P, m
      <4> QED
        BY <3>1, <3>5, <3>6, <3>7, <3>8 DEF Picks
    <3> QED
      BY <2>2, <3>9
  <2> QED
    BY <2>4, <2>5
<1>5. n \in Good
  <2> HIDE DEF Good
  <2> QED
    BY <1>2, <1>3, <1>4, RoundInduction
<1> QED
  BY <1>1, <1>2, <1>5 DEF IsKept

\* The members of a set of numbers, the smallest first.
InOrder(at, m, P) ==
  /\ m \in Nat /\ P \subseteq Nat
  /\ at \in [1..m -> P]
  /\ \A k, l \in 1..m : k < l => at[k] < at[l]
  /\ \A i \in P : \E k \in 1..m : at[k] = i

Alike(at, m, bt, n) == m = n /\ \A k \in 1..m : at[k] = bt[k]

LEMMA OrderUnique ==
  ASSUME NEW P, NEW m, NEW n, NEW at, InOrder(at, m, P), NEW bt, InOrder(bt, n, P)
  PROVE  Alike(at, m, bt, n)
<1>1. /\ m \in Nat /\ P \subseteq Nat
      /\ at \in [1..m -> P] /\ \A k, l \in 1..m : k < l => at[k] < at[l]
      /\ \A i \in P : \E k \in 1..m : at[k] = i
  BY DEF InOrder
<1>2. /\ n \in Nat
      /\ bt \in [1..n -> P] /\ \A k, l \in 1..n : k < l => bt[k] < bt[l]
      /\ \A i \in P : \E k \in 1..n : bt[k] = i
  BY DEF InOrder
<1>3. /\ m \in Nat /\ n \in Nat
      /\ \A k \in 1..m : at[k] \in Nat
      /\ \A k \in 1..n : bt[k] \in Nat
  <2>1. m \in Nat /\ n \in Nat
    BY <1>1, <1>2
  <2>2. \A i \in P : i \in Nat
    BY <1>1
  <2> QED
    BY <1>1, <1>2, <2>1, <2>2
<1>4. ASSUME NEW l \in Nat, l \in 1..m, l \in 1..n PROVE at[l] = bt[l]
  <2> DEFINE Differ == {k \in Nat : k \in 1..m /\ k \in 1..n /\ at[k] # bt[k]}
  <2> SUFFICES ASSUME Differ # {} PROVE FALSE
    BY <1>4
  <2>1. PICK k \in Differ : \A i \in Differ : k <= i
    <3>1. Differ \subseteq Nat
      OBVIOUS
    <3> HIDE DEF Differ
    <3> QED
      BY <3>1, LeastExists
  <2>2. /\ k \in Nat /\ k \in 1..m /\ k \in 1..n /\ at[k] \in P /\ bt[k] \in P
        /\ at[k] \in Nat /\ bt[k] \in Nat
    BY <1>1, <1>2, <1>3, <2>1
  <2>3. \A i \in Nat : i \in 1..m /\ i \in 1..n /\ i < k => at[i] = bt[i]
    BY <2>1, <2>2
  <2>4. PICK i \in 1..n : bt[i] = at[k]
    BY <1>2, <2>2
  <2>5. PICK j \in 1..m : at[j] = bt[k]
    BY <1>1, <2>2
  <2>6. ~(i < k)
    <3> SUFFICES ASSUME i < k PROVE FALSE
      OBVIOUS
    <3>1. i \in Nat /\ i \in 1..m
      BY <1>3, <2>2
    <3>2. at[i] < at[k] /\ at[i] = at[k]
      BY <1>1, <2>2, <2>3, <2>4, <3>1
    <3> QED
      BY <3>2, <2>2
  <2>7. ~(j < k)
    <3> SUFFICES ASSUME j < k PROVE FALSE
      OBVIOUS
    <3>1. j \in Nat /\ j \in 1..n
      BY <1>3, <2>2
    <3>2. bt[j] < bt[k] /\ bt[j] = bt[k]
      BY <1>2, <2>2, <2>3, <2>5, <3>1
    <3> QED
      BY <3>2, <2>2
  <2>8. i # k /\ j # k
    BY <2>1, <2>4, <2>5
  <2>9. bt[k] < at[k]
    BY <1>2, <1>3, <2>2, <2>4, <2>6, <2>8
  <2>10. at[k] < bt[k]
    BY <1>1, <1>3, <2>2, <2>5, <2>7, <2>8
  <2> QED
    BY <2>2, <2>9, <2>10
<1>5. ~(m < n)
  <2> SUFFICES ASSUME m < n PROVE FALSE
    OBVIOUS
  <2>1. m + 1 \in 1..n /\ bt[m + 1] \in P
    BY <1>2, <1>3
  <2>2. PICK k \in 1..m : at[k] = bt[m + 1]
    BY <1>1, <2>1
  <2>3. k \in 1..n /\ bt[k] = at[k] /\ bt[k] < bt[m + 1]
    BY <1>2, <1>3, <1>4, <2>1, <2>2
  <2> QED
    BY <1>3, <2>1, <2>2, <2>3
<1>6. ~(n < m)
  <2> SUFFICES ASSUME n < m PROVE FALSE
    OBVIOUS
  <2>1. n + 1 \in 1..m /\ at[n + 1] \in P
    BY <1>1, <1>3
  <2>2. PICK k \in 1..n : bt[k] = at[n + 1]
    BY <1>2, <2>1
  <2>3. k \in 1..m /\ bt[k] = at[k] /\ at[k] < at[n + 1]
    BY <1>1, <1>3, <1>4, <2>1, <2>2
  <2> QED
    BY <1>3, <2>1, <2>2, <2>3
<1>7. m = n
  BY <1>3, <1>5, <1>6
<1>8. \A k \in 1..m : at[k] = bt[k]
  BY <1>3, <1>4, <1>7
<1> QED
  BY <1>7, <1>8 DEF Alike

\* The positions determine the list.
LEMMA PicksUnique ==
  ASSUME NEW at, NEW kept, NEW list, NEW P, Picks(at, kept, list, P),
         NEW bt, NEW other, NEW list2, Picks(bt, other, list2, P),
         P \subseteq Nat, Len(kept) \in Nat, Len(other) \in Nat
  PROVE  Len(kept) = Len(other) /\ \A k \in 1..Len(kept) : at[k] = bt[k]
<1> DEFINE m == Len(kept)
           n == Len(other)
<1>1. InOrder(at, m, P) /\ InOrder(bt, n, P)
  BY DEF Picks, InOrder
<1>2. m \in Nat /\ n \in Nat
  OBVIOUS
<1> HIDE DEF m, n
<1>3. Alike(at, m, bt, n)
  BY <1>1, OrderUnique
<1> QED
  BY <1>3 DEF Alike, m, n

\* A list keeps as many elements as there are positions to keep.
LEMMA PicksCount ==
  ASSUME NEW at, NEW kept, NEW list, NEW P, Picks(at, kept, list, P),
         P \subseteq Nat, Len(kept) \in Nat
  PROVE  IsFiniteSet(P) /\ Cardinality(P) = Len(kept)
<1> DEFINE m == Len(kept)
<1>1. /\ at \in [1..m -> P] /\ \A k, l \in 1..m : k < l => at[k] < at[l]
      /\ \A i \in P : \E k \in 1..m : at[k] = i
  BY DEF Picks
<1>2. m \in Nat
  OBVIOUS
<1> HIDE DEF m
<1>3. \A k \in 1..m : at[k] \in Nat
  BY <1>1
<1>4. \A k, l \in 1..m : at[k] = at[l] => k = l
  <2> SUFFICES ASSUME NEW k \in 1..m, NEW l \in 1..m, at[k] = at[l] PROVE k = l
    OBVIOUS
  <2>1. ~(k < l) /\ ~(l < k)
    BY <1>1, <1>3
  <2> QED
    BY <1>2, <2>1
<1>5. at \in Bijection(1..m, P)
  BY <1>1, <1>4 DEF Bijection, Injection, Surjection, IsInjective
<1>6. IsFiniteSet(1..m) /\ Cardinality(1..m) = m
  BY <1>2, FS_Interval
<1> QED
  BY <1>5, <1>6, FS_Bijection DEF ExistsBijection, m

LEMMA KeptLen ==
  ASSUME NEW S, NEW list \in Seq(S), NEW keep
  PROVE  Len(Kept(list, keep)) = Cardinality(keep \cap (1..Len(list)))
<1>1. PICK at : Picks(at, Kept(list, keep), list, keep \cap (1..Len(list)))
  BY KeptPicks
<1>2. Len(Kept(list, keep)) \in Nat
  BY KeptPicks, LenProperties
<1>3. keep \cap (1..Len(list)) \subseteq Nat
  OBVIOUS
<1> QED
  BY <1>1, <1>2, <1>3, PicksCount

\* A list that has the same elements at the same positions is what is kept.
LEMMA KeptIs ==
  ASSUME NEW S, NEW list \in Seq(S), NEW keep, NEW other \in Seq(S),
         NEW at, Picks(at, other, list, keep \cap (1..Len(list)))
  PROVE  other = Kept(list, keep)
<1>1. PICK bt : Picks(bt, Kept(list, keep), list, keep \cap (1..Len(list)))
  BY KeptPicks
<1>2. Kept(list, keep) \in Seq(S)
  BY KeptPicks
<1>3. Len(Kept(list, keep)) \in Nat /\ Len(other) \in Nat
  BY <1>2, LenProperties
<1>4. keep \cap (1..Len(list)) \subseteq Nat
  OBVIOUS
<1>5. Len(other) = Len(Kept(list, keep)) /\ \A k \in 1..Len(other) : at[k] = bt[k]
  BY <1>1, <1>3, <1>4, PicksUnique
<1>6. \A k \in 1..Len(other) : other[k] = Kept(list, keep)[k]
  BY <1>1, <1>5 DEF Picks
<1> QED
  BY <1>2, <1>5, <1>6, SeqEqual

LEMMA KeptAll ==
  ASSUME NEW S, NEW list \in Seq(S), NEW keep, 1..Len(list) \subseteq keep
  PROVE  Kept(list, keep) = list
<1>1. keep \cap (1..Len(list)) = 1..Len(list)
  OBVIOUS
<1>2. Picks([k \in 1..Len(list) |-> k], list, list, 1..Len(list))
  BY DEF Picks
<1> QED
  BY <1>1, <1>2, KeptIs

LEMMA KeptNone ==
  ASSUME NEW S, NEW list \in Seq(S), NEW keep, keep \cap (1..Len(list)) = {}
  PROVE  Kept(list, keep) = <<>>
<1>1. Len(Kept(list, keep)) = 0
  BY KeptLen, FS_EmptySet
<1>2. Kept(list, keep) \in Seq(S)
  BY KeptPicks
<1> QED
  BY <1>1, <1>2

\* A total, round by round.
IsTotal(g, numbers) ==
  /\ g \in [0..Len(numbers) -> Int]
  /\ g[0] = 0
  /\ \A i \in 1..Len(numbers) : g[i] = g[i - 1] + numbers[i]

LEMMA TotalExists ==
  ASSUME NEW numbers \in Seq(Int)
  PROVE  \E g : IsTotal(g, numbers) /\ SumOf(numbers) = g[Len(numbers)]
<1> DEFINE n == Len(numbers)
           step == [i \in 1..n |-> [s \in Int |-> s + numbers[i]]]
           Body(f) == [i \in 0..n |-> IF i = 0 THEN 0 ELSE f[i - 1] + numbers[i]]
           f == CHOOSE p : p = Body(p)
<1>1. n \in Nat /\ \A i \in 1..n : numbers[i] \in Int
  OBVIOUS
<1>2. \A i \in 1..n, s \in Int : s + numbers[i] \in Int /\ step[i][s] = s + numbers[i]
  BY <1>1
<1>3. step \in [1..n -> [Int -> Int]]
  BY <1>2
<1>4. SumOf(numbers) = f[n]
  BY DEF SumOf
<1> HIDE DEF step, n
<1>5. PICK g : IsLoop(g, n, Int, 0, step)
  <2> DEFINE T == Int
  <2>1. 0 \in T /\ step \in [1..n -> [T -> T]]
    BY <1>3
  <2> HIDE DEF T
  <2>2. \E g : IsLoop(g, n, T, 0, step)
    BY <1>1, <2>1, LoopExists
  <2> QED
    BY <2>2 DEF T
<1>6. g \in [0..n -> Int] /\ g[0] = 0 /\ \A i \in 1..n : g[i] = g[i - 1] + numbers[i]
  <2>1. \A i \in 1..n : i - 1 \in 0..n
    BY <1>1
  <2> QED
    BY <1>2, <1>5, <2>1 DEF IsLoop
<1>7. g = Body(g)
  <2>1. \A i \in 0..n : g[i] = Body(g)[i]
    BY <1>1, <1>6
  <2> QED
    BY <1>6, <2>1
<1>8. f = Body(f)
  <2> HIDE DEF Body
  <2> QED
    BY <1>7
<1> HIDE DEF f
<1>9. f[0] = 0 /\ \A i \in 1..n : f[i - 1] \in Int => f[i] = step[i][f[i - 1]]
  <2>1. \A i \in 0..n : f[i] = IF i = 0 THEN 0 ELSE f[i - 1] + numbers[i]
    BY <1>8
  <2>2. 0 \in 0..n /\ \A i \in 1..n : i \in 0..n /\ i # 0
    BY <1>1
  <2> HIDE DEF Body
  <2> QED
    BY <1>2, <2>1, <2>2
<1>10. \A i \in 0..n : f[i] = g[i]
  <2> DEFINE T == Int
  <2>1. 0 \in T /\ IsLoop(g, n, T, 0, step)
        /\ f[0] = 0 /\ \A i \in 1..n : f[i - 1] \in T => f[i] = step[i][f[i - 1]]
    BY <1>5, <1>9
  <2> HIDE DEF Body, T
  <2> QED
    BY <1>1, <2>1, LoopUnique
<1> QED
  BY <1>1, <1>4, <1>6, <1>10 DEF IsTotal, n

\* Totals of lists that agree so far agree so far.
LEMMA TotalsAgree ==
  ASSUME NEW s \in Seq(Int), NEW t \in Seq(Int), NEW g, IsTotal(g, s), NEW h, IsTotal(h, t),
         NEW m \in Nat, m <= Len(s), m <= Len(t), \A i \in 1..m : s[i] = t[i]
  PROVE  g[m] = h[m]
<1> DEFINE Good == {i \in 0..m : g[i] = h[i]}
<1>1. 0 \in Good
  BY DEF IsTotal
<1>2. ASSUME NEW i \in (0 + 1)..m, i - 1 \in Good PROVE i \in Good
  <2>1. i \in 1..m /\ i \in 1..Len(s) /\ i \in 1..Len(t) /\ i \in 0..m /\ g[i - 1] = h[i - 1]
    BY <1>2
  <2>2. g[i] = g[i - 1] + s[i] /\ h[i] = h[i - 1] + t[i]
    BY <2>1 DEF IsTotal
  <2> QED
    BY <2>1, <2>2
<1>3. m \in Good
  <2>1. m \in 0..m
    OBVIOUS
  <2> HIDE DEF Good
  <2>2. 0..m \subseteq Good
    BY <1>1, <1>2, RoundInduction
  <2> QED
    BY <2>1, <2>2
<1> QED
  BY <1>3

LEMMA SumAppend ==
  ASSUME NEW s \in Seq(Int), NEW x \in Int
  PROVE  SumOf(s) \in Int /\ SumOf(Append(s, x)) = SumOf(s) + x
<1> DEFINE t == Append(s, x)
           n == Len(s)
<1>1. t \in Seq(Int) /\ Len(t) = n + 1 /\ n \in Nat /\ t[n + 1] = x
      /\ \A i \in 1..n : s[i] = t[i]
  OBVIOUS
<1> HIDE DEF t
<1>2. PICK g : IsTotal(g, s) /\ SumOf(s) = g[n]
  BY TotalExists
<1>3. PICK h : IsTotal(h, t) /\ SumOf(t) = h[n + 1]
  BY <1>1, TotalExists
<1>4. g[n] = h[n]
  <2>1. n <= Len(s) /\ n <= Len(t) /\ n \in Nat
    BY <1>1
  <2>2. IsTotal(g, s) /\ IsTotal(h, t)
    BY <1>2, <1>3
  <2> HIDE DEF n
  <2> QED
    BY <1>1, <2>1, <2>2, TotalsAgree
<1>5. h[n + 1] = h[n] + x
  <2>1. n + 1 \in 1..Len(t) /\ (n + 1) - 1 = n
    BY <1>1
  <2> QED
    BY <1>1, <1>3, <2>1 DEF IsTotal
<1>6. g[n] \in Int
  BY <1>1, <1>2 DEF IsTotal
<1> QED
  BY <1>2, <1>3, <1>4, <1>5, <1>6 DEF t

\* A part of a list.
LEMMA SubSeqFacts ==
  ASSUME NEW S, NEW s \in Seq(S), NEW m \in Nat, NEW n \in Nat, 1 <= m, m <= n + 1, n <= Len(s)
  PROVE  /\ SubSeq(s, m, n) \in Seq(S)
         /\ Len(SubSeq(s, m, n)) = n - m + 1
         /\ DOMAIN SubSeq(s, m, n) = 1..(n - m + 1)
         /\ \A k \in 1..(n - m + 1) : SubSeq(s, m, n)[k] = s[m + k - 1] /\ m + k - 1 \in 1..Len(s)
<1>1. \A i \in m..n : s[i] \in S
  BY ElementOfSeq, LenProperties
<1>2. /\ SubSeq(s, m, n) \in Seq(S)
      /\ Len(SubSeq(s, m, n)) = IF m <= n THEN n - m + 1 ELSE 0
      /\ \A i \in 1..(n - m + 1) : SubSeq(s, m, n)[i] = s[m + i - 1]
  <2>1. m \in Int /\ n \in Int
    OBVIOUS
  <2> QED
    BY <1>1, <2>1, SubSeqProperties
<1>3. Len(SubSeq(s, m, n)) = n - m + 1
  BY <1>2
<1>4. Len(s) \in Nat /\ \A k \in 1..(n - m + 1) : m + k - 1 \in 1..Len(s)
  BY LenProperties
<1> QED
  BY <1>2, <1>3, <1>4, LenProperties

\* Sets of rounds have a last element.
LEMMA GreatestExists ==
  ASSUME NEW m \in Nat, NEW S, S \subseteq 0..m, S # {}
  PROVE  \E x \in S : \A y \in S : y <= x
<1> DEFINE T == {m - x : x \in S}
<1>1. T \subseteq Nat /\ T # {}
  <2>1. \A x \in S : m - x \in Nat
    OBVIOUS
  <2> QED
    BY <2>1
<1>2. PICK a \in T : \A b \in T : a <= b
  <2> HIDE DEF T
  <2> QED
    BY <1>1, LeastExists
<1>3. PICK x \in S : a = m - x
  OBVIOUS
<1>4. ASSUME NEW y \in S PROVE y <= x
  <2>1. m - x <= m - y
    BY <1>2, <1>3
  <2> QED
    BY <2>1
<1> QED
  BY <1>4

LEMMA KeptElements ==
  ASSUME NEW S, NEW list \in Seq(S), NEW keep, NEW k \in DOMAIN Kept(list, keep)
  PROVE  \E i \in keep \cap (1..Len(list)) : Kept(list, keep)[k] = list[i]
<1>1. PICK at : Picks(at, Kept(list, keep), list, keep \cap (1..Len(list)))
  BY KeptPicks
<1>2. k \in 1..Len(Kept(list, keep))
  BY KeptPicks, LenProperties
<1> QED
  BY <1>1, <1>2 DEF Picks

\* The lists that have been put together, round by round.
IsJoined(g, S, lists) ==
  /\ g \in [0..Len(lists) -> Seq(S)]
  /\ g[0] = <<>>
  /\ \A i \in 1..Len(lists) : g[i] = g[i - 1] \o lists[i]
  /\ Joined(lists) = g[Len(lists)]

LEMMA JoinedRounds ==
  ASSUME NEW S, NEW lists \in Seq(Seq(S))
  PROVE  \E g : IsJoined(g, S, lists)
<1> DEFINE n == Len(lists)
           T == Seq(S)
           step == [i \in 1..n |-> [s \in T |-> s \o lists[i]]]
           Body(p) == [i \in 0..n |-> IF i = 0 THEN <<>> ELSE p[i - 1] \o lists[i]]
           f == CHOOSE p : p = Body(p)
<1>1. n \in Nat /\ <<>> \in T /\ \A i \in 1..n : lists[i] \in T
  OBVIOUS
<1>2. \A i \in 1..n, s \in T : s \o lists[i] \in T /\ step[i][s] = s \o lists[i]
  BY <1>1
<1>3. step \in [1..n -> [T -> T]]
  <2>1. \A i \in 1..n, s \in T : s \o lists[i] \in T
    BY <1>2
  <2> HIDE DEF T
  <2> QED
    BY <2>1
<1>4. Joined(lists) = f[n]
  BY DEF Joined
<1> HIDE DEF step, n, T
<1>5. PICK g : IsLoop(g, n, T, <<>>, step)
  BY <1>1, <1>3, LoopExists
<1>6. g \in [0..n -> T] /\ g[0] = <<>> /\ \A i \in 1..n : g[i] = g[i - 1] \o lists[i]
  <2>1. \A i \in 1..n : i - 1 \in 0..n
    BY <1>1
  <2> QED
    BY <1>2, <1>5, <2>1 DEF IsLoop
<1>7. g = Body(g)
  <2>1. \A i \in 0..n : g[i] = Body(g)[i]
    BY <1>1, <1>6
  <2> QED
    BY <1>6, <2>1
<1>8. f = Body(f)
  <2> HIDE DEF Body
  <2> QED
    BY <1>7
<1> HIDE DEF f
<1>9. f[0] = <<>> /\ \A i \in 1..n : f[i - 1] \in T => f[i] = step[i][f[i - 1]]
  <2>1. \A i \in 0..n : f[i] = IF i = 0 THEN <<>> ELSE f[i - 1] \o lists[i]
    BY <1>8
  <2>2. 0 \in 0..n /\ \A i \in 1..n : i \in 0..n /\ i # 0
    BY <1>1
  <2> HIDE DEF Body
  <2> QED
    BY <1>2, <2>1, <2>2
<1>10. f[n] = g[n]
  <2>1. n \in 0..n
    BY <1>1
  <2> HIDE DEF Body
  <2>2. \A i \in 0..n : f[i] = g[i]
    BY <1>1, <1>5, <1>9, LoopUnique
  <2> QED
    BY <2>1, <2>2
<1> QED
  BY <1>4, <1>6, <1>10 DEF IsJoined, n, T

-----------------------------------------------------------------------------
(* Sorting. *)

\* A strict order of all positions up to n.
IsOrder(before, n) ==
  /\ \A i \in 1..n : <<i, i>> \notin before
  /\ \A i, j \in 1..n : i = j \/ <<i, j>> \in before \/ <<j, i>> \in before
  /\ \A i, j, k \in 1..n : <<i, j>> \in before /\ <<j, k>> \in before => <<i, k>> \in before

Lower(i, before, n) == {j \in 1..n : <<j, i>> \in before}
Rank(i, before, n) == Cardinality(Lower(i, before, n))

LEMMA RankFacts ==
  ASSUME NEW n \in Nat, NEW before, IsOrder(before, n)
  PROVE  /\ \A i \in 1..n : Rank(i, before, n) \in 0..(n - 1)
         /\ \A i, j \in 1..n : <<i, j>> \in before => Rank(i, before, n) < Rank(j, before, n)
<1> DEFINE B(i) == Lower(i, before, n)
<1>1. IsFiniteSet(1..n) /\ Cardinality(1..n) = n
  BY FS_Interval
<1>2. \A i : B(i) \subseteq 1..n
  BY DEF Lower
<1>3. \A i : IsFiniteSet(B(i)) /\ Cardinality(B(i)) \in Nat /\ Cardinality(B(i)) <= n
        /\ (Cardinality(B(i)) = n => B(i) = 1..n)
  BY <1>1, <1>2, FS_Subset, FS_CardinalityType
<1>4. ASSUME NEW i \in 1..n PROVE Rank(i, before, n) \in 0..(n - 1)
  <2>1. i \notin B(i)
    BY DEF IsOrder, Lower
  <2>2. Cardinality(B(i)) # n
    BY <1>3, <2>1
  <2> DEFINE r == Cardinality(B(i))
  <2>3. r \in Nat /\ r <= n /\ r # n
    BY <1>3, <2>2
  <2> HIDE DEF r
  <2>4. r \in 0..(n - 1)
    BY <2>3
  <2> QED
    BY <2>4 DEF r, Rank
<1>5. ASSUME NEW i \in 1..n, NEW j \in 1..n, <<i, j>> \in before
      PROVE  Rank(i, before, n) < Rank(j, before, n)
  <2>1. B(i) \subseteq B(j)
    BY <1>5 DEF IsOrder, Lower
  <2>2. i \in B(j) /\ i \notin B(i)
    BY <1>5 DEF IsOrder, Lower
  <2> DEFINE I == B(i)
             J == B(j)
  <2>3. IsFiniteSet(J) /\ I \subseteq J /\ I # J /\ Cardinality(I) \in Nat /\ Cardinality(J) \in Nat
    BY <1>3, <2>1, <2>2
  <2>4. Cardinality(I) <= Cardinality(J) /\ Cardinality(I) # Cardinality(J)
    <3> HIDE DEF I, J
    <3>1. Cardinality(I) <= Cardinality(J) /\ (Cardinality(J) = Cardinality(I) => J = I)
      BY <2>3, FS_Subset
    <3> QED
      BY <2>3, <3>1
  <2> DEFINE a == Cardinality(I)
             b == Cardinality(J)
  <2>5. a \in Nat /\ b \in Nat /\ a <= b /\ a # b
    BY <2>3, <2>4
  <2> HIDE DEF a, b
  <2>6. a < b
    BY <2>5
  <2> QED
    BY <2>6 DEF a, b, Rank
<1> QED
  BY <1>4, <1>5

\* Every rank is taken: the list comes in another order, and nothing is lost.
IsArrangement(at, n) ==
  /\ at \in [1..n -> 1..n]
  /\ \A k, l \in 1..n : k # l => at[k] # at[l]
  /\ \A i \in 1..n : \E k \in 1..n : at[k] = i

Ranked(before, n) == [k \in 1..n |-> CHOOSE i \in 1..n : Rank(i, before, n) = k - 1]

LEMMA RanksAreTaken ==
  ASSUME NEW n \in Nat, NEW before, IsOrder(before, n)
  PROVE  /\ IsArrangement(Ranked(before, n), n)
         /\ \A k, l \in 1..n : k < l => <<Ranked(before, n)[k], Ranked(before, n)[l]>> \in before
<1> DEFINE at == Ranked(before, n)
           f == [i \in 1..n |-> Rank(i, before, n)]
           S == 1..n
           T == 0..(n - 1)
<1>1. f \in [S -> T]
  BY RankFacts
<1>2. \A i, j \in S : i # j => f[i] # f[j]
  <2> TAKE i, j \in S
  <2> HAVE i # j
  <2>1. <<i, j>> \in before \/ <<j, i>> \in before
    BY DEF IsOrder
  <2>2. f[i] \in Nat /\ f[j] \in Nat
    BY <1>1
  <2>3. f[i] < f[j] \/ f[j] < f[i]
    BY <2>1, RankFacts
  <2> QED
    BY <2>2, <2>3
<1>3. f \in Injection(S, T)
  <2> HIDE DEF f, S, T
  <2> QED
    BY <1>1, <1>2 DEF Injection, IsInjective
<1>4. IsFiniteSet(T) /\ Cardinality(T) = n /\ Cardinality(S) = n
  <2>1. n - 1 \in Int /\ 0 \in Int /\ 1 \in Int /\ n \in Int
    OBVIOUS
  <2>2. Cardinality(0..(n - 1)) = IF 0 > n - 1 THEN 0 ELSE (n - 1) - 0 + 1
    BY <2>1, FS_Interval
  <2>3. Cardinality(1..n) = IF 1 > n THEN 0 ELSE n - 1 + 1
    BY <2>1, FS_Interval
  <2> QED
    BY <2>1, <2>2, <2>3, FS_Interval
<1>5. f \in Surjection(S, T)
  <2> HIDE DEF f, S, T
  <2> QED
    BY <1>3, <1>4, FS_Injection
<1>6. \A k \in 1..n : \E i \in 1..n : Rank(i, before, n) = k - 1
  <2> TAKE k \in 1..n
  <2>1. k - 1 \in T
    OBVIOUS
  <2>2. \E i \in S : f[i] = k - 1
    <3> HIDE DEF f, S, T
    <3> QED
      BY <1>5, <2>1 DEF Surjection
  <2> QED
    BY <2>2
<1>7. \A k \in 1..n : at[k] \in 1..n /\ Rank(at[k], before, n) = k - 1
  BY <1>6 DEF Ranked
<1> HIDE DEF at
<1>8. \A k, l \in 1..n : k # l => at[k] # at[l]
  BY <1>7
<1>9. ASSUME NEW i \in 1..n PROVE \E k \in 1..n : at[k] = i
  <2> DEFINE k == Rank(i, before, n) + 1
  <2>1. k \in 1..n /\ k - 1 = Rank(i, before, n)
    <3> DEFINE r == Rank(i, before, n)
    <3>1. r \in 0..(n - 1)
      BY RankFacts
    <3> HIDE DEF r
    <3>2. r + 1 \in 1..n /\ (r + 1) - 1 = r
      BY <3>1
    <3> QED
      BY <3>2 DEF r
  <2> HIDE DEF k
  <2>2. f[at[k]] = f[i] /\ at[k] \in S
    BY <1>7, <2>1
  <2>3. at[k] = i
    <3> HIDE DEF f
    <3> QED
      BY <1>2, <2>2
  <2> QED
    BY <2>1, <2>3
<1>10. ASSUME NEW k \in 1..n, NEW l \in 1..n, k < l PROVE <<at[k], at[l]>> \in before
  <2>1. at[k] \in 1..n /\ at[l] \in 1..n /\ at[k] # at[l]
    BY <1>7, <1>8, <1>10
  <2>2. ~(<<at[l], at[k]>> \in before)
    <3> SUFFICES ASSUME <<at[l], at[k]>> \in before PROVE FALSE
      OBVIOUS
    <3>1. Rank(at[l], before, n) < Rank(at[k], before, n)
      BY <2>1, RankFacts
    <3>2. l - 1 < k - 1
      BY <1>7, <3>1
    <3> QED
      BY <1>10, <3>2
  <2> QED
    BY <2>1, <2>2 DEF IsOrder
<1> QED
  <2>1. at = [k \in 1..n |-> at[k]]
    BY DEF at, Ranked
  <2>2. IsArrangement(at, n)
    BY <1>7, <1>8, <1>9, <2>1 DEF IsArrangement
  <2> QED
    BY <1>10, <2>2 DEF at

LEMMA ArrangedFacts ==
  ASSUME NEW S, NEW list \in Seq(S), NEW before, IsOrder(before, Len(list))
  PROVE  /\ Arranged(list, before) \in Seq(S) /\ Len(Arranged(list, before)) = Len(list)
         /\ \E at : /\ IsArrangement(at, Len(list))
                    /\ \A k, l \in 1..Len(list) : k < l => <<at[k], at[l]>> \in before
                    /\ \A k \in 1..Len(list) : Arranged(list, before)[k] = list[at[k]]
<1> DEFINE n == Len(list)
           at == Ranked(before, n)
<1>1. n \in Nat /\ DOMAIN list = 1..n
  OBVIOUS
<1>2. IsArrangement(at, n) /\ \A k, l \in 1..n : k < l => <<at[k], at[l]>> \in before
  BY <1>1, RanksAreTaken
<1>3. Arranged(list, before) = [k \in 1..n |-> list[at[k]]]
  BY <1>1 DEF Arranged, Ranked, Rank, Lower
<1> HIDE DEF at
<1>4. \A k \in 1..n : at[k] \in 1..n /\ list[at[k]] \in S
  BY <1>1, <1>2 DEF IsArrangement
<1> DEFINE sorted == [k \in 1..n |-> list[at[k]]]
<1>5. sorted \in Seq(S) /\ Len(sorted) = n
  <2>1. sorted \in [1..n -> S]
    BY <1>4
  <2> HIDE DEF sorted, n
  <2> QED
    BY <1>1, <2>1
<1> QED
  BY <1>2, <1>3, <1>5

\* A stable sort by a weak order puts all positions in order, and what comes
\* first is at most what follows.
LEMMA StableOrderFacts ==
  ASSUME NEW n \in Nat, NEW le,
         \A i, j \in 1..n : <<i, j>> \in le \/ <<j, i>> \in le,
         \A i, j, k \in 1..n : <<i, j>> \in le /\ <<j, k>> \in le => <<i, k>> \in le
  PROVE  /\ IsOrder(StableOrder(n, le), n)
         /\ \A i, j \in 1..n : <<i, j>> \in StableOrder(n, le) => <<i, j>> \in le
<1>1. \A i, j \in 1..n :
        <<i, j>> \in StableOrder(n, le) <=> IF i < j THEN <<i, j>> \in le ELSE i # j /\ <<j, i>> \notin le
  BY DEF StableOrder
<1> DEFINE B(i, j) == <<i, j>> \in StableOrder(n, le)
           L(i, j) == <<i, j>> \in le
<1> HIDE DEF B, L
<1>2. \A i, j \in 1..n : B(i, j) <=> IF i < j THEN L(i, j) ELSE i # j /\ ~L(j, i)
  BY <1>1 DEF B, L
<1>3. /\ \A i, j \in 1..n : L(i, j) \/ L(j, i)
      /\ \A i, j, k \in 1..n : L(i, j) /\ L(j, k) => L(i, k)
  BY DEF L
<1>4. \A i \in 1..n : ~B(i, i)
  BY <1>2
<1>5. \A i, j \in 1..n : i = j \/ B(i, j) \/ B(j, i)
  BY <1>2, <1>3
<1>6. \A i, j, k \in 1..n : B(i, j) /\ B(j, k) => B(i, k)
  BY <1>2, <1>3
<1>7. \A i, j \in 1..n : B(i, j) => L(i, j)
  BY <1>2, <1>3
<1> QED
  BY <1>4, <1>5, <1>6, <1>7 DEF B, L, IsOrder

-----------------------------------------------------------------------------
(* Cutting a list up. *)

\* Pieces of the start of a list, each beginning where the one before it ends.
IsSplit(pieces, from, list) ==
  LET n == Len(pieces)
  IN  /\ from \in [1..(n + 1) -> Nat]
      /\ from[1] = 0 /\ from[n + 1] <= Len(list)
      /\ \A c \in 1..n :
           /\ Len(pieces[c]) \in Nat
           /\ from[c + 1] = from[c] + Len(pieces[c])
           /\ \A k \in 1..Len(pieces[c]) : pieces[c][k] = list[from[c] + k]

LEMMA SplitEmpty ==
  ASSUME NEW list, Len(list) \in Nat
  PROVE  IsSplit(<<>>, [c \in 1..1 |-> 0], list)
<1>1. Len(<<>>) = 0 /\ 1..0 = {} /\ 1..(0 + 1) = 1..1
  OBVIOUS
<1> QED
  BY <1>1 DEF IsSplit

LEMMA SplitAppend ==
  ASSUME NEW T, NEW pieces \in Seq(T), NEW from, NEW list, IsSplit(pieces, from, list), Len(list) \in Nat,
         NEW piece \in T, Len(piece) \in Nat, from[Len(pieces) + 1] + Len(piece) <= Len(list),
         \A k \in 1..Len(piece) : piece[k] = list[from[Len(pieces) + 1] + k]
  PROVE  \E next : /\ IsSplit(Append(pieces, piece), next, list)
                   /\ next[Len(pieces) + 2] = from[Len(pieces) + 1] + Len(piece)
<1> DEFINE n == Len(pieces)
           l == Len(piece)
           end == from[n + 1]
           next == [c \in 1..(n + 2) |-> IF c = n + 2 THEN end + l ELSE from[c]]
           all == Append(pieces, piece)
<1>1. n \in Nat /\ l \in Nat /\ end \in Nat /\ \A c \in 1..(n + 1) : from[c] \in Nat
  <2>1. n \in Nat /\ l \in Nat /\ from \in [1..(n + 1) -> Nat]
    BY DEF IsSplit
  <2>2. n + 1 \in 1..(n + 1)
    BY <2>1
  <2> QED
    BY <2>1, <2>2
<1>2. /\ Len(all) = n + 1 /\ all[n + 1] = piece
      /\ \A c \in 1..n : all[c] = pieces[c]
  OBVIOUS
<1>3. /\ from[1] = 0
      /\ \A c \in 1..n :
           /\ Len(pieces[c]) \in Nat
           /\ from[c + 1] = from[c] + Len(pieces[c])
           /\ \A k \in 1..Len(pieces[c]) : pieces[c][k] = list[from[c] + k]
  BY DEF IsSplit
<1>4. end + l <= Len(list) /\ \A k \in 1..l : piece[k] = list[end + k]
  OBVIOUS
<1> HIDE DEF n, l, all, end
<1>5. /\ next \in [1..(n + 2) -> Nat] /\ next[n + 2] = end + l /\ next[n + 1] = end
      /\ \A c \in 1..(n + 1) : next[c] = from[c]
  BY <1>1 DEF end
<1> HIDE DEF next
<1>6. next[1] = 0 /\ (n + 1) + 1 = n + 2 /\ next[(n + 1) + 1] <= Len(list)
  <2>1. 1 \in 1..(n + 1) /\ (n + 1) + 1 = n + 2
    BY <1>1
  <2> QED
    BY <1>3, <1>4, <1>5, <2>1
<1>7. ASSUME NEW c \in 1..(n + 1)
      PROVE  /\ Len(all[c]) \in Nat
             /\ next[c + 1] = next[c] + Len(all[c])
             /\ \A k \in 1..Len(all[c]) : all[c][k] = list[next[c] + k]
  <2>1. CASE c = n + 1
    <3>1. all[c] = piece /\ next[c] = end /\ c + 1 = n + 2
      BY <1>1, <1>2, <1>5, <2>1
    <3> QED
      BY <1>1, <1>4, <1>5, <3>1 DEF l
  <2>2. CASE c \in 1..n
    <3>1. all[c] = pieces[c] /\ next[c] = from[c] /\ c + 1 \in 1..(n + 1) /\ next[c + 1] = from[c + 1]
      BY <1>1, <1>2, <1>5, <2>2
    <3> QED
      BY <1>3, <2>2, <3>1
  <2> QED
    BY <1>1, <2>1, <2>2
<1>8. IsSplit(all, next, list)
  BY <1>1, <1>2, <1>5, <1>6, <1>7 DEF IsSplit
<1> QED
  BY <1>5, <1>8 DEF all, end, l, n

\* A place in the list is in one piece, and only there.
LEMMA SplitPlaces ==
  ASSUME NEW pieces, NEW from, NEW list, IsSplit(pieces, from, list), Len(pieces) \in Nat, Len(list) \in Nat
  PROVE  LET n == Len(pieces)
             Places == {p \in (1..n) \X (1..Len(list)) : p[2] <= Len(pieces[p[1]])}
         IN  /\ \A c \in 1..n : \A k \in 1..Len(pieces[c]) :
                  <<c, k>> \in Places /\ from[c] + k \in 1..from[n + 1]
             /\ \A j \in 1..from[n + 1] : \E c \in 1..n : \E k \in 1..Len(pieces[c]) : from[c] + k = j
             /\ \A c, d \in 1..n : \A k \in 1..Len(pieces[c]), l \in 1..Len(pieces[d]) :
                  from[c] + k = from[d] + l => c = d /\ k = l
             /\ \A c, d \in 1..n : c < d => from[c] + Len(pieces[c]) <= from[d]
<1> DEFINE n == Len(pieces)
           Places == {p \in (1..n) \X (1..Len(list)) : p[2] <= Len(pieces[p[1]])}
<1>1. /\ n \in Nat /\ from \in [1..(n + 1) -> Nat] /\ from[1] = 0 /\ from[n + 1] <= Len(list)
      /\ \A c \in 1..n :
           /\ Len(pieces[c]) \in Nat
           /\ from[c + 1] = from[c] + Len(pieces[c])
  BY DEF IsSplit
<1> HIDE DEF n
<1>2. \A c \in 1..n : c \in 1..(n + 1) /\ c + 1 \in 1..(n + 1) /\ from[c] \in Nat /\ from[c + 1] \in Nat
  BY <1>1
<1>3. ASSUME NEW c \in 1..n, NEW d \in (c + 1)..(n + 1) PROVE from[c] + Len(pieces[c]) <= from[d]
  <2> DEFINE Good == {e \in (c + 1)..(n + 1) : from[c + 1] <= from[e]}
             m == n + 1
  <2>1. c + 1 \in Good /\ c + 1 \in Nat /\ m \in Nat
    BY <1>1, <1>2
  <2>2. \A e \in (c + 1 + 1)..m : e - 1 \in Good => e \in Good
    <3> TAKE e \in (c + 1 + 1)..m
    <3> HAVE e - 1 \in Good
    <3>1. e - 1 \in 1..n /\ (e - 1) + 1 = e /\ e \in (c + 1)..(n + 1)
      BY <1>1
    <3>2. from[e] = from[e - 1] + Len(pieces[e - 1]) /\ Len(pieces[e - 1]) \in Nat
          /\ from[e - 1] \in Nat /\ from[e] \in Nat
      BY <1>1, <1>2, <3>1
    <3>3. from[c + 1] <= from[e - 1] /\ from[c + 1] \in Nat
      BY <1>2
    <3>4. from[c + 1] <= from[e]
      BY <3>2, <3>3
    <3> QED
      BY <3>1, <3>4
  <2>3. (c + 1)..m \subseteq Good
    <3> DEFINE a == c + 1
    <3>1. a \in Good /\ a \in Nat /\ m \in Nat /\ \A e \in (a + 1)..m : e - 1 \in Good => e \in Good
      BY <2>1, <2>2
    <3> HIDE DEF Good, m, a
    <3>2. a..m \subseteq Good
      BY <3>1, RoundInduction
    <3> QED
      BY <3>2 DEF a
  <2> QED
    BY <1>1, <2>3
<1>4. \A c, d \in 1..n : c < d => from[c] + Len(pieces[c]) <= from[d]
  <2> TAKE c, d \in 1..n
  <2> HAVE c < d
  <2>1. d \in (c + 1)..(n + 1)
    BY <1>1
  <2> QED
    BY <1>3, <2>1
<1>5. ASSUME NEW c \in 1..n, NEW k \in 1..Len(pieces[c])
      PROVE  <<c, k>> \in Places /\ from[c] + k \in 1..from[n + 1]
  <2> DEFINE l == Len(pieces[c])
             f == from[c]
             e == from[n + 1]
             z == Len(list)
  <2>1. l \in Nat /\ f \in Nat /\ e \in Nat /\ e <= z /\ z \in Nat
    BY <1>1, <1>2
  <2>2. f + l <= e
    <3>1. n + 1 \in (c + 1)..(n + 1)
      BY <1>1
    <3> QED
      BY <1>3, <3>1
  <2>3. k \in 1..z /\ f + k \in 1..e /\ k <= l
    <3> HIDE DEF l, f, e, z
    <3> QED
      BY <2>1, <2>2, <1>5 DEF l
  <2> QED
    BY <2>3
<1>6. ASSUME NEW j \in 1..from[n + 1]
      PROVE  \E c \in 1..n : \E k \in 1..Len(pieces[c]) : from[c] + k = j
  <2> DEFINE Over == {c \in 1..(n + 1) : j <= from[c]}
  <2>1. n + 1 \in 1..(n + 1) /\ from[n + 1] \in Nat /\ j \in Nat /\ 1 <= j /\ j <= from[n + 1]
    BY <1>1
  <2>2. Over \subseteq Nat /\ Over # {}
    <3>1. n + 1 \in Over
      BY <2>1
    <3>2. \A c \in Over : c \in Nat
      BY <1>1
    <3> QED
      BY <3>1, <3>2
  <2>3. PICK d \in Over : \A c \in Over : d <= c
    <3> HIDE DEF Over
    <3> QED
      BY <2>2, LeastExists
  <2>4. d # 1
    BY <1>1, <2>1, <2>3
  <2>5. d - 1 \in 1..n /\ (d - 1) + 1 = d
    BY <1>1, <2>3, <2>4
  <2>6. ~(j <= from[d - 1])
    <3>1. d - 1 \notin Over
      <4>1. ~(d <= d - 1)
        BY <2>2, <2>3
      <4> QED
        BY <2>3, <4>1
    <3>2. d - 1 \in 1..(n + 1)
      BY <1>2, <2>5
    <3> QED
      BY <3>1, <3>2
  <2> DEFINE f == from[d - 1]
             l == Len(pieces[d - 1])
  <2>7. f \in Nat /\ l \in Nat /\ from[d] = f + l /\ j <= from[d]
    BY <1>1, <1>2, <2>3, <2>5
  <2>8. j - f \in 1..l /\ f + (j - f) = j
    <3> HIDE DEF f, l
    <3> QED
      BY <2>1, <2>6, <2>7 DEF f
  <2> QED
    BY <2>5, <2>8
<1>7. ASSUME NEW c \in 1..n, NEW d \in 1..n, NEW k \in 1..Len(pieces[c]), NEW l \in 1..Len(pieces[d]),
             from[c] + k = from[d] + l
      PROVE  c = d /\ k = l
  <2>1. /\ from[c] \in Nat /\ from[d] \in Nat /\ Len(pieces[c]) \in Nat /\ Len(pieces[d]) \in Nat
        /\ k \in Nat /\ l \in Nat /\ 1 <= k /\ 1 <= l /\ k <= Len(pieces[c]) /\ l <= Len(pieces[d])
    BY <1>1, <1>2
  <2>2. ~(c < d)
    <3> SUFFICES ASSUME c < d PROVE FALSE
      OBVIOUS
    <3>1. from[c] + Len(pieces[c]) <= from[d]
      BY <1>4
    <3> QED
      BY <1>7, <2>1, <3>1
  <2>3. ~(d < c)
    <3> SUFFICES ASSUME d < c PROVE FALSE
      OBVIOUS
    <3>1. from[d] + Len(pieces[d]) <= from[c]
      BY <1>4
    <3> QED
      BY <1>7, <2>1, <3>1
  <2>4. c = d
    BY <1>1, <2>2, <2>3
  <2> QED
    BY <1>7, <2>1, <2>4
<1> HIDE DEF Places
<1> QED
  BY <1>4, <1>5, <1>6, <1>7 DEF n, Places

-----------------------------------------------------------------------------
(* Numbers: a set of them in order, and the bounds of a sum. *)

\* The numbers of a finite set come in order, each once.
LEMMA IncreasingFacts ==
  ASSUME NEW S, S \subseteq Int, IsFiniteSet(S)
  PROVE  LET n == Cardinality(S)
             s == Increasing(S)
         IN  /\ n \in Nat /\ s \in Seq(S) /\ Len(s) = n /\ DOMAIN s = 1..n
             /\ \A k, l \in 1..n : k < l => s[k] < s[l]
             /\ \A x \in S : \E k \in 1..n : s[k] = x
<1> DEFINE n == Cardinality(S)
           B(x) == {y \in S : y < x}
           f == [x \in S |-> Cardinality(B(x))]
           T == 0..(n - 1)
           s == Increasing(S)
<1>1. n \in Nat
  BY FS_CardinalityType
<1>2. \A x : IsFiniteSet(B(x)) /\ Cardinality(B(x)) \in Nat /\ Cardinality(B(x)) <= n
        /\ (Cardinality(B(x)) = n => B(x) = S)
  <2> TAKE x
  <2>1. B(x) \subseteq S
    OBVIOUS
  <2> HIDE DEF B
  <2> QED
    BY <2>1, FS_Subset, FS_CardinalityType
<1>3. ASSUME NEW x \in S PROVE Cardinality(B(x)) \in T
  <2>1. x \notin B(x)
    OBVIOUS
  <2> DEFINE r == Cardinality(B(x))
  <2>2. r \in Nat /\ r <= n /\ r # n
    BY <1>2, <2>1
  <2> HIDE DEF r, n
  <2>3. r \in T
    BY <1>1, <2>2
  <2> QED
    BY <2>3 DEF r
<1>4. ASSUME NEW x \in S, NEW y \in S, x < y
      PROVE  Cardinality(B(x)) < Cardinality(B(y))
  <2> DEFINE I == B(x)
             J == B(y)
  <2>1. I \subseteq J /\ x \in J /\ x \notin I
    <3>1. \A z \in S : z \in Int
      OBVIOUS
    <3>2. \A z \in S : z < x => z < y
      BY <1>4, <3>1
    <3>3. ~(x < x)
      BY <3>1
    <3> QED
      BY <1>4, <3>2, <3>3
  <2>2. IsFiniteSet(J) /\ I # J /\ Cardinality(I) \in Nat /\ Cardinality(J) \in Nat
    BY <1>2, <2>1
  <2>3. Cardinality(I) <= Cardinality(J) /\ Cardinality(I) # Cardinality(J)
    <3> HIDE DEF I, J
    <3>1. Cardinality(I) <= Cardinality(J) /\ (Cardinality(J) = Cardinality(I) => J = I)
      BY <2>1, <2>2, FS_Subset
    <3> QED
      BY <2>2, <3>1
  <2> DEFINE a == Cardinality(I)
             b == Cardinality(J)
  <2>4. a \in Nat /\ b \in Nat /\ a <= b /\ a # b
    BY <2>2, <2>3
  <2> HIDE DEF a, b
  <2>5. a < b
    BY <2>4
  <2> QED
    BY <2>5 DEF a, b
<1>5. f \in [S -> T] /\ \A x \in S : f[x] \in Nat
  BY <1>2, <1>3
<1>6. \A x, y \in S : x < y => f[x] < f[y]
  BY <1>4
<1>7. s = [k \in 1..n |-> CHOOSE x \in S : Cardinality(B(x)) = k - 1]
  BY DEF Increasing
<1> DEFINE C(x) == Cardinality(B(x))
<1>7a. s = [k \in 1..n |-> CHOOSE x \in S : C(x) = k - 1] /\ \A x \in S : f[x] = C(x)
  BY <1>7
<1> HIDE DEF f, s, C
<1>8. \A x, y \in S : x # y => f[x] # f[y]
  <2> TAKE x, y \in S
  <2> HAVE x # y
  <2>1. x < y \/ y < x
    OBVIOUS
  <2>2. f[x] < f[y] \/ f[y] < f[x]
    BY <1>6, <2>1
  <2> QED
    BY <1>5, <2>2
<1>9. f \in Injection(S, T)
  <2> HIDE DEF T
  <2> QED
    BY <1>5, <1>8 DEF Injection, IsInjective
<1>10. IsFiniteSet(T) /\ Cardinality(T) = n
  <2> HIDE DEF n
  <2>1. n - 1 \in Int /\ 0 \in Int
    BY <1>1
  <2>2. Cardinality(0..(n - 1)) = IF 0 > n - 1 THEN 0 ELSE (n - 1) - 0 + 1
    BY <2>1, FS_Interval
  <2> QED
    BY <1>1, <2>1, <2>2, FS_Interval
<1>11. f \in Surjection(S, T)
  <2> HIDE DEF T
  <2> QED
    BY <1>9, <1>10, FS_Injection
<1>12. \A k \in 1..n : s[k] \in S /\ f[s[k]] = k - 1
  <2> TAKE k \in 1..n
  <2>1. k - 1 \in T
    <3> HIDE DEF n
    <3> QED
      BY <1>1
  <2>2. \E x \in S : f[x] = k - 1
    <3> HIDE DEF T
    <3> QED
      BY <1>11, <2>1 DEF Surjection
  <2> QED
    BY <1>7a, <2>2
<1>13. s \in Seq(S) /\ Len(s) = n /\ DOMAIN s = 1..n
  <2>1. s \in [1..n -> S]
    BY <1>12, <1>7a
  <2> HIDE DEF n
  <2> QED
    BY <1>1, <2>1
<1>14. ASSUME NEW k \in 1..n, NEW l \in 1..n, k < l PROVE s[k] < s[l]
  <2>1. s[k] \in S /\ s[l] \in S /\ f[s[k]] = k - 1 /\ f[s[l]] = l - 1
    BY <1>12
  <2>2. s[k] < s[l] \/ s[k] = s[l] \/ s[l] < s[k]
    <3>1. s[k] \in Int /\ s[l] \in Int
      BY <2>1
    <3> QED
      BY <3>1
  <2>3. ~(f[s[l]] < f[s[k]]) /\ f[s[l]] # f[s[k]]
    <3> HIDE DEF n
    <3> QED
      BY <1>1, <1>14, <2>1
  <2> QED
    BY <1>6, <2>1, <2>2, <2>3
<1>15. ASSUME NEW x \in S PROVE \E k \in 1..n : s[k] = x
  <2> DEFINE k == f[x] + 1
  <2>1. f[x] \in T
    BY <1>5
  <2>2. k \in 1..n /\ k - 1 = f[x]
    <3> HIDE DEF n
    <3> QED
      BY <1>1, <2>1
  <2> HIDE DEF k
  <2>3. s[k] \in S /\ f[s[k]] = f[x]
    BY <1>12, <2>2
  <2>4. s[k] = x
    BY <1>8, <2>3
  <2> QED
    BY <2>2, <2>4
<1> QED
  BY <1>1, <1>13, <1>14, <1>15 DEF s

\* A sum lies between as many times the least and the greatest number.
LEMMA SumBetween ==
  ASSUME NEW numbers \in Seq(Int), NEW low \in Int, NEW high \in Int,
         \A i \in 1..Len(numbers) : low <= numbers[i] /\ numbers[i] <= high
  PROVE  /\ SumOf(numbers) \in Int
         /\ Len(numbers) * low <= SumOf(numbers) /\ SumOf(numbers) <= Len(numbers) * high
<1> DEFINE n == Len(numbers)
<1>1. n \in Nat /\ \A i \in 1..n : numbers[i] \in Int
  OBVIOUS
<1>2. PICK g : IsTotal(g, numbers) /\ SumOf(numbers) = g[n]
  BY TotalExists
<1>3. g \in [0..n -> Int] /\ g[0] = 0 /\ \A i \in 1..n : g[i] = g[i - 1] + numbers[i]
  BY <1>2 DEF IsTotal
<1> HIDE DEF n
<1> DEFINE Good == {i \in 0..n : i * low <= g[i] /\ g[i] <= i * high}
<1>4. 0 \in Good
  BY <1>1, <1>3
<1>5. ASSUME NEW i \in (0 + 1)..n, i - 1 \in Good PROVE i \in Good
  <2>1. i \in 1..n /\ i - 1 \in 0..n /\ i \in 0..n
    BY <1>1, <1>5
  <2> DEFINE a == (i - 1) * low
             b == (i - 1) * high
  <2>2. a \in Int /\ b \in Int /\ i * low = a + low /\ i * high = b + high
    <3>1. i \in Int /\ i = (i - 1) + 1
      BY <2>1
    <3> QED
      BY <3>1
  <2>3. a <= g[i - 1] /\ g[i - 1] <= b /\ g[i - 1] \in Int /\ numbers[i] \in Int
    BY <1>1, <1>3, <1>5, <2>1
  <2>4. low <= numbers[i] /\ numbers[i] <= high /\ g[i] = g[i - 1] + numbers[i]
    BY <1>3, <2>1 DEF n
  <2> HIDE DEF a, b
  <2>5. a + low <= g[i] /\ g[i] <= b + high
    BY <2>2, <2>3, <2>4
  <2> QED
    BY <2>1, <2>2, <2>5
<1>6. 0..n \subseteq Good
  <2> HIDE DEF Good
  <2> QED
    BY <1>1, <1>4, <1>5, RoundInduction
<1>7. n \in 0..n
  BY <1>1
<1>8. n * low <= g[n] /\ g[n] <= n * high
  BY <1>6, <1>7
<1> QED
  BY <1>2, <1>3, <1>7, <1>8 DEF n

\* A list of numbers has a least and a greatest one.
LEMMA ExtremesExist ==
  ASSUME NEW n \in Nat, n # 0, NEW number, \A i \in 1..n : number[i] \in Int
  PROVE  /\ \E k \in 1..n : \A i \in 1..n : number[k] <= number[i]
         /\ \E k \in 1..n : \A i \in 1..n : number[i] <= number[k]
<1> DEFINE Low == {m \in 1..n : \E k \in 1..m : \A i \in 1..m : number[k] <= number[i]}
           High == {m \in 1..n : \E k \in 1..m : \A i \in 1..m : number[i] <= number[k]}
<1>1. 1 \in Low /\ 1 \in High
  <2>1. \A i \in 1..1 : i = 1
    OBVIOUS
  <2>2. 1 \in 1..n /\ 1 \in 1..1
    OBVIOUS
  <2>3. number[1] <= number[1]
    BY <2>2
  <2> QED
    BY <2>1, <2>2, <2>3
<1>2. ASSUME NEW m \in (1 + 1)..n, m - 1 \in Low PROVE m \in Low
  <2>1. PICK k \in 1..(m - 1) : \A i \in 1..(m - 1) : number[k] <= number[i]
    BY <1>2
  <2>2. m \in 1..n /\ k \in 1..m /\ m \in 1..m /\ \A i \in 1..m : i \in 1..n /\ (i = m \/ i \in 1..(m - 1))
    BY <1>2
  <2>3. number[k] \in Int /\ number[m] \in Int /\ \A i \in 1..m : number[i] \in Int
    BY <2>2
  <2>4. CASE number[k] <= number[m]
    <3>1. \A i \in 1..m : number[k] <= number[i]
      BY <2>1, <2>2, <2>4
    <3> QED
      BY <2>2, <3>1
  <2>5. CASE ~(number[k] <= number[m])
    <3>1. \A i \in 1..m : number[m] <= number[i]
      BY <2>1, <2>2, <2>3, <2>5
    <3> QED
      BY <2>2, <3>1
  <2> QED
    BY <2>4, <2>5
<1>3. ASSUME NEW m \in (1 + 1)..n, m - 1 \in High PROVE m \in High
  <2>1. PICK k \in 1..(m - 1) : \A i \in 1..(m - 1) : number[i] <= number[k]
    BY <1>3
  <2>2. m \in 1..n /\ k \in 1..m /\ m \in 1..m /\ \A i \in 1..m : i \in 1..n /\ (i = m \/ i \in 1..(m - 1))
    BY <1>3
  <2>3. number[k] \in Int /\ number[m] \in Int /\ \A i \in 1..m : number[i] \in Int
    BY <2>2
  <2>4. CASE number[m] <= number[k]
    <3>1. \A i \in 1..m : number[i] <= number[k]
      BY <2>1, <2>2, <2>4
    <3> QED
      BY <2>2, <3>1
  <2>5. CASE ~(number[m] <= number[k])
    <3>1. \A i \in 1..m : number[i] <= number[m]
      BY <2>1, <2>2, <2>3, <2>5
    <3> QED
      BY <2>2, <3>1
  <2> QED
    BY <2>4, <2>5
<1>4. n \in 1..n
  OBVIOUS
<1>5. 1..n \subseteq Low
  <2> HIDE DEF Low
  <2> QED
    BY <1>1, <1>2, RoundInduction
<1>6. 1..n \subseteq High
  <2> HIDE DEF High
  <2> QED
    BY <1>1, <1>3, RoundInduction
<1> QED
  BY <1>4, <1>5, <1>6

LEMMA LeastIs ==
  ASSUME NEW S, S \subseteq Int, NEW x \in S, \A y \in S : x <= y
  PROVE  Least(S) \in S /\ \A y \in S : Least(S) <= y
BY DEF Least

LEMMA GreatestIs ==
  ASSUME NEW S, S \subseteq Int, NEW x \in S, \A y \in S : y <= x
  PROVE  Greatest(S) \in S /\ \A y \in S : y <= Greatest(S)
BY DEF Greatest

=============================================================================
