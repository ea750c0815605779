-------------------------- MODULE FrontEndProofs ----------------------------
(***************************************************************************)
(* Proofs about the front end.  Server: under the readers-writer lock no   *)
(* answer shows part of a request, for any connections and whatever their  *)
(* clients send.  The argument: the rows are what the turns at the lock    *)
(* leave behind, a writer who still holds it has had the last of them, and *)
(* the turns after a reader who still holds it leave nothing of their own. *)
(* And answers are honest: a thread counts each line it takes once, as     *)
(* stored, refused or not parsed, and answers from those counts.           *)
(*                                                                         *)
(* Flight: the batches are the rows cut into pieces, each piece becomes    *)
(* rows again under the columns of its first row, and what was written and *)
(* what is still to be written are those rows.  Lines: where the parser    *)
(* cuts a line that a client writes, which pieces it finds between the     *)
(* cuts, and what it makes of each; a piece that ends inside the string is *)
(* refused, and with it the line.  Remote: a number is read back from its  *)
(* groups of seven bits, the frames of a message are where the ones before *)
(* them end, a decoder takes one in each of its rounds, and so from the    *)
(* smallest messages to the body.                                          *)
(***************************************************************************)
EXTENDS Server, Lines, Flight, Remote, ListProofs

\* A thread that has not had the engine's lock.
Early(conn) == conn.at \in {"away", "backlog", "reading", "dispatch"}
Writing(conn) == conn.at = "holding" /\ conn.req.op \in Writers
Reading(conn) == conn.at = "holding" /\ conn.req.op \notin Writers

\* Connections are records with the fields of Away.
IsConn(conn) ==
  conn \in [at : {conn.at}, req : {conn.req}, lines : {conn.lines}, n : {conn.n},
            stored : {conn.stored}, refused : {conn.refused}, bad : {conn.bad},
            seen : {conn.seen}, reply : {conn.reply}]

Shaped(cs) == cs = [c \in Conns |-> cs[c]] /\ \A c \in Conns : IsConn(cs[c])

\* Who works under the lock is entered in it, and writers exclude readers.
Held(cs, lk) ==
  /\ lk \in [writer : Conns \cup {Nobody}, readers : SUBSET Conns, poisoned : BOOLEAN]
  /\ \A c \in Conns : Writing(cs[c]) => lk.writer = c
  /\ \A c \in Conns : Reading(cs[c]) => c \in lk.readers
  /\ lk.readers # {} => lk.writer = Nobody

\* What the first n of these turns leave behind, see LeftBy.
LeftIn(ts, cs, n) ==
  UNION {{r \in Leaves(cs[ts[i]]) : \A j \in (i + 1)..n : ~Touches(cs[ts[j]], r.key)} : i \in 1..n}

\* Everybody who holds the lock has had one turn, a writer the last one, and the
\* turns after a reader who still reads are of readers.  Who flushes has had none.
Silent(conn) == conn.req.op \in Readers /\ conn.stored = <<>>
Flushing(conn) == conn.at = "flush" => conn.req.op \in Controls
Ordered(ts, cs) ==
  /\ ts \in Seq(Conns)
  /\ \A i, j \in 1..Len(ts) : ts[i] = ts[j] => i = j
  /\ \A i \in 1..Len(ts) : ~Early(cs[ts[i]])
  /\ \A c \in Conns : cs[c].at = "holding" => \E i \in 1..Len(ts) : ts[i] = c
  /\ \A i \in 1..Len(ts) : Writing(cs[ts[i]]) => i = Len(ts)
  /\ \A i, j \in 1..Len(ts) : Reading(cs[ts[i]]) /\ j >= i => Silent(cs[ts[j]])
  /\ \A c \in Conns : Flushing(cs[c])

\* Threads have stored lists of rows, and nothing before their turn.
Listed(stored) == stored \in Seq({stored[i] : i \in DOMAIN stored})
Storing(cs) ==
  \A c \in Conns :
    /\ Listed(cs[c].stored)
    /\ Early(cs[c]) => cs[c].stored = <<>>
    /\ Writing(cs[c]) /\ cs[c].req.op \notin Bodies => cs[c].stored = <<>>

\* An answer shows what the turns before it leave.
Shows(ts, cs, n) ==
  HasRead(cs[ts[n]]) => cs[ts[n]].seen = Found(LeftIn(ts, cs, n - 1), cs[ts[n]].req)
AllShow(ts, cs) == \A n \in 1..Len(ts) : Shows(ts, cs, n)

History(ts, cs, rs) ==
  Ordered(ts, cs) /\ Storing(cs) /\ rs = LeftIn(ts, cs, Len(ts)) /\ AllShow(ts, cs)

ServerInv == Shaped(conns) /\ Held(conns, lock) /\ History(turns, conns, rows)

-----------------------------------------------------------------------------
(* What turns leave behind. *)

LEMMA LeftIs ==
  ASSUME NEW ts, NEW cs, NEW n, NEW r
  PROVE  r \in LeftIn(ts, cs, n) <=>
           \E i \in 1..n : /\ r \in Leaves(cs[ts[i]])
                           /\ \A j \in (i + 1)..n : ~Touches(cs[ts[j]], r.key)
BY DEF LeftIn

SameEffect(conn, next) == next.stored = conn.stored /\ (Dropped(next) <=> Dropped(conn))
NoEffect(conn) == conn.stored = <<>> /\ ~Dropped(conn)

LEMMA EffectIs ==
  ASSUME NEW conn, NEW next, SameEffect(conn, next)
  PROVE  Leaves(next) = Leaves(conn) /\ \A key : Touches(next, key) <=> Touches(conn, key)
BY DEF SameEffect, Leaves, Touches

LEMMA NoEffectIs ==
  ASSUME NEW conn, NoEffect(conn)
  PROVE  Leaves(conn) = {} /\ \A key : ~Touches(conn, key)
<1>1. DOMAIN conn.stored = {}
  <2>1. DOMAIN <<>> = {}
    OBVIOUS
  <2> QED
    BY <2>1 DEF NoEffect
<1> QED
  BY <1>1 DEF NoEffect, Leaves, Touches

\* The same turns with the same effect.
Agree(ts, cs, ts2, cs2, n) == \A i \in 1..n : SameEffect(cs[ts[i]], cs2[ts2[i]])

LEMMA LeftSame ==
  ASSUME NEW ts, NEW cs, NEW ts2, NEW cs2, NEW n, Agree(ts, cs, ts2, cs2, n), n \in Nat
  PROVE  LeftIn(ts2, cs2, n) = LeftIn(ts, cs, n)
<1>1. \A i \in 1..n : /\ Leaves(cs2[ts2[i]]) = Leaves(cs[ts[i]])
                      /\ \A key : Touches(cs2[ts2[i]], key) <=> Touches(cs[ts[i]], key)
  BY EffectIs DEF Agree
<1>2. \A i \in 1..n : \A j \in (i + 1)..n : j \in 1..n
  OBVIOUS
<1>3. ASSUME NEW r PROVE r \in LeftIn(ts2, cs2, n) <=> r \in LeftIn(ts, cs, n)
  <2>1. r \in LeftIn(ts, cs, n) <=>
          \E i \in 1..n : /\ r \in Leaves(cs[ts[i]])
                          /\ \A j \in (i + 1)..n : ~Touches(cs[ts[j]], r.key)
    BY LeftIs
  <2>2. r \in LeftIn(ts2, cs2, n) <=>
          \E i \in 1..n : /\ r \in Leaves(cs2[ts2[i]])
                          /\ \A j \in (i + 1)..n : ~Touches(cs2[ts2[j]], r.key)
    BY LeftIs
  <2> QED
    BY <1>1, <1>2, <2>1, <2>2
<1> QED
  BY <1>3

\* Turns without effect.
LEMMA LeftSilent ==
  ASSUME NEW ts, NEW cs, NEW m \in Nat, NEW n \in Nat, m <= n,
         \A j \in (m + 1)..n : NoEffect(cs[ts[j]])
  PROVE  LeftIn(ts, cs, n) = LeftIn(ts, cs, m)
<1>1. \A j \in (m + 1)..n : Leaves(cs[ts[j]]) = {} /\ \A key : ~Touches(cs[ts[j]], key)
  BY NoEffectIs
<1>2. ASSUME NEW r \in LeftIn(ts, cs, n) PROVE r \in LeftIn(ts, cs, m)
  <2>1. PICK i \in 1..n : /\ r \in Leaves(cs[ts[i]])
                          /\ \A j \in (i + 1)..n : ~Touches(cs[ts[j]], r.key)
    BY LeftIs
  <2>2. i \in 1..m
    BY <1>1, <2>1
  <2>3. \A j \in (i + 1)..m : ~Touches(cs[ts[j]], r.key)
    BY <2>1
  <2> QED
    BY <2>1, <2>2, <2>3, LeftIs
<1>3. ASSUME NEW r \in LeftIn(ts, cs, m) PROVE r \in LeftIn(ts, cs, n)
  <2>1. PICK i \in 1..m : /\ r \in Leaves(cs[ts[i]])
                          /\ \A j \in (i + 1)..m : ~Touches(cs[ts[j]], r.key)
    BY LeftIs
  <2>2. i \in 1..n
    OBVIOUS
  <2>3. \A j \in (i + 1)..n : j \in (i + 1)..m \/ j \in (m + 1)..n
    OBVIOUS
  <2>4. \A j \in (i + 1)..n : ~Touches(cs[ts[j]], r.key)
    BY <1>1, <2>1, <2>3
  <2> QED
    BY <2>1, <2>2, <2>4, LeftIs
<1> QED
  BY <1>2, <1>3

\* The last turn.
LEMMA LeftLast ==
  ASSUME NEW ts, NEW cs, NEW n \in Nat, n > 0
  PROVE  LeftIn(ts, cs, n) =
           {r \in LeftIn(ts, cs, n - 1) : ~Touches(cs[ts[n]], r.key)} \cup Leaves(cs[ts[n]])
<1>1. ASSUME NEW r \in LeftIn(ts, cs, n), r \notin Leaves(cs[ts[n]])
      PROVE  r \in LeftIn(ts, cs, n - 1) /\ ~Touches(cs[ts[n]], r.key)
  <2>1. PICK i \in 1..n : /\ r \in Leaves(cs[ts[i]])
                          /\ \A j \in (i + 1)..n : ~Touches(cs[ts[j]], r.key)
    BY LeftIs
  <2>2. i \in 1..(n - 1) /\ n \in (i + 1)..n
    BY <1>1, <2>1
  <2>3. \A j \in (i + 1)..(n - 1) : ~Touches(cs[ts[j]], r.key)
    BY <2>1
  <2> QED
    BY <2>1, <2>2, <2>3, LeftIs
<1>2. ASSUME NEW r \in LeftIn(ts, cs, n - 1), ~Touches(cs[ts[n]], r.key)
      PROVE  r \in LeftIn(ts, cs, n)
  <2>1. PICK i \in 1..(n - 1) : /\ r \in Leaves(cs[ts[i]])
                                /\ \A j \in (i + 1)..(n - 1) : ~Touches(cs[ts[j]], r.key)
    BY LeftIs
  <2>2. i \in 1..n
    OBVIOUS
  <2>3. \A j \in (i + 1)..n : j \in (i + 1)..(n - 1) \/ j = n
    OBVIOUS
  <2>4. \A j \in (i + 1)..n : ~Touches(cs[ts[j]], r.key)
    BY <1>2, <2>1, <2>3
  <2> QED
    BY <2>1, <2>2, <2>4, LeftIs
<1>3. ASSUME NEW r \in Leaves(cs[ts[n]]) PROVE r \in LeftIn(ts, cs, n)
  <2>1. n \in 1..n /\ (n + 1)..n = {}
    OBVIOUS
  <2> QED
    BY <2>1, LeftIs
<1> QED
  BY <1>1, <1>2, <1>3

\* The last row under each key in a list, and the keys that it has.
LastOnes(list) ==
  {list[i] : i \in {i \in DOMAIN list : \A j \in DOMAIN list : j > i => list[j].key # list[i].key}}
HasKey(list, key) == \E i \in DOMAIN list : list[i].key = key

LEMMA LastOneIs ==
  ASSUME NEW list, NEW r
  PROVE  r \in LastOnes(list) <=>
           \E i \in DOMAIN list :
             r = list[i] /\ \A j \in DOMAIN list : j > i => list[j].key # list[i].key
BY DEF LastOnes

LEMMA OneMoreRow ==
  ASSUME NEW old, NEW row, Listed(old), NEW new, new = Append(old, row)
  PROVE  /\ LastOnes(new) = {r \in LastOnes(old) : r.key # row.key} \cup {row}
         /\ \A key : HasKey(new, key) <=> HasKey(old, key) \/ key = row.key
<1> DEFINE m == Len(old)
<1>1. /\ m \in Nat /\ DOMAIN old = 1..m /\ DOMAIN new = 1..(m + 1)
      /\ \A i \in 1..m : new[i] = old[i]
      /\ new[m + 1] = row
  <2> DEFINE S == {old[i] : i \in DOMAIN old} \cup {row}
  <2>1. old \in Seq(S) /\ row \in S
    BY DEF Listed
  <2> HIDE DEF S
  <2> QED
    BY <2>1
<1> HIDE DEF m
<1>3. ASSUME NEW r \in LastOnes(new) PROVE r = row \/ (r \in LastOnes(old) /\ r.key # row.key)
  <2>0. PICK i \in DOMAIN new : r = new[i] /\ \A j \in DOMAIN new : j > i => new[j].key # new[i].key
    BY ONLY <1>3, LastOneIs
  <2>1. /\ i \in 1..(m + 1)
        /\ r = new[i] /\ \A j \in 1..(m + 1) : j > i => new[j].key # new[i].key
    BY <1>1, <2>0
  <2>2. CASE i = m + 1
    BY <1>1, <2>1, <2>2
  <2>3. CASE i \in 1..m
    <3>1. r = old[i] /\ \A j \in 1..m : j > i => old[j].key # old[i].key
      BY <1>1, <2>1, <2>3
    <3>2. r.key # row.key
      BY <1>1, <2>1, <2>3
    <3> QED
      BY <1>1, LastOneIs, <2>3, <3>1, <3>2
  <2> QED
    BY <1>1, <2>1, <2>2, <2>3
<1>4. row \in LastOnes(new)
  <2>1. m + 1 \in DOMAIN new /\ \A j \in DOMAIN new : ~(j > m + 1)
    BY <1>1
  <2> QED
    BY <1>1, LastOneIs, <2>1
<1>5. ASSUME NEW r \in LastOnes(old), r.key # row.key PROVE r \in LastOnes(new)
  <2>1. PICK i \in 1..m : r = old[i] /\ \A j \in 1..m : j > i => old[j].key # old[i].key
    BY <1>1, LastOneIs
  <2>2. i \in 1..(m + 1) /\ r = new[i]
    BY <1>1, <2>1
  <2>3. \A j \in 1..(m + 1) : j > i => new[j].key # new[i].key
    <3> SUFFICES ASSUME NEW j \in 1..(m + 1), j > i PROVE new[j].key # new[i].key
      OBVIOUS
    <3>1. CASE j = m + 1
      BY <1>1, <1>5, <2>1, <3>1
    <3>2. CASE j \in 1..m
      BY <1>1, <2>1, <3>2
    <3> QED
      BY <1>1, <3>1, <3>2
  <2> QED
    BY <1>1, LastOneIs, <2>2, <2>3
<1>6. ASSUME NEW key PROVE HasKey(new, key) <=> HasKey(old, key) \/ key = row.key
  <2>1. HasKey(new, key) <=> \E i \in 1..(m + 1) : new[i].key = key
    BY <1>1 DEF HasKey
  <2>2. HasKey(old, key) <=> \E i \in 1..m : old[i].key = key
    BY <1>1 DEF HasKey
  <2>3. ASSUME NEW i \in 1..(m + 1), new[i].key = key
        PROVE  key = row.key \/ \E h \in 1..m : old[h].key = key
    <3>1. i \in 1..m \/ i = m + 1
      BY <1>1
    <3> QED
      BY <1>1, <2>3, <3>1
  <2>4. ASSUME NEW i \in 1..m, old[i].key = key PROVE i \in 1..(m + 1) /\ new[i].key = key
    BY <1>1, <2>4
  <2>5. m + 1 \in 1..(m + 1)
    BY <1>1
  <2> QED
    BY <1>1, <2>1, <2>2, <2>3, <2>4, <2>5
<1> QED
  BY <1>3, <1>4, <1>5, <1>6

\* A thread stores one more row.
LEMMA StoresOneMore ==
  ASSUME NEW conn, NEW next, NEW row, Listed(conn.stored),
         next.stored = Append(conn.stored, row), ~Dropped(conn), ~Dropped(next)
  PROVE  /\ Leaves(next) = {r \in Leaves(conn) : r.key # row.key} \cup {row}
         /\ \A key : Touches(next, key) <=> Touches(conn, key) \/ key = row.key
<1>1. Leaves(next) = LastOnes(next.stored) /\ Leaves(conn) = LastOnes(conn.stored)
  BY DEF Leaves, LastOnes
<1>2. \A key : /\ Touches(next, key) <=> HasKey(next.stored, key)
               /\ Touches(conn, key) <=> HasKey(conn.stored, key)
  BY DEF Touches, HasKey
<1> QED
  BY <1>1, <1>2, OneMoreRow

LEMMA ListedMore == ASSUME NEW s, NEW row, Listed(s) PROVE Listed(Append(s, row)) /\ Listed(<<row>>)
<1> DEFINE S == {s[i] : i \in DOMAIN s} \cup {row}
           more == Append(s, row)
<1>1. s \in Seq(S) /\ row \in S
  BY DEF Listed
<1> HIDE DEF S
<1>2. /\ more \in Seq(S) /\ Len(more) = Len(s) + 1 /\ Len(s) \in Nat
      /\ DOMAIN s = 1..Len(s) /\ DOMAIN more = 1..(Len(s) + 1)
  BY <1>1
<1> HIDE DEF more
<1>3. more \in Seq({more[i] : i \in DOMAIN more})
  BY <1>2
<1>4. <<row>> \in Seq({<<row>>[i] : i \in DOMAIN <<row>>})
  OBVIOUS
<1> QED
  BY <1>3, <1>4 DEF Listed, more

-----------------------------------------------------------------------------
(* What a step of one thread does to the history of turns. *)

\* A thread does not come back, takes no lock, and its request is the one it had.
KeepsPlace(conn, next) ==
  /\ Early(next) => Early(conn)
  /\ next.at = "holding" => conn.at = "holding"
  /\ Flushing(conn) => Flushing(next)
  /\ ~Early(conn) => /\ next.req = conn.req
                     /\ conn.req.op \in Readers => next.stored = conn.stored

\* It stores, sees and drops nothing either.
Moves(conn, next) ==
  /\ KeepsPlace(conn, next)
  /\ next.stored = conn.stored /\ next.seen = conn.seen
  /\ ~Early(conn) => (Dropped(next) <=> Dropped(conn)) /\ (HasRead(next) => HasRead(conn))

LEMMA OrderedKept ==
  ASSUME NEW ts, NEW cs, NEW cs2, Ordered(ts, cs), \A c \in Conns : KeepsPlace(cs[c], cs2[c])
  PROVE  Ordered(ts, cs2)
<1>1. \A i \in 1..Len(ts) : /\ ts[i] \in Conns /\ ~Early(cs[ts[i]])
                            /\ KeepsPlace(cs[ts[i]], cs2[ts[i]])
  BY DEF Ordered
<1>2. \A i \in 1..Len(ts) : /\ ~Early(cs2[ts[i]])
                            /\ Writing(cs2[ts[i]]) => Writing(cs[ts[i]])
                            /\ Reading(cs2[ts[i]]) => Reading(cs[ts[i]])
                            /\ Silent(cs[ts[i]]) => Silent(cs2[ts[i]])
  BY <1>1 DEF KeepsPlace, Writing, Reading, Silent
<1>3. \A c \in Conns : cs2[c].at = "holding" => \E i \in 1..Len(ts) : ts[i] = c
  BY DEF Ordered, KeepsPlace
<1>4. \A c \in Conns : Flushing(cs2[c])
  BY DEF Ordered, KeepsPlace
<1> QED
  BY <1>2, <1>3, <1>4 DEF Ordered

\* A thread that reads or nobody has seen something else: the others show what
\* they showed.
LEMMA ShowsSame ==
  ASSUME NEW ts, NEW cs, NEW ts2, NEW cs2, NEW n \in Nat, n > 0, Agree(ts, cs, ts2, cs2, n - 1),
         Shows(ts, cs, n), cs2[ts2[n]].req = cs[ts[n]].req, cs2[ts2[n]].seen = cs[ts[n]].seen,
         HasRead(cs2[ts2[n]]) => HasRead(cs[ts[n]])
  PROVE  Shows(ts2, cs2, n)
<1>1. n - 1 \in Nat
  OBVIOUS
<1>2. LeftIn(ts2, cs2, n - 1) = LeftIn(ts, cs, n - 1)
  BY <1>1, LeftSame
<1> QED
  BY <1>2 DEF Shows

LEMMA MovesHistory ==
  ASSUME NEW ts, NEW cs, NEW cs2, NEW rs, History(ts, cs, rs),
         \A c \in Conns : Moves(cs[c], cs2[c])
  PROVE  History(ts, cs2, rs)
<1>1. Ordered(ts, cs2)
  BY OrderedKept DEF History, Moves
<1>2. Storing(cs2)
  BY DEF History, Storing, Moves, KeepsPlace, Early, Writing
<1>3. \A i \in 1..Len(ts) : /\ SameEffect(cs[ts[i]], cs2[ts[i]])
                            /\ cs2[ts[i]].req = cs[ts[i]].req /\ cs2[ts[i]].seen = cs[ts[i]].seen
                            /\ HasRead(cs2[ts[i]]) => HasRead(cs[ts[i]])
  BY DEF History, Ordered, Moves, KeepsPlace, SameEffect
<1>4. Len(ts) \in Nat
  BY DEF History, Ordered
<1>5. LeftIn(ts, cs2, Len(ts)) = LeftIn(ts, cs, Len(ts))
  <2>1. Agree(ts, cs, ts, cs2, Len(ts))
    BY <1>3 DEF Agree
  <2> QED
    BY <1>4, <2>1, LeftSame
<1>6. ASSUME NEW n \in 1..Len(ts) PROVE Shows(ts, cs2, n)
  <2>1. n \in Nat /\ n > 0 /\ Shows(ts, cs, n)
    BY <1>4 DEF History, AllShow
  <2>2. Agree(ts, cs, ts, cs2, n - 1)
    BY <1>3, <1>4 DEF Agree
  <2> QED
    BY <1>3, <2>1, <2>2, ShowsSame
<1> QED
  BY <1>1, <1>2, <1>5, <1>6 DEF History, AllShow

\* Only thread c has changed.
Alone(c, cs, cs2) == \A d \in Conns \ {c} : cs2[d] = cs[d]

\* Where the turn of a writer who holds the lock is, and what is before it.
LEMMA WriterIsLast ==
  ASSUME NEW ts, NEW cs, NEW cs2, NEW c \in Conns, Ordered(ts, cs), Writing(cs[c]), Alone(c, cs, cs2)
  PROVE  /\ Len(ts) \in Nat /\ Len(ts) > 0 /\ ts[Len(ts)] = c
         /\ \A i \in 1..(Len(ts) - 1) : ts[i] \in Conns /\ ts[i] # c /\ cs2[ts[i]] = cs[ts[i]]
<1>0. Len(ts) \in Nat /\ \A i \in 1..Len(ts) : ts[i] \in Conns
  BY DEF Ordered
<1>1. PICK i \in 1..Len(ts) : ts[i] = c
  BY DEF Ordered, Writing
<1>2. i = Len(ts)
  BY <1>1 DEF Ordered
<1>3. \A j \in 1..(Len(ts) - 1) : ts[j] # c
  BY <1>0, <1>1, <1>2 DEF Ordered
<1> QED
  BY <1>0, <1>1, <1>2, <1>3 DEF Alone

\* The answers given before a writer's turn stay as they are.
LEMMA WriterShows ==
  ASSUME NEW ts, NEW cs, NEW cs2, NEW c \in Conns, Ordered(ts, cs), AllShow(ts, cs),
         Writing(cs[c]), Alone(c, cs, cs2), ~HasRead(cs2[c])
  PROVE  AllShow(ts, cs2) /\ LeftIn(ts, cs2, Len(ts) - 1) = LeftIn(ts, cs, Len(ts) - 1)
<1>1. /\ Len(ts) \in Nat /\ Len(ts) > 0 /\ ts[Len(ts)] = c
      /\ \A i \in 1..(Len(ts) - 1) : cs2[ts[i]] = cs[ts[i]]
  BY WriterIsLast
<1>2. \A n \in 1..Len(ts) : Agree(ts, cs, ts, cs2, n - 1)
  BY <1>1 DEF Agree, SameEffect
<1>3. ASSUME NEW n \in 1..Len(ts) PROVE Shows(ts, cs2, n)
  <2>1. CASE n = Len(ts)
    BY <1>1, <2>1 DEF Shows
  <2>2. CASE n # Len(ts)
    <3>1. n \in Nat /\ n > 0 /\ n \in 1..(Len(ts) - 1) /\ Shows(ts, cs, n)
      BY <1>1, <2>2 DEF AllShow
    <3>2. cs2[ts[n]] = cs[ts[n]]
      BY <1>1, <3>1
    <3>3. Agree(ts, cs, ts, cs2, n - 1)
      BY <1>2
    <3> QED
      BY <3>1, <3>2, <3>3, ShowsSame
  <2> QED
    BY <2>1, <2>2
<1>4. LeftIn(ts, cs2, Len(ts) - 1) = LeftIn(ts, cs, Len(ts) - 1)
  <2>1. Len(ts) - 1 \in Nat /\ Agree(ts, cs, ts, cs2, Len(ts) - 1)
    BY <1>1, <1>2
  <2> QED
    BY <2>1, LeftSame
<1> QED
  BY <1>3, <1>4 DEF AllShow

\* The writer stores one more row.
LEMMA StoresHistory ==
  ASSUME NEW ts, NEW cs, NEW cs2, NEW rs, NEW c \in Conns, NEW row, History(ts, cs, rs),
         Writing(cs[c]), cs[c].req.op # "drop", Alone(c, cs, cs2),
         cs2[c].req = cs[c].req, cs2[c].stored = Append(cs[c].stored, row),
         \/ cs2[c].at = "holding" /\ cs[c].req.op \in Bodies
         \/ cs2[c].at = "reply"
  PROVE  History(ts, cs2, {r \in rs : r.key # row.key} \cup {row})
<1>0. /\ Ordered(ts, cs) /\ Storing(cs) /\ AllShow(ts, cs) /\ rs = LeftIn(ts, cs, Len(ts))
      /\ cs[c].at = "holding" /\ cs[c].req.op \in Writers \ Readers
  BY DEF History, Writing, Writers, Readers, Bodies
<1>1. ~HasRead(cs2[c]) /\ ~Dropped(cs[c]) /\ ~Dropped(cs2[c]) /\ ~Early(cs2[c]) /\ ~Early(cs[c])
  BY <1>0 DEF HasRead, Dropped, Readers, Early
<1>2. Ordered(ts, cs2)
  <2>1. \A d \in Conns : KeepsPlace(cs[d], cs2[d])
    BY <1>0, <1>1 DEF Alone, KeepsPlace, Flushing
  <2> QED
    BY <1>0, <2>1, OrderedKept
<1>3. Storing(cs2)
  <2>1. Listed(cs2[c].stored)
    BY <1>0, ListedMore DEF Storing
  <2> QED
    BY <1>0, <1>1, <2>1 DEF Storing, Alone, Writing
<1>4. AllShow(ts, cs2) /\ LeftIn(ts, cs2, Len(ts) - 1) = LeftIn(ts, cs, Len(ts) - 1)
  BY <1>0, <1>1, WriterShows
<1>5. Len(ts) \in Nat /\ Len(ts) > 0 /\ ts[Len(ts)] = c
  BY <1>0, WriterIsLast
<1>6. LeftIn(ts, cs2, Len(ts)) = {r \in LeftIn(ts, cs, Len(ts)) : r.key # row.key} \cup {row}
  <2> DEFINE before == LeftIn(ts, cs, Len(ts) - 1)
  <2>1. LeftIn(ts, cs, Len(ts)) = {r \in before : ~Touches(cs[c], r.key)} \cup Leaves(cs[c])
    BY <1>5, LeftLast
  <2>2. LeftIn(ts, cs2, Len(ts)) =
          {r \in LeftIn(ts, cs2, Len(ts) - 1) : ~Touches(cs2[c], r.key)} \cup Leaves(cs2[c])
    BY <1>5, LeftLast
  <2>3. /\ Leaves(cs2[c]) = {r \in Leaves(cs[c]) : r.key # row.key} \cup {row}
        /\ \A key : Touches(cs2[c], key) <=> Touches(cs[c], key) \/ key = row.key
    <3>1. Listed(cs[c].stored)
      BY <1>0 DEF Storing
    <3> QED
      BY <1>1, <3>1, StoresOneMore
  <2> HIDE DEF before
  <2>4. LeftIn(ts, cs2, Len(ts)) = {r \in before : ~Touches(cs2[c], r.key)} \cup Leaves(cs2[c])
    BY <1>4, <2>2 DEF before
  <2> QED
    BY ONLY <2>1, <2>3, <2>4
<1> QED
  BY <1>0, <1>2, <1>3, <1>4, <1>6 DEF History

\* The writer drops every row.
LEMMA DropsHistory ==
  ASSUME NEW ts, NEW cs, NEW cs2, NEW rs, NEW c \in Conns, History(ts, cs, rs),
         Writing(cs[c]), cs[c].req.op = "drop", Alone(c, cs, cs2),
         cs2[c].req = cs[c].req, cs2[c].stored = cs[c].stored, cs2[c].at = "reply"
  PROVE  History(ts, cs2, {})
<1>0. /\ Ordered(ts, cs) /\ Storing(cs) /\ AllShow(ts, cs)
      /\ cs[c].at = "holding" /\ cs[c].stored = <<>>
  BY DEF History, Writing, Storing, Bodies
<1>1. ~HasRead(cs2[c]) /\ Dropped(cs2[c]) /\ ~Early(cs2[c]) /\ ~Early(cs[c])
  BY <1>0 DEF HasRead, Dropped, Early
<1>2. Ordered(ts, cs2)
  <2>1. \A d \in Conns : KeepsPlace(cs[d], cs2[d])
    BY <1>0, <1>1 DEF Alone, KeepsPlace, Flushing
  <2> QED
    BY <1>0, <2>1, OrderedKept
<1>3. Storing(cs2)
  BY <1>0, <1>1 DEF Storing, Alone, Writing
<1>4. AllShow(ts, cs2)
  BY <1>0, <1>1, WriterShows
<1>5. Len(ts) \in Nat /\ Len(ts) > 0 /\ ts[Len(ts)] = c
  BY <1>0, WriterIsLast
<1>6. LeftIn(ts, cs2, Len(ts)) = {}
  <2>1. LeftIn(ts, cs2, Len(ts)) =
          {r \in LeftIn(ts, cs2, Len(ts) - 1) : ~Touches(cs2[c], r.key)} \cup Leaves(cs2[c])
    BY <1>5, LeftLast
  <2>2. \A key : Touches(cs2[c], key)
    BY <1>1 DEF Touches
  <2>3. Leaves(cs2[c]) = {}
    <3>1. DOMAIN <<>> = {}
      OBVIOUS
    <3> QED
      BY <1>0, <3>1 DEF Leaves
  <2> QED
    BY <2>1, <2>2, <2>3
<1> QED
  BY <1>2, <1>3, <1>4, <1>6 DEF History

\* A reader sees the rows: nobody after it has stored or dropped any.
LEMMA ReadsHistory ==
  ASSUME NEW ts, NEW cs, NEW cs2, NEW rs, NEW c \in Conns, History(ts, cs, rs),
         Reading(cs[c]), Alone(c, cs, cs2), cs2[c].req = cs[c].req,
         cs2[c].stored = cs[c].stored, cs2[c].at = "reply",
         HasRead(cs2[c]) => cs2[c].seen = Found(rs, cs2[c].req)
  PROVE  History(ts, cs2, rs)
<1>0. /\ Ordered(ts, cs) /\ Storing(cs) /\ AllShow(ts, cs) /\ rs = LeftIn(ts, cs, Len(ts))
      /\ Len(ts) \in Nat /\ cs[c].at = "holding"
  BY DEF History, Reading, Ordered
<1>1. PICK k \in 1..Len(ts) : ts[k] = c
  BY <1>0 DEF Ordered
<1>2. ~Early(cs2[c]) /\ ~Early(cs[c]) /\ ~Dropped(cs[c]) /\ ~Dropped(cs2[c])
  <2>1. cs[c].req.op # "drop"
    BY DEF Reading, Writers
  <2> QED
    BY <1>0, <2>1 DEF Early, Dropped
<1>3. \A d \in Conns : KeepsPlace(cs[d], cs2[d]) /\ SameEffect(cs[d], cs2[d])
  BY <1>0, <1>2 DEF Alone, KeepsPlace, SameEffect, Flushing
<1>4. Ordered(ts, cs2)
  BY <1>0, <1>3, OrderedKept
<1>5. Storing(cs2)
  BY <1>0, <1>2 DEF Storing, Alone, Writing
<1>6. \A n \in 0..Len(ts) : n \in Nat /\ Agree(ts, cs, ts, cs2, n)
  BY <1>0, <1>3 DEF Agree, Ordered
<1>7. \A n \in 0..Len(ts) : LeftIn(ts, cs2, n) = LeftIn(ts, cs, n)
  BY <1>6, LeftSame
<1>8. LeftIn(ts, cs, k - 1) = rs
  <2>1. ASSUME NEW j \in ((k - 1) + 1)..Len(ts) PROVE NoEffect(cs[ts[j]])
    <3>1. j \in 1..Len(ts) /\ j >= k
      BY <1>0
    <3>2. Silent(cs[ts[j]])
      BY <1>0, <1>1, <3>1 DEF Ordered
    <3> QED
      BY <3>2 DEF Silent, Readers, NoEffect, Dropped
  <2>2. k - 1 \in Nat /\ k - 1 <= Len(ts)
    BY <1>0
  <2> QED
    BY <1>0, <2>1, <2>2, LeftSilent
<1>9. ASSUME NEW n \in 1..Len(ts) PROVE Shows(ts, cs2, n)
  <2>1. n \in Nat /\ n > 0 /\ n - 1 \in 0..Len(ts) /\ Shows(ts, cs, n)
    BY <1>0 DEF AllShow
  <2>2. CASE n = k
    BY <1>1, <1>7, <1>8, <2>1, <2>2 DEF Shows
  <2>3. CASE n # k
    <3>1. ts[n] \in Conns /\ ts[n] # c
      BY <1>0, <1>1, <2>3 DEF Ordered
    <3>2. cs2[ts[n]] = cs[ts[n]]
      BY <3>1 DEF Alone
    <3> QED
      BY <1>7, <2>1, <3>2 DEF Shows
  <2> QED
    BY <2>2, <2>3
<1>10. LeftIn(ts, cs2, Len(ts)) = rs
  BY <1>0, <1>7
<1> QED
  BY <1>4, <1>5, <1>9, <1>10 DEF History, AllShow

\* A thread gets the lock.
LEMMA TurnHistory ==
  ASSUME NEW ts, NEW cs, NEW cs2, NEW rs, NEW c \in Conns, History(ts, cs, rs),
         Early(cs[c]), Alone(c, cs, cs2), cs2[c].at = "holding", cs2[c].stored = cs[c].stored,
         \A d \in Conns : ~Writing(cs[d]),
         cs2[c].req.op \in Writers => \A d \in Conns : ~Reading(cs[d]),
         cs2[c].req.op \in Writers \cup Readers
  PROVE  History(Append(ts, c), cs2, rs)
<1> DEFINE more == Append(ts, c)
           n == Len(ts)
<1>0. /\ Ordered(ts, cs) /\ Storing(cs) /\ AllShow(ts, cs) /\ rs = LeftIn(ts, cs, Len(ts))
      /\ ts \in Seq(Conns) /\ n \in Nat
  BY DEF History, Ordered
<1>1. /\ more \in Seq(Conns) /\ Len(more) = n + 1 /\ more[n + 1] = c
      /\ \A i \in 1..n : more[i] = ts[i] /\ ts[i] \in Conns /\ ts[i] # c /\ cs2[ts[i]] = cs[ts[i]]
  <2>1. \A i \in 1..n : ts[i] # c /\ ts[i] \in Conns
    BY <1>0 DEF Ordered
  <2> QED
    BY <1>0, <2>1 DEF Alone
<1> HIDE DEF more, n
<1>2. ~Early(cs2[c]) /\ ~HasRead(cs2[c]) /\ NoEffect(cs2[c])
  BY <1>0 DEF Early, HasRead, NoEffect, Dropped, Storing
<1>3. Ordered(more, cs2)
  <2>1. \A i \in 1..(n + 1) : i \in 1..n \/ i = n + 1
    BY <1>0
  <2>2. \A i, j \in 1..(n + 1) : more[i] = more[j] => i = j
    BY <1>0, <1>1, <2>1 DEF Ordered, n
  <2>3. \A i \in 1..(n + 1) : ~Early(cs2[more[i]])
    BY <1>0, <1>1, <1>2, <2>1 DEF Ordered, n
  <2>4. \A d \in Conns : cs2[d].at = "holding" => \E i \in 1..(n + 1) : more[i] = d
    <3> SUFFICES ASSUME NEW d \in Conns, cs2[d].at = "holding" PROVE \E i \in 1..(n + 1) : more[i] = d
      OBVIOUS
    <3>1. CASE d = c
      BY <1>0, <1>1, <3>1
    <3>2. CASE d # c
      <4>1. PICK i \in 1..n : ts[i] = d
        BY <1>0, <3>2 DEF Ordered, Alone, n
      <4> QED
        BY <1>0, <1>1, <4>1
    <3> QED
      BY <3>1, <3>2
  <2>5. \A i \in 1..(n + 1) : Writing(cs2[more[i]]) => i = n + 1
    BY <1>0, <1>1, <2>1
  <2>6. \A i, j \in 1..(n + 1) : Reading(cs2[more[i]]) /\ j >= i => Silent(cs2[more[j]])
    <3> SUFFICES ASSUME NEW i \in 1..(n + 1), NEW j \in 1..(n + 1), Reading(cs2[more[i]]), j >= i
                 PROVE  Silent(cs2[more[j]])
      OBVIOUS
    <3>1. CASE j \in 1..n
      <4>1. i \in 1..n
        BY <1>0, <3>1
      <4> QED
        BY <1>0, <1>1, <3>1, <4>1 DEF Ordered, n
    <3>2. CASE j = n + 1
      <4>1. cs2[c].req.op \notin Writers
        <5>1. CASE i = n + 1
          BY <1>1, <5>1 DEF Reading
        <5>2. CASE i \in 1..n
          BY <1>1, <5>2
        <5> QED
          BY <2>1, <5>1, <5>2
      <4> QED
        BY <1>1, <1>2, <3>2, <4>1 DEF Silent, NoEffect
    <3> QED
      BY <2>1, <3>1, <3>2
  <2>7. \A d \in Conns : Flushing(cs2[d])
    BY <1>0 DEF Ordered, Alone, Flushing
  <2> QED
    BY <1>1, <2>2, <2>3, <2>4, <2>5, <2>6, <2>7 DEF Ordered
<1>4. Storing(cs2)
  <2>1. cs[c].stored = <<>>
    BY <1>0 DEF Storing
  <2> QED
    BY <1>0, <2>1 DEF Storing, Alone
<1>5. \A m \in 0..n : m \in Nat /\ Agree(ts, cs, more, cs2, m)
  BY <1>0, <1>1 DEF Agree, SameEffect
<1>6. LeftIn(more, cs2, n + 1) = rs
  <2>1. LeftIn(more, cs2, n) = rs
    <3>1. n \in 0..n
      BY <1>0
    <3> QED
      BY <1>0, <1>5, <3>1, LeftSame DEF n
  <2>2. ASSUME NEW j \in (n + 1)..(n + 1) PROVE NoEffect(cs2[more[j]])
    BY <1>0, <1>1, <1>2
  <2>3. n \in Nat /\ n + 1 \in Nat /\ n <= n + 1
    BY <1>0
  <2> QED
    BY <2>1, <2>2, <2>3, LeftSilent
<1>7. ASSUME NEW m \in 1..(n + 1) PROVE Shows(more, cs2, m)
  <2>1. CASE m = n + 1
    BY <1>1, <1>2, <2>1 DEF Shows
  <2>2. CASE m \in 1..n
    <3>1. m \in Nat /\ m > 0 /\ m - 1 \in 0..n /\ Shows(ts, cs, m)
      BY <1>0, <2>2 DEF AllShow, n
    <3>2. Agree(ts, cs, more, cs2, m - 1)
      BY <1>5, <3>1
    <3>3. cs2[more[m]] = cs[ts[m]]
      BY <1>1, <2>2
    <3> QED
      BY <3>1, <3>2, <3>3, ShowsSame
  <2> QED
    BY <1>0, <2>1, <2>2
<1> QED
  BY <1>1, <1>3, <1>4, <1>6, <1>7 DEF History, AllShow, more

-----------------------------------------------------------------------------
(* Steps that change the record of one thread, and the lock. *)

LEMMA ServerInvInit == ServerInit => ServerInv
<1> SUFFICES ASSUME ServerInit PROVE ServerInv
  OBVIOUS
<1>1. Shaped(conns)
  BY DEF ServerInit, Shaped, IsConn, Away
<1>2. \A c \in Conns : Early(conns[c]) /\ ~Writing(conns[c]) /\ ~Reading(conns[c])
                         /\ conns[c].at # "holding" /\ conns[c].stored = <<>>
  BY DEF ServerInit, Away, Early, Writing, Reading
<1>3. Held(conns, lock)
  BY <1>2 DEF ServerInit, Held
<1>4. Len(turns) = 0 /\ turns \in Seq(Conns)
  BY DEF ServerInit
<1>5. Ordered(turns, conns)
  BY <1>2, <1>4 DEF Ordered, Flushing, Early
<1>6. Storing(conns)
  <2>1. Listed(<<>>)
    BY DEF Listed
  <2> QED
    BY <1>2, <2>1 DEF Storing
<1>7. rows = LeftIn(turns, conns, Len(turns))
  BY <1>4 DEF ServerInit, LeftIn
<1>8. AllShow(turns, conns)
  BY <1>4 DEF AllShow
<1> QED
  BY <1>1, <1>3, <1>5, <1>6, <1>7, <1>8 DEF ServerInv, History

\* Threads that do not begin to hold the lock, with the lock left as it is.
LEMMA HeldKept ==
  ASSUME NEW cs, NEW cs2, NEW lk, Held(cs, lk),
         \A d \in Conns : /\ Writing(cs2[d]) => Writing(cs[d])
                          /\ Reading(cs2[d]) => Reading(cs[d])
  PROVE  Held(cs2, lk)
BY DEF Held

\* A thread that holds the lock no more, and frees it.
LEMMA HeldFreed ==
  ASSUME ServerInv, NEW c \in Conns, NEW cs2, NEW poisoned \in BOOLEAN,
         ~Writing(cs2[c]), ~Reading(cs2[c]),
         \A d \in Conns \ {c} : cs2[d] = conns[d]
  PROVE  Held(cs2, Freed(c)) /\ Held(cs2, [Freed(c) EXCEPT !.poisoned = poisoned])
<1>0. lock \in [writer : Conns \cup {Nobody}, readers : SUBSET Conns, poisoned : BOOLEAN]
  BY DEF ServerInv, Held
<1>1. /\ Freed(c).writer = (IF lock.writer = c THEN Nobody ELSE lock.writer)
      /\ Freed(c).readers = lock.readers \ {c}
      /\ Freed(c) \in [writer : Conns \cup {Nobody}, readers : SUBSET Conns, poisoned : BOOLEAN]
  BY <1>0 DEF Freed
<1>2. /\ \A d \in Conns : Writing(cs2[d]) => Freed(c).writer = d
      /\ \A d \in Conns : Reading(cs2[d]) => d \in Freed(c).readers
      /\ Freed(c).readers # {} => Freed(c).writer = Nobody
  BY <1>1 DEF ServerInv, Held
<1> HIDE DEF Freed
<1>3. Held(cs2, Freed(c))
  BY <1>1, <1>2 DEF Held
<1>4. Held(cs2, [Freed(c) EXCEPT !.poisoned = poisoned])
  BY <1>1, <1>2 DEF Held
<1> QED
  BY <1>3, <1>4

\* Thread c has become this record, and the others have stayed.
OnlyChanges(c, new) ==
  Shaped(conns') /\ conns'[c] = new /\ \A d \in Conns \ {c} : conns'[d] = conns[d]

LEMMA BecomesShape ==
  ASSUME Shaped(conns), NEW c \in Conns, NEW new, IsConn(new), conns' = [conns EXCEPT ![c] = new]
  PROVE  OnlyChanges(c, new)
BY DEF Shaped, OnlyChanges

SameLines(r, s) == s.stored = r.stored /\ s.seen = r.seen

LEMMA GoesShape ==
  ASSUME Shaped(conns), NEW c \in Conns, NEW label, Goes(c, label)
  PROVE  /\ OnlyChanges(c, conns'[c]) /\ SameLines(conns[c], conns'[c])
         /\ conns'[c].at = label /\ conns'[c].req = conns[c].req
BY DEF Shaped, IsConn, OnlyChanges, SameLines, Goes

LEMMA RepliesShape ==
  ASSUME Shaped(conns), NEW c \in Conns, NEW status, Replies(c, status)
  PROVE  /\ OnlyChanges(c, conns'[c]) /\ SameLines(conns[c], conns'[c])
         /\ conns'[c].at = "reply" /\ conns'[c].req = conns[c].req
BY DEF Shaped, IsConn, OnlyChanges, SameLines, Replies

\* A step that leaves rows and turns alone, in which no thread takes the lock.
LEMMA MovesStep ==
  ASSUME ServerInv, Shaped(conns'), Held(conns', lock'), rows' = rows, turns' = turns,
         \A d \in Conns : Moves(conns[d], conns'[d])
  PROVE  ServerInv'
<1>1. History(turns, conns', rows)
  BY MovesHistory DEF ServerInv
<1> QED
  BY <1>1 DEF ServerInv

\* Nor does a thread change that stays as it is.
LEMMA StaysMoves == ASSUME NEW conn PROVE Moves(conn, conn)
BY DEF Moves, KeepsPlace

\* A thread that is done with the lock, whether it had it or not.
Done(conn) == ~Early(conn) /\ conn.at # "holding"

\* It has had no turn, or has neither dropped anything by leaving nor read it.
Leaving(r, s) ==
  /\ s.req = r.req /\ (Flushing(r) => Flushing(s))
  /\ (~Early(r) => (Dropped(s) <=> Dropped(r)) /\ (HasRead(s) => HasRead(r)))

LEMMA EndsStep ==
  ASSUME ServerInv, NEW c \in Conns, OnlyChanges(c, conns'[c]), Done(conns'[c]),
         SameLines(conns[c], conns'[c]), Leaving(conns[c], conns'[c]),
         rows' = rows, turns' = turns,
         \/ lock' = lock
         \/ lock' = Freed(c)
         \/ lock' = [Freed(c) EXCEPT !.poisoned = TRUE]
  PROVE  ServerInv'
<1>1. /\ ~Early(conns'[c]) /\ ~Writing(conns'[c]) /\ ~Reading(conns'[c])
      /\ Shaped(conns') /\ \A d \in Conns \ {c} : conns'[d] = conns[d]
  BY DEF Done, Writing, Reading, OnlyChanges
<1>2. \A d \in Conns : Moves(conns[d], conns'[d])
  <2>1. Moves(conns[c], conns'[c])
    BY <1>1 DEF Moves, KeepsPlace, SameLines, Leaving, Done
  <2> QED
    BY <1>1, <2>1, StaysMoves
<1>3. Held(conns', lock)
  BY <1>1, HeldKept DEF ServerInv
<1>4. Held(conns', Freed(c)) /\ Held(conns', [Freed(c) EXCEPT !.poisoned = TRUE])
  BY <1>1, HeldFreed
<1> QED
  BY <1>1, <1>2, <1>3, <1>4, MovesStep

LEMMA GoesEnds ==
  ASSUME ServerInv, NEW c \in Conns,
         NEW label \in {"gone", "dead", "flush", "answered"}, Goes(c, label),
         label = "answered" => conns[c].at = "reply", label = "flush" => conns[c].req.op \in Controls,
         conns[c].at = "holding" => conns[c].req.op # "drop",
         rows' = rows, turns' = turns,
         \/ lock' = lock
         \/ lock' = Freed(c)
         \/ lock' = [Freed(c) EXCEPT !.poisoned = TRUE]
  PROVE  ServerInv'
<1>1. /\ OnlyChanges(c, conns'[c]) /\ SameLines(conns[c], conns'[c])
      /\ conns'[c].at = label /\ conns'[c].req = conns[c].req
  BY GoesShape DEF ServerInv
<1>2. Done(conns'[c])
  BY <1>1 DEF Done, Early
<1>3. Leaving(conns[c], conns'[c])
  BY <1>1 DEF Leaving, Dropped, HasRead, Flushing
<1> QED
  BY <1>1, <1>2, <1>3, EndsStep

\* What has been answered to a query, if not by reading, was answered at once.
LEMMA RepliesEnds ==
  ASSUME ServerInv, NEW c \in Conns, NEW status, Replies(c, status), rows' = rows, turns' = turns,
         conns[c].at = "holding" => conns[c].req.op \notin {"drop", "select", "range"},
         conns[c].at = "flush" => conns[c].req.op \notin {"select", "range"},
         conns[c].at \in {"dispatch", "flush", "holding"},
         lock' = lock \/ lock' = Freed(c)
  PROVE  ServerInv'
<1>1. /\ OnlyChanges(c, conns'[c]) /\ SameLines(conns[c], conns'[c])
      /\ conns'[c].at = "reply" /\ conns'[c].req = conns[c].req
  BY RepliesShape DEF ServerInv
<1>2. Done(conns'[c])
  BY <1>1 DEF Done, Early
<1>3. Leaving(conns[c], conns'[c])
  BY <1>1 DEF Leaving, Dropped, HasRead, Early, Flushing
<1> QED
  BY <1>1, <1>2, <1>3, EndsStep

\* A thread that stays on its way to the lock.
LEMMA EarlyStep ==
  ASSUME ServerInv, NEW c \in Conns, OnlyChanges(c, conns'[c]),
         Early(conns[c]), Early(conns'[c]), SameLines(conns[c], conns'[c]),
         rows' = rows, lock' = lock, turns' = turns
  PROVE  ServerInv'
<1>1. /\ ~Writing(conns'[c]) /\ ~Reading(conns'[c]) /\ conns'[c].at # "holding"
      /\ Shaped(conns') /\ \A d \in Conns \ {c} : conns'[d] = conns[d]
  BY DEF Early, Writing, Reading, OnlyChanges
<1>2. \A d \in Conns : Moves(conns[d], conns'[d])
  <2>1. Moves(conns[c], conns'[c])
    BY <1>1 DEF Moves, KeepsPlace, SameLines, Early, Flushing
  <2> QED
    BY <1>1, <2>1, StaysMoves
<1>3. Held(conns', lock)
  BY <1>1, HeldKept DEF ServerInv
<1> QED
  BY <1>1, <1>2, <1>3, MovesStep

\* A step that leaves threads, rows, turns and lock alone.
LEMMA OtherStep ==
  ASSUME ServerInv, UNCHANGED <<conns, rows, lock, turns>>
  PROVE  ServerInv'
BY DEF ServerInv

-----------------------------------------------------------------------------
(* The operations, in the order of Server. *)

LEMMA AcceptStep ==
  ASSUME ServerInv, NEW c \in Conns, Accept(c)
  PROVE  ServerInv'
<1>1. CASE Goes(c, "reading")
  BY <1>1, GoesShape, EarlyStep DEF ServerInv, Accept, At, Early
<1>2. CASE conns' = [d \in Conns |->
                       IF At(d, "backlog") THEN [conns[d] EXCEPT !.at = "gone"] ELSE conns[d]]
  <2>1. Shaped(conns')
    BY <1>2 DEF ServerInv, Shaped, IsConn
  <2>2. \A d \in Conns : \/ conns'[d] = conns[d]
                         \/ /\ SameLines(conns[d], conns'[d]) /\ Early(conns[d])
                            /\ Done(conns'[d]) /\ Flushing(conns'[d])
    BY <1>2 DEF ServerInv, Shaped, IsConn, SameLines, Done, Early, At, Flushing
  <2>3. \A d \in Conns : Moves(conns[d], conns'[d])
    <3> SUFFICES ASSUME NEW d \in Conns PROVE Moves(conns[d], conns'[d])
      OBVIOUS
    <3>1. CASE conns'[d] = conns[d]
      BY <3>1, StaysMoves
    <3>2. CASE SameLines(conns[d], conns'[d]) /\ Early(conns[d]) /\ Done(conns'[d]) /\ Flushing(conns'[d])
      BY <3>2 DEF Moves, KeepsPlace, SameLines, Done
    <3> QED
      BY <2>2, <3>1, <3>2
  <2>4. Held(conns', lock)
    <3>1. \A d \in Conns : /\ Writing(conns'[d]) => Writing(conns[d])
                           /\ Reading(conns'[d]) => Reading(conns[d])
      BY <2>2 DEF Done, Writing, Reading
    <3> QED
      BY <3>1, HeldKept DEF ServerInv
  <2> QED
    BY <2>1, <2>3, <2>4, MovesStep DEF Accept
<1> QED
  BY <1>1, <1>2 DEF Accept

LEMMA ReceiveStep ==
  ASSUME ServerInv, NEW c \in Conns, Receive(c)
  PROVE  ServerInv'
<1>0. conns[c].at = "reading"
  BY DEF Receive, At
<1>1. CASE Goes(c, "gone")
  BY <1>0, <1>1, GoesEnds DEF Receive
<1>2. ASSUME NEW req, NEW lines,
             conns' = [conns EXCEPT ![c].at = "dispatch", ![c].req = req, ![c].lines = lines]
      PROVE  ServerInv'
  <2>1. OnlyChanges(c, conns'[c]) /\ SameLines(conns[c], conns'[c]) /\ conns'[c].at = "dispatch"
    BY <1>2 DEF ServerInv, Shaped, IsConn, OnlyChanges, SameLines
  <2> QED
    BY <1>0, <2>1, EarlyStep DEF Receive, Early
<1>3. Goes(c, "gone") \/ \E req, lines :
        conns' = [conns EXCEPT ![c].at = "dispatch", ![c].req = req, ![c].lines = lines]
  BY DEF Receive
<1> QED
  BY <1>1, <1>2, <1>3

\* A thread that gets the lock.
LEMMA GetsStep ==
  ASSUME ServerInv, NEW c \in Conns, Goes(c, "holding"), Early(conns[c]),
         conns[c].req.op \in Writers \cup Readers,
         \A d \in Conns : ~Writing(conns[d]),
         conns[c].req.op \in Writers => \A d \in Conns : ~Reading(conns[d]),
         Held(conns', lock'), rows' = rows, turns' = Append(turns, c)
  PROVE  ServerInv'
<1>1. /\ Shaped(conns') /\ Alone(c, conns, conns')
      /\ conns'[c].at = "holding" /\ conns'[c].req = conns[c].req
      /\ conns'[c].stored = conns[c].stored
  BY GoesShape DEF ServerInv, OnlyChanges, Alone, SameLines
<1>2. History(Append(turns, c), conns', rows)
  BY <1>1, TurnHistory DEF ServerInv
<1> QED
  BY <1>1, <1>2 DEF ServerInv

\* Or that does not, because it is poisoned or there is no engine.
LEMMA NoLockStep ==
  ASSUME ServerInv, NEW c \in Conns, At(c, "dispatch"), Dies(c) \/ Replies(c, 500),
         UNCHANGED <<lock, rows, turns>>
  PROVE  ServerInv'
<1>1. conns[c].at = "dispatch"
  BY DEF At
<1> QED
  BY <1>1, GoesEnds, RepliesEnds DEF Dies

\* A writer finds nobody at work.
LEMMA LockWriteStep ==
  ASSUME ServerInv, NEW c \in Conns, LockWrite(c)
  PROVE  ServerInv'
<1>1. Early(conns[c]) /\ conns[c].req.op \in Writers
  BY DEF LockWrite, At, Op, Early
<1>2. CASE UNCHANGED <<lock, turns>> /\ (Dies(c) \/ Replies(c, 500))
  BY <1>2, NoLockStep DEF LockWrite
<1>3. CASE /\ lock.writer = Nobody /\ Goes(c, "holding")
           /\ lock' = [lock EXCEPT !.writer = c] /\ turns' = Append(turns, c)
  <2>1. OnlyChanges(c, conns'[c]) /\ conns'[c].at = "holding" /\ conns'[c].req = conns[c].req
    BY <1>3, GoesShape DEF ServerInv
  <2>2. \A d \in Conns : ~Writing(conns[d]) /\ ~Reading(conns[d])
    BY <1>3, NobodyAssumption DEF ServerInv, Held, LockWrite
  <2>3. Held(conns', lock')
    <3>1. \A d \in Conns \ {c} : ~Writing(conns'[d]) /\ ~Reading(conns'[d])
      BY <2>1, <2>2 DEF OnlyChanges
    <3>2. /\ lock' \in [writer : Conns \cup {Nobody}, readers : SUBSET Conns, poisoned : BOOLEAN]
          /\ lock'.writer = c /\ lock'.readers = {}
      BY <1>3 DEF ServerInv, Held, LockWrite
    <3>3. ~Reading(conns'[c])
      BY <1>1, <2>1 DEF Reading
    <3> QED
      BY <3>1, <3>2, <3>3 DEF Held
  <2> QED
    BY <1>1, <1>3, <2>2, <2>3, GetsStep DEF LockWrite
<1> QED
  BY <1>2, <1>3 DEF LockWrite, Locks

LEMMA LockReadStep ==
  ASSUME ServerInv, NEW c \in Conns, LockRead(c)
  PROVE  ServerInv'
<1>1. Early(conns[c]) /\ conns[c].req.op \in Readers /\ conns[c].req.op \notin Writers
  BY DEF LockRead, At, Op, Early, Readers, Writers, Bodies
<1>2. CASE UNCHANGED <<lock, turns>> /\ (Dies(c) \/ Replies(c, 500))
  BY <1>2, NoLockStep DEF LockRead
<1>3. CASE /\ lock.writer = Nobody /\ Goes(c, "holding")
           /\ lock' = [lock EXCEPT !.readers = @ \cup {c}] /\ turns' = Append(turns, c)
  <2>1. OnlyChanges(c, conns'[c]) /\ conns'[c].at = "holding" /\ conns'[c].req = conns[c].req
    BY <1>3, GoesShape DEF ServerInv
  <2>2. \A d \in Conns : ~Writing(conns[d])
    BY <1>3, NobodyAssumption DEF ServerInv, Held
  <2>3. Held(conns', lock')
    <3>1. \A d \in Conns : ~Writing(conns'[d])
      BY <1>1, <2>1, <2>2 DEF OnlyChanges, Writing
    <3>2. /\ lock' \in [writer : Conns \cup {Nobody}, readers : SUBSET Conns, poisoned : BOOLEAN]
          /\ lock'.writer = Nobody /\ lock'.readers = lock.readers \cup {c}
      BY <1>3 DEF ServerInv, Held
    <3>3. \A d \in Conns \ {c} : Reading(conns'[d]) => d \in lock.readers
      BY <2>1 DEF ServerInv, Held, OnlyChanges
    <3> QED
      BY <3>1, <3>2, <3>3 DEF Held
  <2> QED
    BY <1>1, <1>3, <2>2, <2>3, GetsStep DEF LockRead
<1> QED
  BY <1>2, <1>3 DEF LockRead, Locks

LEMMA StoreLineStep ==
  ASSUME ServerInv, NEW c \in Conns, StoreLine(c)
  PROVE  ServerInv'
<1> DEFINE row == RowOf(NextLine(c))
           new == [conns[c] EXCEPT !.n = @ + 1, !.stored = Append(@, row)]
<1>1. /\ conns[c].at = "holding" /\ conns[c].req.op \in Bodies
      /\ rows' = {r \in rows : r.key # row.key} \cup {row} /\ lock' = lock /\ turns' = turns
  BY DEF StoreLine, Stores, Working, At, Op, Inserted
<1>2. Shaped(conns) /\ conns' = [conns EXCEPT ![c] = new]
  BY DEF ServerInv, Shaped, StoreLine, Stores
<1> HIDE DEF row
<1>3. /\ IsConn(new) /\ new.at = conns[c].at /\ new.req = conns[c].req
      /\ new.stored = Append(conns[c].stored, row)
  BY <1>2 DEF Shaped, IsConn
<1> HIDE DEF new
<1>4. OnlyChanges(c, new)
  BY <1>2, <1>3, BecomesShape
<1>5. Writing(conns[c]) /\ conns[c].req.op # "drop" /\ Alone(c, conns, conns')
  BY <1>1, <1>4 DEF Writing, Writers, Bodies, OnlyChanges, Alone
<1>6. History(turns, conns', {r \in rows : r.key # row.key} \cup {row})
  <2>1. conns'[c] = new
    BY <1>4 DEF OnlyChanges
  <2> QED
    BY <1>1, <1>3, <1>5, <2>1, StoresHistory DEF ServerInv
<1>7. Held(conns', lock)
  <2>1. \A d \in Conns : /\ Writing(conns'[d]) => Writing(conns[d])
                         /\ Reading(conns'[d]) => Reading(conns[d])
    BY <1>3, <1>4 DEF OnlyChanges, Writing, Reading
  <2> QED
    BY <2>1, HeldKept DEF ServerInv
<1> QED
  BY <1>1, <1>4, <1>6, <1>7 DEF ServerInv, OnlyChanges

LEMMA SkipLineStep ==
  ASSUME ServerInv, NEW c \in Conns, SkipLine(c)
  PROVE  ServerInv'
<1>1. /\ OnlyChanges(c, conns'[c]) /\ SameLines(conns[c], conns'[c])
      /\ conns'[c].at = conns[c].at /\ conns'[c].req = conns[c].req
  BY DEF ServerInv, Shaped, IsConn, OnlyChanges, SameLines, SkipLine
<1>2. \A d \in Conns : Moves(conns[d], conns'[d])
  <2>1. Moves(conns[c], conns'[c])
    BY <1>1 DEF Moves, KeepsPlace, SameLines, Early, Dropped, HasRead, Flushing
  <2> QED
    BY <1>1, <2>1, StaysMoves DEF OnlyChanges
<1>3. Held(conns', lock)
  <2>1. \A d \in Conns : /\ Writing(conns'[d]) => Writing(conns[d])
                         /\ Reading(conns'[d]) => Reading(conns[d])
    BY <1>1 DEF OnlyChanges, Writing, Reading
  <2> QED
    BY <2>1, HeldKept DEF ServerInv
<1> QED
  BY <1>1, <1>2, <1>3, MovesStep DEF SkipLine, OnlyChanges

LEMMA InsertStep ==
  ASSUME ServerInv, NEW c \in Conns, Insert(c)
  PROVE  ServerInv'
<1>0. /\ conns[c].at = "holding" /\ conns[c].req.op = "insert"
      /\ lock' = Freed(c) /\ turns' = turns
  BY DEF Insert, Working, At, Op
<1>1. CASE Replies(c, 500) /\ rows' = rows
  BY <1>0, <1>1, RepliesEnds
<1>2. CASE /\ rows' = Inserted(RowOf(conns[c].req))
           /\ conns' = [conns EXCEPT ![c].at = "reply", ![c].reply = 200,
                                     ![c].stored = <<RowOf(conns[c].req)>>]
  <2> DEFINE row == RowOf(conns[c].req)
             new == [conns[c] EXCEPT !.at = "reply", !.reply = 200, !.stored = <<row>>]
  <2>1. /\ Shaped(conns) /\ conns' = [conns EXCEPT ![c] = new]
        /\ rows' = {r \in rows : r.key # row.key} \cup {row}
    BY <1>2 DEF ServerInv, Shaped, Inserted
  <2> HIDE DEF row
  <2>2. IsConn(conns[c])
    BY <2>1 DEF Shaped
  <2>3. IsConn(new)
    BY <2>2 DEF IsConn
  <2>4. new.at = "reply" /\ new.req = conns[c].req /\ new.stored = <<row>>
    BY <2>2 DEF IsConn
  <2> HIDE DEF new
  <2>5. OnlyChanges(c, new)
    BY <2>1, <2>3, BecomesShape
  <2>6. Writing(conns[c]) /\ conns[c].req.op # "drop" /\ Alone(c, conns, conns')
    BY <1>0, <2>5 DEF Writing, Writers, OnlyChanges, Alone
  <2>7. new.stored = Append(conns[c].stored, row)
    <3>1. conns[c].stored = <<>>
      BY <1>0, <2>6 DEF ServerInv, History, Storing, Bodies
    <3>2. Append(<<>>, row) = <<row>>
      OBVIOUS
    <3> QED
      BY <2>4, <3>1, <3>2
  <2>8. History(turns, conns', {r \in rows : r.key # row.key} \cup {row})
    <3>1. conns'[c] = new
      BY <2>5 DEF OnlyChanges
    <3> QED
      BY <2>4, <2>6, <2>7, <3>1, StoresHistory DEF ServerInv
  <2>9. Held(conns', Freed(c))
    BY <2>4, <2>5, HeldFreed DEF OnlyChanges, Writing, Reading
  <2> QED
    BY <1>0, <2>1, <2>5, <2>8, <2>9 DEF ServerInv, OnlyChanges
<1> QED
  BY <1>1, <1>2 DEF Insert

LEMMA DropsStep ==
  ASSUME ServerInv, NEW c \in Conns, Drops(c)
  PROVE  ServerInv'
<1>1. /\ conns[c].at = "holding" /\ conns[c].req.op = "drop"
      /\ rows' = {} /\ lock' = Freed(c) /\ turns' = turns
  BY DEF Drops, Finishes, Working, At, Op
<1>2. /\ OnlyChanges(c, conns'[c]) /\ SameLines(conns[c], conns'[c])
      /\ conns'[c].at = "reply" /\ conns'[c].req = conns[c].req
  BY RepliesShape DEF Drops, Finishes, ServerInv
<1>3. /\ Writing(conns[c]) /\ ~Writing(conns'[c]) /\ ~Reading(conns'[c])
      /\ Alone(c, conns, conns')
  BY <1>1, <1>2 DEF OnlyChanges, Alone, Writing, Reading, Writers
<1>4. History(turns, conns', {})
  BY <1>1, <1>2, <1>3, DropsHistory DEF ServerInv, SameLines
<1>5. Held(conns', Freed(c))
  BY <1>3, HeldFreed DEF Alone
<1> QED
  BY <1>1, <1>2, <1>4, <1>5 DEF ServerInv, OnlyChanges

\* A reader shares the lock with readers only: no writer is half done.
LEMMA ReadsStep ==
  ASSUME ServerInv, NEW c \in Conns, Reads(c)
  PROVE  ServerInv'
<1>1. /\ conns[c].at = "holding" /\ conns[c].req.op \notin Writers
      /\ rows' = rows /\ lock' = Freed(c) /\ turns' = turns
  BY DEF Reads, Working, At, Op, Readers, Writers, Bodies
<1> DEFINE seen == Found(rows, conns[c].req)
           new == [conns[c] EXCEPT !.at = "reply", !.reply = 200, !.seen = seen]
<1>2. Shaped(conns) /\ conns' = [conns EXCEPT ![c] = new]
  BY DEF ServerInv, Shaped, Reads
<1> HIDE DEF seen
<1>3. IsConn(conns[c])
  BY <1>2 DEF Shaped
<1>4. IsConn(new)
  BY <1>3 DEF IsConn
<1>5. /\ new.at = "reply" /\ new.req = conns[c].req /\ new.stored = conns[c].stored
      /\ new.seen = seen
  BY <1>3 DEF IsConn
<1> HIDE DEF new
<1>6. OnlyChanges(c, new)
  BY <1>2, <1>4, BecomesShape
<1>7. /\ Reading(conns[c]) /\ Alone(c, conns, conns') /\ conns'[c] = new
      /\ ~Writing(conns'[c]) /\ ~Reading(conns'[c])
  BY <1>1, <1>5, <1>6 DEF OnlyChanges, Alone, Writing, Reading
<1>8. History(turns, conns', rows)
  BY <1>5, <1>7, ReadsHistory DEF ServerInv, seen
<1>9. Held(conns', Freed(c))
  BY <1>7, HeldFreed DEF Alone
<1> QED
  BY <1>1, <1>6, <1>8, <1>9 DEF ServerInv, OnlyChanges

\* A thread that works under the lock and is done with it.
LEMMA FinishesStep ==
  ASSUME ServerInv, NEW c \in Conns, NEW status, NEW ops, Working(c, ops), Finishes(c, status),
         rows' = rows, ops \cap {"drop", "select", "range"} = {}
  PROVE  ServerInv'
<1>1. conns[c].at = "holding" /\ conns[c].req.op \in ops
  BY DEF Working, At, Op
<1> QED
  BY <1>1, RepliesEnds DEF Finishes

LEMMA PanicStep ==
  ASSUME ServerInv, NEW c \in Conns,
         PanicOnLine(c) \/ PanicOnSample(c) \/ PanicOnRead(c) \/ PanicBeforeLock(c)
  PROVE  ServerInv'
<1>1. /\ Goes(c, "dead") /\ rows' = rows /\ turns' = turns
      /\ \/ lock' = lock
         \/ lock' = Freed(c)
         \/ lock' = [Freed(c) EXCEPT !.poisoned = TRUE]
  BY DEF PanicOnLine, PanicOnSample, PanicOnRead, PanicBeforeLock, PanicUnderGuard, Dies
<1>2. conns[c].at = "holding" => conns[c].req.op # "drop"
  BY DEF PanicOnLine, PanicOnSample, PanicOnRead, PanicBeforeLock, Working, At, Op
<1> QED
  BY <1>1, <1>2, GoesEnds

LEMMA HandlerStep ==
  ASSUME ServerInv, NEW c \in Conns, Handler(c)
  PROVE  ServerInv'
<1>1. CASE LockWrite(c)
  BY <1>1, LockWriteStep
<1>2. CASE LockRead(c)
  BY <1>2, LockReadStep
<1>3. CASE LockControl(c)
  BY <1>3, RepliesEnds, GoesEnds DEF LockControl, At, Op
<1>4. CASE Answer(c) \/ RejectRemote(c)
  BY <1>4, RepliesEnds DEF Answer, RejectRemote, At
<1>5. CASE StoreLine(c)
  BY <1>5, StoreLineStep
<1>6. CASE SkipLine(c)
  BY <1>6, SkipLineStep
<1>7. CASE PanicOnLine(c) \/ PanicOnSample(c) \/ PanicOnRead(c) \/ PanicBeforeLock(c)
  BY <1>7, PanicStep
<1>8. CASE EndWrite(c) \/ RefuseSample(c) \/ EndSamples(c) \/ ChangeSchema(c)
  BY <1>8, FinishesStep DEF EndWrite, RefuseSample, EndSamples, ChangeSchema
<1>9. CASE Insert(c)
  BY <1>9, InsertStep
<1>10. CASE Drops(c)
  BY <1>10, DropsStep
<1>11. CASE Reads(c)
  BY <1>11, ReadsStep
<1>12. CASE FlushNothing(c)
  <2>1. conns[c].at = "flush" /\ conns[c].req.op \notin {"select", "range"}
    BY <1>12 DEF FlushNothing, At, ServerInv, History, Ordered, Flushing, Controls
  <2>2. CASE Dies(c)
    BY <1>12, <2>1, <2>2, GoesEnds DEF FlushNothing, Dies
  <2>3. CASE Replies(c, 200)
    BY <1>12, <2>1, <2>3, RepliesEnds DEF FlushNothing
  <2> QED
    BY <1>12, <2>2, <2>3 DEF FlushNothing
<1>13. CASE SendReply(c)
  BY <1>13, GoesEnds DEF SendReply, At
<1> QED
  BY <1>1, <1>2, <1>3, <1>4, <1>5, <1>6, <1>7, <1>8, <1>9, <1>10, <1>11, <1>12, <1>13
     DEF Handler

LEMMA ServerInvStep == ServerInv /\ [ServerNext]_serverVars => ServerInv'
<1> SUFFICES ASSUME ServerInv, [ServerNext]_serverVars PROVE ServerInv'
  OBVIOUS
<1>1. CASE Start \/ Stop \/ SetEngine \/ UNCHANGED serverVars
  BY <1>1, OtherStep DEF Start, Stop, SetEngine, serverVars
<1>2. ASSUME NEW c \in Conns, Connect(c) PROVE ServerInv'
  <2>1. /\ OnlyChanges(c, conns'[c]) /\ SameLines(conns[c], conns'[c])
        /\ Early(conns[c]) /\ Early(conns'[c])
    BY <1>2, GoesShape DEF ServerInv, Connect, At, Early
  <2> QED
    BY <1>2, <2>1, EarlyStep DEF Connect
<1>3. ASSUME NEW c \in Conns, Accept(c) PROVE ServerInv'
  BY <1>3, AcceptStep
<1>4. ASSUME NEW c \in Conns, Receive(c) PROVE ServerInv'
  BY <1>4, ReceiveStep
<1>5. ASSUME NEW c \in Conns, Handler(c) PROVE ServerInv'
  BY <1>5, HandlerStep
<1> QED
  BY <1>1, <1>2, <1>3, <1>4, <1>5 DEF ServerNext

\* Whatever the clients of any number of connections send, whichever rows overwrite
\* one another or are dropped, and wherever panics strike, with or without a guard,
\* the answer of a query is what its measurement, range, condition and limit find
\* in the rows of whole requests, those that had the lock before it: a write stores
\* its lines under one write guard, and queries read under a read guard.
THEOREM AnswersShowWholeRequests == ServerSpec => []ReadsSeeWholeRequests
<1>1. ServerInv => ReadsSeeWholeRequests
  <2> SUFFICES ASSUME ServerInv, NEW n \in DOMAIN turns, HasRead(conns[turns[n]])
               PROVE  conns[turns[n]].seen = Found(LeftBy(n - 1), conns[turns[n]].req)
    BY DEF ReadsSeeWholeRequests
  <2>1. n \in 1..Len(turns)
    BY DEF ServerInv, History, Ordered
  <2>2. LeftBy(n - 1) = LeftIn(turns, conns, n - 1)
    BY DEF LeftBy, LeftIn
  <2> QED
    BY <2>1, <2>2 DEF ServerInv, History, AllShow, Shows
<1> QED
  BY <1>1, ServerInvInit, ServerInvStep, PTL DEF ServerSpec

-----------------------------------------------------------------------------
(* Honest answers: what each thread has counted says what it has stored. *)

Replied(conn) == conn.at \in {"reply", "answered"}
Fresh(conn) ==
  /\ conn.n = 0 /\ conn.stored = <<>> /\ conn.refused = 0 /\ conn.bad = 0
  /\ Len(conn.lines) \in Nat

\* The thread has dealt with n of the lines that arrived.
Within(conn) == conn.n \in Nat /\ Len(conn.lines) \in Nat /\ conn.n <= Len(conn.lines)

\* Every line that was taken was stored, refused or not parsed.
BadLines(lines, n) == {i \in 1..n : lines[i].kind = "bad"}
CountsLines(conn) ==
  /\ Within(conn) /\ conn.bad \in Nat /\ conn.refused \in Nat /\ Listed(conn.stored)
  /\ conn.n = Len(conn.stored) + conn.refused + conn.bad
  /\ conn.bad = Cardinality(BadLines(conn.lines, conn.n))

\* Every sample that was taken was stored.
RowsOf(lines, n) == [i \in 1..n |-> RowOf(lines[i])]
TakesSamples(conn) == Within(conn) /\ conn.stored = RowsOf(conn.lines, conn.n)

ReplyInv(conn) ==
  /\ Early(conn) => Fresh(conn)
  /\ conn.at = "flush" => conn.req.op \in Controls
  /\ conn.req.op = "write" => CountsLines(conn)
  /\ conn.req.op = "samples" => TakesSamples(conn)
  /\ conn.req.op \notin Bodies /\ ~(conn.req.op = "insert" /\ Replied(conn)) => conn.stored = <<>>
  /\ Replied(conn) => HonestReply(conn)

HonestInv == Shaped(conns) /\ \A c \in Conns : ReplyInv(conns[c])

\* Thread s has counted what thread r had.
CountsOf(r, s) ==
  /\ s.req = r.req /\ s.lines = r.lines /\ s.n = r.n
  /\ s.stored = r.stored /\ s.refused = r.refused /\ s.bad = r.bad

\* The answers that are honest whatever has been stored, and those that are not.
FairStatus(conn, status) ==
  CASE conn.req.op = "write" ->
         /\ status = 400 => conn.stored = <<>> /\ conn.bad > 0
         /\ status = 204 => conn.n = Len(conn.lines) /\ (conn.bad > 0 => conn.stored # <<>>)
    [] conn.req.op = "samples" ->
         status \in {204, 500} /\ (status = 204 => conn.n = Len(conn.lines))
    [] conn.req.op = "insert" -> status # 200
    [] OTHER -> TRUE

LEMMA FreshInv ==
  ASSUME NEW conn, Fresh(conn), ~Replied(conn), conn.at = "flush" => conn.req.op \in Controls
  PROVE  ReplyInv(conn)
<1>1. Within(conn)
  BY DEF Fresh, Within
<1>2. CountsLines(conn)
  <2>1. BadLines(conn.lines, 0) = {}
    BY DEF BadLines
  <2>2. Cardinality(BadLines(conn.lines, 0)) = 0
    BY <2>1, FS_EmptySet
  <2>3. Len(<<>>) = 0 /\ Listed(<<>>)
    BY DEF Listed
  <2> QED
    BY <1>1, <2>2, <2>3 DEF Fresh, CountsLines
<1>3. TakesSamples(conn)
  <2>1. RowsOf(conn.lines, 0) = <<>>
    BY DEF RowsOf
  <2> QED
    BY <1>1, <2>1 DEF Fresh, TakesSamples
<1> QED
  BY <1>2, <1>3 DEF Fresh, ReplyInv

LEMMA GoesKeeps ==
  ASSUME Shaped(conns), NEW c \in Conns, NEW label, Goes(c, label)
  PROVE  OnlyChanges(c, conns'[c]) /\ CountsOf(conns[c], conns'[c]) /\ conns'[c].at = label
         /\ conns'[c].reply = conns[c].reply
BY DEF Shaped, IsConn, OnlyChanges, CountsOf, Goes

LEMMA RepliesKeeps ==
  ASSUME Shaped(conns), NEW c \in Conns, NEW status, Replies(c, status)
  PROVE  OnlyChanges(c, conns'[c]) /\ CountsOf(conns[c], conns'[c])
         /\ conns'[c].at = "reply" /\ conns'[c].reply = status
BY DEF Shaped, IsConn, OnlyChanges, CountsOf, Replies

\* One thread changes, and keeps the invariant.
LEMMA OneStep ==
  ASSUME HonestInv, NEW c \in Conns, OnlyChanges(c, conns'[c]), ReplyInv(conns'[c])
  PROVE  HonestInv'
BY DEF HonestInv, OnlyChanges

\* What a thread has counted does not depend on where it is.
LEMMA SameCounts ==
  ASSUME NEW r, NEW s, CountsOf(r, s)
  PROVE  /\ Fresh(r) => Fresh(s)
         /\ CountsLines(r) => CountsLines(s)
         /\ TakesSamples(r) => TakesSamples(s)
BY DEF CountsOf, Fresh, CountsLines, TakesSamples, Within

\* A thread that goes on without counting anything and without an answer.
LEMMA MovesInv ==
  ASSUME NEW r, NEW s, ReplyInv(r), CountsOf(r, s), ~Replied(r), ~Replied(s),
         Early(s) => Early(r), s.at = "flush" => s.req.op \in Controls
  PROVE  ReplyInv(s)
<1>1. /\ Fresh(r) => Fresh(s)
      /\ CountsLines(r) => CountsLines(s)
      /\ TakesSamples(r) => TakesSamples(s)
  BY SameCounts
<1> QED
  BY <1>1 DEF ReplyInv, CountsOf

LEMMA AnswerInv ==
  ASSUME NEW r, NEW s, ReplyInv(r), CountsOf(r, s), ~Replied(r),
         s.at = "reply", FairStatus(r, s.reply)
  PROVE  ReplyInv(s)
<1>1. ~Early(s) /\ s.at # "flush" /\ Replied(s)
  BY DEF Early, Replied
<1>2. HonestReply(s)
  <2>1. CASE r.req.op = "write"
    <3>1. CountsLines(r) /\ FairStatus(r, s.reply)
      BY <2>1 DEF ReplyInv
    <3> QED
      BY <2>1, <3>1 DEF CountsOf, CountsLines, BadLines, HonestReply, FairStatus
  <2>2. CASE r.req.op = "samples"
    BY <2>2 DEF ReplyInv, TakesSamples, RowsOf, CountsOf, HonestReply, FairStatus
  <2>3. CASE r.req.op = "insert"
    <3>1. r.stored = <<>> /\ s.stored = <<>> /\ s.reply # 200 /\ s.req.op = "insert"
      BY <2>3 DEF ReplyInv, CountsOf, FairStatus, Bodies
    <3>2. \A row : <<>> # <<row>>
      OBVIOUS
    <3> QED
      BY <3>1, <3>2 DEF HonestReply
  <2>4. CASE r.req.op \notin Bodies \cup {"insert"}
    BY <2>4 DEF ReplyInv, CountsOf, HonestReply, Bodies
  <2> QED
    BY <2>1, <2>2, <2>3, <2>4 DEF Bodies
<1>3. /\ CountsLines(r) => CountsLines(s)
      /\ TakesSamples(r) => TakesSamples(s)
  BY SameCounts
<1> QED
  BY <1>1, <1>2, <1>3 DEF ReplyInv, CountsOf, Replied

LEMMA GoesHonest ==
  ASSUME HonestInv, NEW c \in Conns, NEW label, Goes(c, label), ~Replied(conns[c]),
         label \notin {"reply", "answered"},
         label \in {"away", "backlog", "reading", "dispatch"} => Early(conns[c]),
         label = "flush" => conns[c].req.op \in Controls
  PROVE  HonestInv'
<1>1. OnlyChanges(c, conns'[c]) /\ CountsOf(conns[c], conns'[c]) /\ conns'[c].at = label
  BY GoesKeeps DEF HonestInv
<1>2. ReplyInv(conns'[c])
  BY <1>1, MovesInv DEF HonestInv, Replied, Early, CountsOf
<1> QED
  BY <1>1, <1>2, OneStep

LEMMA RepliesHonest ==
  ASSUME HonestInv, NEW c \in Conns, NEW status, Replies(c, status), ~Replied(conns[c]),
         FairStatus(conns[c], status)
  PROVE  HonestInv'
<1>1. OnlyChanges(c, conns'[c]) /\ CountsOf(conns[c], conns'[c])
      /\ conns'[c].at = "reply" /\ conns'[c].reply = status
  BY RepliesKeeps DEF HonestInv
<1>2. ReplyInv(conns'[c])
  BY <1>1, AnswerInv DEF HonestInv
<1> QED
  BY <1>1, <1>2, OneStep

\* An error of the server claims nothing about a body.
LEMMA ErrorIsFair == \A conn : FairStatus(conn, 500)
BY DEF FairStatus

LEMMA LocksHonest ==
  ASSUME HonestInv, NEW c \in Conns, NEW newLock, At(c, "dispatch"), Locks(c, newLock)
  PROVE  HonestInv'
<1>1. ~Replied(conns[c])
  BY DEF At, Replied
<1>2. CASE Dies(c) \/ Goes(c, "holding")
  BY <1>1, <1>2, GoesHonest DEF Dies
<1>3. CASE Replies(c, 500)
  BY <1>1, <1>3, RepliesHonest, ErrorIsFair
<1> QED
  BY <1>2, <1>3 DEF Locks

LEMMA AcceptHonest ==
  ASSUME HonestInv, NEW c \in Conns, Accept(c)
  PROVE  HonestInv'
<1>1. CASE Goes(c, "reading")
  BY <1>1, GoesHonest DEF Accept, At, Early, Replied
<1>2. CASE conns' = [d \in Conns |->
                       IF At(d, "backlog") THEN [conns[d] EXCEPT !.at = "gone"] ELSE conns[d]]
  <2>1. Shaped(conns')
    BY <1>2 DEF HonestInv, Shaped, IsConn
  <2>2. ASSUME NEW d \in Conns PROVE ReplyInv(conns'[d])
    <3>1. CASE At(d, "backlog")
      <4>1. CountsOf(conns[d], conns'[d]) /\ conns'[d].at = "gone"
        BY <1>2, <3>1 DEF HonestInv, Shaped, IsConn, CountsOf
      <4> QED
        BY <3>1, <4>1, MovesInv DEF HonestInv, At, Replied, Early
    <3>2. CASE ~At(d, "backlog")
      BY <1>2, <3>2 DEF HonestInv
    <3> QED
      BY <3>1, <3>2
  <2> QED
    BY <2>1, <2>2 DEF HonestInv
<1> QED
  BY <1>1, <1>2 DEF Accept

\* What arrives is a list of lines.
LEMMA CutsAreLists ==
  ASSUME NEW S, NEW lines \in Seq(S), NEW some \in Cuts(lines)
  PROVE  Len(some) \in Nat
<1>1. CASE some \in {SubSeq(lines, 1, n) : n \in 0..Len(lines)}
  <2>1. PICK n \in 0..Len(lines) : some = SubSeq(lines, 1, n)
    BY <1>1
  <2>2. some \in Seq(S)
    BY <2>1, SubSeqFacts
  <2> QED
    BY <2>2
<1>2. CASE some \in UNION {{Append(SubSeq(lines, 1, n - 1), end) : end \in Shortened(lines[n])}
                             : n \in DOMAIN lines}
  <2>0. PICK n \in DOMAIN lines :
          some \in {Append(SubSeq(lines, 1, n - 1), end) : end \in Shortened(lines[n])}
    BY <1>2
  <2>1. PICK end \in Shortened(lines[n]) : some = Append(SubSeq(lines, 1, n - 1), end)
    BY <2>0
  <2>2. n - 1 \in 0..Len(lines)
    OBVIOUS
  <2>3. SubSeq(lines, 1, n - 1) \in Seq(S)
    BY <2>2, SubSeqFacts
  <2> DEFINE front == SubSeq(lines, 1, n - 1)
  <2>4. front \in Seq(S \cup {end}) /\ end \in S \cup {end}
    BY <2>3
  <2> HIDE DEF front
  <2>5. Append(front, end) \in Seq(S \cup {end})
    BY <2>4
  <2> QED
    BY <2>1, <2>5 DEF front
<1> QED
  BY <1>1, <1>2 DEF Cuts

GetsLines(req, lines) ==
  lines \in CASE req.op = "write" -> Arrived(req)
              [] req.op = "samples" -> Decoded(req.lines)
              [] OTHER -> {<<>>}

LEMMA ArrivesList ==
  ASSUME NEW req \in RequestType, NEW lines, GetsLines(req, lines)
  PROVE  Len(lines) \in Nat
<1>1. CASE req.op = "write"
  <2>1. \E S : req.lines \in Seq(S) /\ req.headers \in Seq(S)
    BY <1>1 DEF RequestType, StatementRequests, CreateRequests, DropRequests, AlterRequests,
         InsertRequests, ShowRequests, SelectRequests, Unlocked, Controls, Garbled
  <2>2. PICK S : req.lines \in Seq(S) /\ req.headers \in Seq(S)
    BY <2>1
  <2>3. lines \in Cuts(req.lines) \/ lines \in Cuts(req.headers)
    BY <1>1 DEF GetsLines, Arrived
  <2> QED
    BY <2>2, <2>3, CutsAreLists
<1>2. CASE req.op = "samples"
  <2>1. \E S : req.lines \in Seq(S)
    BY <1>2 DEF RequestType, StatementRequests, CreateRequests, DropRequests, AlterRequests,
         InsertRequests, ShowRequests, SelectRequests, Unlocked, Controls, Garbled
  <2>2. PICK S : req.lines \in Seq(S)
    BY <2>1
  <2>3. PICK n \in 0..Len(req.lines) : lines = SubSeq(req.lines, 1, n)
    BY <1>2 DEF GetsLines, Decoded
  <2>4. lines \in Seq(S)
    BY <2>2, <2>3, SubSeqFacts
  <2> QED
    BY <2>4
<1>3. CASE req.op \notin {"write", "samples"}
  <2>1. lines = <<>>
    BY <1>3 DEF GetsLines
  <2>2. Len(<<>>) \in Nat
    OBVIOUS
  <2> QED
    BY <2>1, <2>2
<1> QED
  BY <1>1, <1>2, <1>3

LEMMA ReceiveHonest ==
  ASSUME HonestInv, NEW c \in Conns, Receive(c)
  PROVE  HonestInv'
<1>0. Early(conns[c]) /\ Fresh(conns[c]) /\ ~Replied(conns[c])
  BY DEF HonestInv, ReplyInv, Receive, At, Early, Replied
<1>1. CASE Goes(c, "gone")
  BY <1>0, <1>1, GoesHonest
<1>2. ASSUME NEW req \in Requests[c], NEW lines, GetsLines(req, lines),
             conns' = [conns EXCEPT ![c].at = "dispatch", ![c].req = req, ![c].lines = lines]
      PROVE  HonestInv'
  <2>0. Len(lines) \in Nat
    BY <1>2, ArrivesList, ServerAssumption
  <2>1. /\ OnlyChanges(c, conns'[c]) /\ conns'[c].at = "dispatch"
        /\ conns'[c].n = conns[c].n /\ conns'[c].stored = conns[c].stored
        /\ conns'[c].refused = conns[c].refused /\ conns'[c].bad = conns[c].bad
        /\ conns'[c].lines = lines
    BY <1>2 DEF HonestInv, Shaped, IsConn, OnlyChanges
  <2>2. Fresh(conns'[c]) /\ ~Replied(conns'[c]) /\ conns'[c].at # "flush"
    BY <1>0, <2>0, <2>1 DEF Fresh, Replied
  <2>3. ReplyInv(conns'[c])
    BY <2>2, FreshInv
  <2> QED
    BY <2>1, <2>3, OneStep
<1>3. Goes(c, "gone") \/ \E req \in Requests[c] : \E lines :
        /\ GetsLines(req, lines)
        /\ conns' = [conns EXCEPT ![c].at = "dispatch", ![c].req = req, ![c].lines = lines]
  BY DEF Receive, GetsLines
<1> QED
  BY <1>1, <1>2, <1>3

\* A thread takes its next line: it holds the lock, and goes on holding it.
Takes(r, s) ==
  /\ r.at = "holding" /\ s.at = "holding" /\ s.req = r.req /\ s.lines = r.lines
  /\ r.n < Len(r.lines) /\ s.n = r.n + 1

\* One more line, and whether it is among those that cannot be parsed.
LEMMA OneMoreLine ==
  ASSUME NEW lines, NEW n \in Nat
  PROVE  /\ Cardinality(BadLines(lines, n)) \in Nat
         /\ Cardinality(BadLines(lines, n + 1)) =
              Cardinality(BadLines(lines, n)) + (IF lines[n + 1].kind = "bad" THEN 1 ELSE 0)
<1> DEFINE before == BadLines(lines, n)
<1>1. IsFiniteSet(before) /\ n + 1 \notin before
  <2>1. IsFiniteSet(1..n)
    BY FS_Interval
  <2>2. before \subseteq 1..n
    BY DEF BadLines
  <2>3. n + 1 \notin 1..n
    OBVIOUS
  <2> QED
    BY <2>1, <2>2, <2>3, FS_Subset
<1>2. BadLines(lines, n + 1) = IF lines[n + 1].kind = "bad" THEN before \cup {n + 1} ELSE before
  BY DEF BadLines
<1> HIDE DEF before
<1>3. Cardinality(before) \in Nat /\ Cardinality(before \cup {n + 1}) = Cardinality(before) + 1
  BY <1>1, FS_CardinalityType, FS_AddElement
<1> QED
  BY <1>2, <1>3 DEF before

LEMMA OneMoreSample ==
  ASSUME NEW lines, NEW n \in Nat
  PROVE  Append(RowsOf(lines, n), RowOf(lines[n + 1])) = RowsOf(lines, n + 1)
<1> DEFINE S == {RowOf(lines[i]) : i \in 1..(n + 1)}
<1>1. RowsOf(lines, n) \in Seq(S) /\ Len(RowsOf(lines, n)) = n /\ RowOf(lines[n + 1]) \in S
  BY DEF RowsOf
<1> HIDE DEF S
<1> QED
  BY <1>1 DEF RowsOf

LEMMA TakesInv ==
  ASSUME NEW r, NEW s, ReplyInv(r), Takes(r, s),
         \/ /\ r.req.op \in Bodies /\ r.lines[r.n + 1].kind # "bad"
            /\ s.stored = Append(r.stored, RowOf(r.lines[r.n + 1]))
            /\ s.refused = r.refused /\ s.bad = r.bad
         \/ /\ r.req.op = "write" /\ r.lines[r.n + 1].kind # "bad"
            /\ s.stored = r.stored /\ s.refused = r.refused + 1 /\ s.bad = r.bad
         \/ /\ r.req.op = "write" /\ r.lines[r.n + 1].kind = "bad"
            /\ s.stored = r.stored /\ s.refused = r.refused /\ s.bad = r.bad + 1
  PROVE  ReplyInv(s)
<1>1. ~Early(s) /\ ~Replied(s) /\ s.at # "flush" /\ s.req.op \in Bodies
  BY DEF Takes, Early, Replied, Bodies
<1>2. s.req.op = "write" => CountsLines(s)
  <2> SUFFICES ASSUME s.req.op = "write" PROVE CountsLines(s)
    OBVIOUS
  <2>1. CountsLines(r)
    BY DEF Takes, ReplyInv
  <2>2. Within(s) /\ r.n \in Nat
    BY <2>1 DEF CountsLines, Within, Takes
  <2>3. /\ Listed(s.stored)
        /\ s.stored = r.stored \/ Len(s.stored) = Len(r.stored) + 1
        /\ Len(r.stored) \in Nat
    <3>1. Listed(r.stored)
      BY <2>1 DEF CountsLines
    <3>2. \A row : Listed(Append(r.stored, row)) /\ Len(Append(r.stored, row)) = Len(r.stored) + 1
                   /\ Len(r.stored) \in Nat
      <4> SUFFICES ASSUME NEW row
                   PROVE  Listed(Append(r.stored, row)) /\ Len(Append(r.stored, row)) = Len(r.stored) + 1
                          /\ Len(r.stored) \in Nat
        OBVIOUS
      <4>1. Listed(Append(r.stored, row))
        BY <3>1, ListedMore
      <4>2. r.stored \in Seq({r.stored[i] : i \in DOMAIN r.stored})
        BY <3>1 DEF Listed
      <4> QED
        BY <4>1, <4>2
    <3> QED
      BY <3>1, <3>2
  <2>4. /\ Cardinality(BadLines(r.lines, r.n)) \in Nat
        /\ Cardinality(BadLines(r.lines, r.n + 1)) =
             Cardinality(BadLines(r.lines, r.n)) + (IF r.lines[r.n + 1].kind = "bad" THEN 1 ELSE 0)
    BY <2>2, OneMoreLine
  <2>5. s.bad \in Nat /\ s.bad = Cardinality(BadLines(s.lines, s.n))
    BY <2>1, <2>4 DEF CountsLines, Takes
  <2>6. s.refused \in Nat /\ s.n = Len(s.stored) + s.refused + s.bad
    <3>1. r.n \in Nat /\ r.refused \in Nat /\ r.bad \in Nat /\ Len(r.stored) \in Nat
          /\ r.n = Len(r.stored) + r.refused + r.bad /\ s.n = r.n + 1
      BY <2>1, <2>2, <2>3 DEF CountsLines, Takes
    <3>2. CASE Len(s.stored) = Len(r.stored) + 1 /\ s.refused = r.refused /\ s.bad = r.bad
      BY <3>1, <3>2
    <3>3. CASE s.stored = r.stored /\ s.refused = r.refused + 1 /\ s.bad = r.bad
      <4>1. Len(s.stored) = Len(r.stored)
        BY <3>3
      <4>2. r.refused + 1 \in Nat /\ r.n + 1 = Len(r.stored) + (r.refused + 1) + r.bad
        BY <3>1
      <4> QED
        BY <3>1, <3>3, <4>1, <4>2
    <3>4. CASE s.stored = r.stored /\ s.refused = r.refused /\ s.bad = r.bad + 1
      <4>1. Len(s.stored) = Len(r.stored)
        BY <3>4
      <4> QED
        BY <3>1, <3>4, <4>1
    <3>5. \A row : Len(Append(r.stored, row)) = Len(r.stored) + 1
      <4>1. r.stored \in Seq({r.stored[i] : i \in DOMAIN r.stored})
        BY <2>1 DEF CountsLines, Listed
      <4> QED
        BY <4>1
    <3> QED
      BY <3>2, <3>3, <3>4, <3>5
  <2> QED
    BY <2>2, <2>3, <2>5, <2>6 DEF CountsLines
<1>3. s.req.op = "samples" => TakesSamples(s)
  <2> SUFFICES ASSUME s.req.op = "samples" PROVE TakesSamples(s)
    OBVIOUS
  <2>1. /\ TakesSamples(r) /\ s.n = r.n + 1 /\ s.lines = r.lines
        /\ s.stored = Append(r.stored, RowOf(r.lines[r.n + 1]))
    BY DEF Takes, ReplyInv
  <2>2. Within(s) /\ r.n \in Nat
    BY <2>1 DEF TakesSamples, Within, Takes
  <2> QED
    BY <2>1, <2>2, OneMoreSample DEF TakesSamples
<1> QED
  BY <1>1, <1>2, <1>3 DEF ReplyInv

LEMMA StoreLineHonest ==
  ASSUME HonestInv, NEW c \in Conns, StoreLine(c)
  PROVE  HonestInv'
<1> DEFINE row == RowOf(NextLine(c))
           new == [conns[c] EXCEPT !.n = @ + 1, !.stored = Append(@, row)]
<1>1. Shaped(conns) /\ conns' = [conns EXCEPT ![c] = new]
  BY DEF HonestInv, Shaped, StoreLine, Stores
<1> HIDE DEF row
<1>2. /\ IsConn(new) /\ new.at = conns[c].at /\ new.req = conns[c].req /\ new.lines = conns[c].lines
      /\ new.n = conns[c].n + 1 /\ new.stored = Append(conns[c].stored, row)
      /\ new.refused = conns[c].refused /\ new.bad = conns[c].bad
  BY <1>1 DEF Shaped, IsConn
<1> HIDE DEF new
<1>3. OnlyChanges(c, new)
  BY <1>1, <1>2, BecomesShape
<1>4. /\ conns[c].at = "holding" /\ conns[c].req.op \in Bodies
      /\ conns[c].n < Len(conns[c].lines) /\ conns[c].lines[conns[c].n + 1].kind # "bad"
      /\ row = RowOf(conns[c].lines[conns[c].n + 1])
  BY DEF StoreLine, Working, At, Op, MoreLines, NextLine, row
<1>5. Takes(conns[c], new) /\ ReplyInv(conns[c])
  BY <1>2, <1>4 DEF Takes, HonestInv
<1>6. ReplyInv(new)
  BY <1>2, <1>4, <1>5, TakesInv
<1> QED
  BY <1>3, <1>6, OneStep DEF OnlyChanges

LEMMA SkipLineHonest ==
  ASSUME HonestInv, NEW c \in Conns, SkipLine(c)
  PROVE  HonestInv'
<1> DEFINE bad == NextLine(c).kind = "bad"
           new == IF bad THEN [conns[c] EXCEPT !.n = @ + 1, !.bad = @ + 1]
                  ELSE [conns[c] EXCEPT !.n = @ + 1, !.refused = @ + 1]
<1>1. Shaped(conns) /\ conns' = [conns EXCEPT ![c] = new]
  BY DEF HonestInv, Shaped, SkipLine
<1> HIDE DEF bad
<1>2. /\ IsConn(new) /\ new.at = conns[c].at /\ new.req = conns[c].req /\ new.lines = conns[c].lines
      /\ new.n = conns[c].n + 1 /\ new.stored = conns[c].stored
      /\ \/ ~bad /\ new.refused = conns[c].refused + 1 /\ new.bad = conns[c].bad
         \/ bad /\ new.refused = conns[c].refused /\ new.bad = conns[c].bad + 1
  BY <1>1 DEF Shaped, IsConn
<1> HIDE DEF new
<1>3. OnlyChanges(c, new)
  BY <1>1, <1>2, BecomesShape
<1>4. /\ conns[c].at = "holding" /\ conns[c].req.op = "write"
      /\ conns[c].n < Len(conns[c].lines)
      /\ bad <=> conns[c].lines[conns[c].n + 1].kind = "bad"
  BY DEF SkipLine, Working, At, Op, MoreLines, NextLine, bad
<1>5. Takes(conns[c], new) /\ ReplyInv(conns[c])
  BY <1>2, <1>4 DEF Takes, HonestInv
<1>6. ReplyInv(new)
  BY <1>2, <1>4, <1>5, TakesInv
<1> QED
  BY <1>3, <1>6, OneStep DEF OnlyChanges

LEMMA InsertHonest ==
  ASSUME HonestInv, NEW c \in Conns, Insert(c)
  PROVE  HonestInv'
<1>0. conns[c].req.op = "insert" /\ ~Replied(conns[c])
  BY DEF Insert, Working, At, Op, Replied
<1>1. CASE Replies(c, 500)
  BY <1>0, <1>1, RepliesHonest, ErrorIsFair
<1>2. CASE conns' = [conns EXCEPT ![c].at = "reply", ![c].reply = 200,
                                  ![c].stored = <<RowOf(conns[c].req)>>]
  <2> DEFINE row == RowOf(conns[c].req)
             new == [conns[c] EXCEPT !.at = "reply", !.reply = 200, !.stored = <<row>>]
  <2>1. Shaped(conns) /\ conns' = [conns EXCEPT ![c] = new]
    BY <1>2 DEF HonestInv, Shaped
  <2> HIDE DEF row
  <2>2. IsConn(conns[c])
    BY <2>1 DEF Shaped
  <2>3. IsConn(new)
    BY <2>2 DEF IsConn
  <2>4. new.at = "reply" /\ new.reply = 200 /\ new.stored = <<row>> /\ new.req = conns[c].req
    BY <2>2 DEF IsConn
  <2> HIDE DEF new
  <2>5. OnlyChanges(c, new)
    BY <2>1, <2>3, BecomesShape
  <2>6. ReplyInv(new)
    BY <1>0, <2>4 DEF ReplyInv, HonestReply, Early, Replied, Bodies, row
  <2> QED
    BY <2>5, <2>6, OneStep DEF OnlyChanges
<1> QED
  BY <1>1, <1>2 DEF Insert

LEMMA ReadsHonest ==
  ASSUME HonestInv, NEW c \in Conns, Reads(c)
  PROVE  HonestInv'
<1>0. conns[c].req.op \in Readers /\ ~Replied(conns[c])
  BY DEF Reads, Working, At, Op, Replied
<1> DEFINE seen == Found(rows, conns[c].req)
           new == [conns[c] EXCEPT !.at = "reply", !.reply = 200, !.seen = seen]
<1>2. Shaped(conns) /\ conns' = [conns EXCEPT ![c] = new]
  BY DEF HonestInv, Shaped, Reads
<1> HIDE DEF seen
<1>3. IsConn(conns[c])
  BY <1>2 DEF Shaped
<1>4. IsConn(new)
  BY <1>3 DEF IsConn
<1>5. new.at = "reply" /\ CountsOf(conns[c], new)
  BY <1>3 DEF IsConn, CountsOf
<1> HIDE DEF new
<1>6. OnlyChanges(c, new)
  BY <1>2, <1>4, BecomesShape
<1>7. FairStatus(conns[c], new.reply)
  BY <1>0 DEF FairStatus, Readers
<1>8. ReplyInv(new)
  BY <1>0, <1>5, <1>7, AnswerInv DEF HonestInv
<1> QED
  BY <1>6, <1>8, OneStep DEF OnlyChanges

\* What the threads answer that hold the lock to the end.
LEMMA FinishHonest ==
  ASSUME HonestInv, NEW c \in Conns,
         EndWrite(c) \/ RefuseSample(c) \/ EndSamples(c) \/ Drops(c) \/ ChangeSchema(c)
  PROVE  HonestInv'
<1>0. ~Replied(conns[c])
  BY DEF EndWrite, RefuseSample, EndSamples, Drops, ChangeSchema, Working, At, Replied
<1>1. CASE EndWrite(c)
  <2>1. conns[c].req.op = "write" /\ ~(conns[c].n < Len(conns[c].lines))
    BY <1>1 DEF EndWrite, Working, Op, MoreLines
  <2>2. conns[c].n = Len(conns[c].lines)
    BY <2>1 DEF HonestInv, ReplyInv, CountsLines, Within
  <2>3. FairStatus(conns[c], WriteStatus(c))
    BY <2>1, <2>2 DEF FairStatus, WriteStatus
  <2> QED
    BY <1>0, <1>1, <2>3, RepliesHonest DEF EndWrite, Finishes
<1>2. CASE RefuseSample(c)
  BY <1>0, <1>2, RepliesHonest, ErrorIsFair DEF RefuseSample, Finishes
<1>3. CASE EndSamples(c)
  <2>1. conns[c].req.op = "samples" /\ ~(conns[c].n < Len(conns[c].lines))
    BY <1>3 DEF EndSamples, Working, Op, MoreLines
  <2>2. conns[c].n = Len(conns[c].lines)
    BY <2>1 DEF HonestInv, ReplyInv, TakesSamples, Within
  <2>3. FairStatus(conns[c], 204)
    BY <2>1, <2>2 DEF FairStatus
  <2> QED
    BY <1>0, <1>3, <2>3, RepliesHonest DEF EndSamples, Finishes
<1>4. CASE Drops(c) \/ ChangeSchema(c)
  <2>1. \A status : FairStatus(conns[c], status)
    BY <1>4 DEF Drops, ChangeSchema, Working, Op, FairStatus
  <2> QED
    BY <1>0, <1>4, <2>1, RepliesHonest DEF Drops, ChangeSchema, Finishes
<1> QED
  BY <1>1, <1>2, <1>3, <1>4

\* What the threads answer that take no lock of the engine, or not this time.
LEMMA OtherHonest ==
  ASSUME HonestInv, NEW c \in Conns,
         LockControl(c) \/ Answer(c) \/ RejectRemote(c) \/ FlushNothing(c)
  PROVE  HonestInv'
<1>0. ~Replied(conns[c])
  BY DEF LockControl, Answer, RejectRemote, FlushNothing, At, Replied
<1>1. ASSUME conns[c].req.op \in Controls \cup Unlocked
      PROVE  \A status : FairStatus(conns[c], status)
  BY <1>1 DEF Controls, Unlocked, FairStatus
<1>2. CASE LockControl(c)
  BY <1>0, <1>1, <1>2, GoesHonest, RepliesHonest DEF LockControl, Op
<1>3. CASE Answer(c)
  BY <1>0, <1>1, <1>3, RepliesHonest DEF Answer, Op
<1>4. CASE RejectRemote(c)
  <2>1. PICK status \in {500} \cup (IF Op(c) = "range" THEN {400} ELSE {}) : Replies(c, status)
    BY <1>4 DEF RejectRemote
  <2>2. FairStatus(conns[c], status)
    BY <1>4, <2>1 DEF RejectRemote, Op, FairStatus
  <2> QED
    BY <1>0, <2>1, <2>2, RepliesHonest
<1>5. CASE FlushNothing(c)
  <2>1. conns[c].req.op \in Controls
    BY <1>5 DEF FlushNothing, At, HonestInv, ReplyInv
  <2> QED
    BY <1>0, <1>1, <1>5, <2>1, GoesHonest, RepliesHonest DEF FlushNothing, Dies
<1> QED
  BY <1>2, <1>3, <1>4, <1>5

LEMMA SendHonest ==
  ASSUME HonestInv, NEW c \in Conns, SendReply(c)
  PROVE  HonestInv'
<1>1. /\ OnlyChanges(c, conns'[c]) /\ CountsOf(conns[c], conns'[c])
      /\ conns'[c].at = "answered" /\ conns'[c].reply = conns[c].reply /\ conns[c].at = "reply"
  BY GoesKeeps DEF HonestInv, SendReply, At
<1>2. HonestReply(conns'[c])
  <2>1. HonestReply(conns[c])
    BY <1>1 DEF HonestInv, ReplyInv, Replied
  <2> QED
    BY <1>1, <2>1 DEF CountsOf, HonestReply
<1>3. /\ CountsLines(conns[c]) => CountsLines(conns'[c])
      /\ TakesSamples(conns[c]) => TakesSamples(conns'[c])
  BY <1>1, SameCounts
<1>4. ReplyInv(conns'[c])
  BY <1>1, <1>2, <1>3 DEF HonestInv, ReplyInv, CountsOf, Replied, Early
<1> QED
  BY <1>1, <1>4, OneStep

LEMMA DiesHonest ==
  ASSUME HonestInv, NEW c \in Conns,
         PanicOnLine(c) \/ PanicOnSample(c) \/ PanicOnRead(c) \/ PanicBeforeLock(c)
  PROVE  HonestInv'
<1>1. Goes(c, "dead") /\ ~Replied(conns[c])
  BY DEF PanicOnLine, PanicOnSample, PanicOnRead, PanicBeforeLock, PanicUnderGuard, Dies,
       Working, At, Replied
<1> QED
  BY <1>1, GoesHonest

LEMMA HonestInvStep == HonestInv /\ [ServerNext]_serverVars => HonestInv'
<1> SUFFICES ASSUME HonestInv, [ServerNext]_serverVars PROVE HonestInv'
  OBVIOUS
<1>1. CASE Start \/ Stop \/ SetEngine \/ UNCHANGED serverVars
  BY <1>1 DEF Start, Stop, SetEngine, serverVars, HonestInv
<1>2. ASSUME NEW c \in Conns, Connect(c) PROVE HonestInv'
  BY <1>2, GoesHonest DEF Connect, At, Early, Replied
<1>3. ASSUME NEW c \in Conns, Accept(c) PROVE HonestInv'
  BY <1>3, AcceptHonest
<1>4. ASSUME NEW c \in Conns, Receive(c) PROVE HonestInv'
  BY <1>4, ReceiveHonest
<1>5. ASSUME NEW c \in Conns, Handler(c) PROVE HonestInv'
  <2>1. CASE LockWrite(c) \/ LockRead(c)
    BY <2>1, LocksHonest DEF LockWrite, LockRead
  <2>2. CASE StoreLine(c) \/ SkipLine(c) \/ Insert(c) \/ Reads(c) \/ SendReply(c)
    BY <2>2, StoreLineHonest, SkipLineHonest, InsertHonest, ReadsHonest, SendHonest
  <2>3. CASE PanicOnLine(c) \/ PanicOnSample(c) \/ PanicOnRead(c) \/ PanicBeforeLock(c)
    BY <2>3, DiesHonest
  <2>4. CASE EndWrite(c) \/ RefuseSample(c) \/ EndSamples(c) \/ Drops(c) \/ ChangeSchema(c)
    BY <2>4, FinishHonest
  <2>5. CASE LockControl(c) \/ Answer(c) \/ RejectRemote(c) \/ FlushNothing(c)
    BY <2>5, OtherHonest
  <2> QED
    BY <1>5, <2>1, <2>2, <2>3, <2>4, <2>5 DEF Handler
<1> QED
  BY <1>1, <1>2, <1>3, <1>4, <1>5 DEF ServerNext

\* Whatever arrives of a body, or of the headers instead, and whichever lines are
\* refused, an answer says what was stored: 400 of a write means nothing, 204 that
\* every line was stored, or refused, or is one of those that cannot be parsed; a
\* remote write has stored the samples before the one that was refused, in their
\* order; an insertion is stored exactly if it is answered with 200.
THEOREM RepliesAreHonest == ServerSpec => []RepliesMatchStore
<1>1. ServerInit => HonestInv
  <2> SUFFICES ASSUME ServerInit PROVE HonestInv
    OBVIOUS
  <2>1. Shaped(conns)
    BY ServerInvInit DEF ServerInv
  <2>2. \A c \in Conns : Fresh(conns[c]) /\ ~Replied(conns[c]) /\ conns[c].at # "flush"
    BY DEF ServerInit, Away, Fresh, Replied
  <2> QED
    BY <2>1, <2>2, FreshInv DEF HonestInv
<1>2. HonestInv => RepliesMatchStore
  BY DEF HonestInv, ReplyInv, Replied, RepliesMatchStore, At
<1> QED
  BY <1>1, <1>2, HonestInvStep, PTL DEF ServerSpec

-----------------------------------------------------------------------------
(* Flight: batches. *)

\* The batches after one more row.
Filled(state, row) ==
  LET open == Append(state.open, row)
  IN  IF Len(open) >= MaxBatchRows
      THEN [full |-> Append(state.full, open), open |-> <<>>]
      ELSE [full |-> state.full, open |-> open]

NoBatches == [full |-> <<>>, open |-> <<>>]
BatchStates(S) == [full : Seq(Seq(S)), open : Seq(S)]

IsChunked(g, S, list) ==
  /\ g \in [0..Len(list) -> BatchStates(S)]
  /\ g[0] = NoBatches
  /\ \A i \in 1..Len(list) : g[i] = Filled(g[i - 1], list[i])
  /\ LET end == g[Len(list)]
     IN  Chunks(list) = IF end.open = <<>> THEN end.full ELSE Append(end.full, end.open)

LEMMA FilledIsState ==
  ASSUME NEW S, NEW state \in BatchStates(S), NEW row \in S
  PROVE  Filled(state, row) \in BatchStates(S)
<1>1. Append(state.open, row) \in Seq(S) /\ state.full \in Seq(Seq(S)) /\ <<>> \in Seq(S)
  BY DEF BatchStates
<1> DEFINE T == Seq(S)
<1>2. Append(state.full, Append(state.open, row)) \in Seq(T)
  <2>1. state.full \in Seq(T) /\ Append(state.open, row) \in T
    BY <1>1
  <2> HIDE DEF T
  <2> QED
    BY <2>1
<1> QED
  BY <1>1, <1>2 DEF Filled, BatchStates

LEMMA ChunkRounds ==
  ASSUME NEW S, NEW list \in Seq(S)
  PROVE  \E g : IsChunked(g, S, list)
<1> DEFINE n == Len(list)
           T == BatchStates(S)
           step == [i \in 1..n |-> [state \in T |-> Filled(state, list[i])]]
           Rounds(p) == [i \in 0..n |-> IF i = 0 THEN NoBatches ELSE Filled(p[i - 1], list[i])]
           f == CHOOSE p : p = Rounds(p)
           end == f[n]
<1>1. n \in Nat /\ NoBatches \in T /\ \A i \in 1..n : list[i] \in S
  BY DEF NoBatches, BatchStates
<1>2. \A i \in 1..n, state \in T : Filled(state, list[i]) \in T /\ step[i][state] = Filled(state, list[i])
  BY <1>1, FilledIsState
<1>3. step \in [1..n -> [T -> T]]
  <2>1. \A i \in 1..n, state \in T : Filled(state, list[i]) \in T
    BY <1>2
  <2> HIDE DEF T
  <2> QED
    BY <2>1
<1>4. Chunks(list) = IF end.open = <<>> THEN end.full ELSE Append(end.full, end.open)
  BY DEF Chunks, Filled, NoBatches
<1> HIDE DEF step, n, T
<1>5. PICK g : IsLoop(g, n, T, NoBatches, step)
  BY <1>1, <1>3, LoopExists
<1>6. g \in [0..n -> T] /\ g[0] = NoBatches /\ \A i \in 1..n : g[i] = Filled(g[i - 1], list[i])
  <2>1. \A i \in 1..n : i - 1 \in 0..n
    BY <1>1
  <2> QED
    BY <1>2, <1>5, <2>1 DEF IsLoop
<1>7. g = Rounds(g)
  <2>1. \A i \in 0..n : g[i] = Rounds(g)[i]
    BY <1>1, <1>6
  <2> QED
    BY <1>6, <2>1
<1>8. f = Rounds(f)
  <2> HIDE DEF Rounds
  <2> QED
    BY <1>7
<1> HIDE DEF f
<1>9. f[0] = NoBatches /\ \A i \in 1..n : f[i - 1] \in T => f[i] = step[i][f[i - 1]]
  <2>1. \A i \in 0..n : f[i] = IF i = 0 THEN NoBatches ELSE Filled(f[i - 1], list[i])
    BY <1>8
  <2>2. 0 \in 0..n /\ \A i \in 1..n : i \in 0..n /\ i # 0
    BY <1>1
  <2> HIDE DEF Rounds
  <2> QED
    BY <1>2, <2>1, <2>2
<1>10. f[n] = g[n]
  <2>1. n \in 0..n
    BY <1>1
  <2> HIDE DEF Rounds
  <2>2. \A i \in 0..n : f[i] = g[i]
    BY <1>1, <1>5, <1>9, LoopUnique
  <2> QED
    BY <2>1, <2>2
<1> QED
  BY <1>4, <1>6, <1>10 DEF IsChunked, n, T

LEMMA TimesStep ==
  ASSUME NEW a \in Nat, NEW m \in Nat
  PROVE  /\ a * m \in Nat
         /\ (a + 1) * m = a * m + m
         /\ a # 0 => a - 1 \in Nat /\ a * m = (a - 1) * m + m
OBVIOUS

\* After i rows the full batches hold MaxBatchRows each and the open one the rest.
HoldsRows(state, list, i) ==
  /\ \A c \in 1..Len(state.full) :
       /\ Len(state.full[c]) = MaxBatchRows
       /\ \A k \in 1..MaxBatchRows : state.full[c][k] = list[(c - 1) * MaxBatchRows + k]
  /\ Len(state.open) < MaxBatchRows
  /\ i = Len(state.full) * MaxBatchRows + Len(state.open)
  /\ \A k \in 1..Len(state.open) : state.open[k] = list[Len(state.full) * MaxBatchRows + k]

LEMMA HoldsOneMore ==
  ASSUME NEW S, NEW list, NEW row \in S, NEW i \in Nat, i # 0, list[i] = row,
         NEW state \in BatchStates(S), HoldsRows(state, list, i - 1)
  PROVE  HoldsRows(Filled(state, row), list, i)
<1> DEFINE m == MaxBatchRows
           full == state.full
           open == state.open
           more == Append(open, row)
           n == Len(full)
<1>1. /\ m \in Nat /\ m # 0 /\ open \in Seq(S) /\ full \in Seq(Seq(S))
      /\ n \in Nat /\ Len(open) \in Nat
  BY FlightAssumption DEF BatchStates
<1>2. /\ more \in Seq(S) /\ Len(more) = Len(open) + 1 /\ more[Len(open) + 1] = row
      /\ \A k \in 1..Len(open) : more[k] = open[k]
  BY <1>1
<1>3. n * m \in Nat /\ i = n * m + Len(open) + 1 /\ (n + 1) * m = n * m + m
  <2>1. i - 1 = n * m + Len(open)
    BY DEF HoldsRows
  <2>2. n * m \in Nat /\ (n + 1) * m = n * m + m
    BY <1>1, TimesStep
  <2> HIDE DEF n, m
  <2> QED
    BY <1>1, <2>1, <2>2
<1>4. \A k \in 1..Len(more) : more[k] = list[n * m + k]
  <2>1. \A k \in 1..Len(open) : open[k] = list[n * m + k]
    BY DEF HoldsRows
  <2>2. n * m + (Len(open) + 1) = i
    <3> DEFINE p == n * m
               o == Len(open)
    <3>1. p \in Nat /\ o \in Nat /\ i = p + o + 1
      BY <1>1, <1>3
    <3> HIDE DEF p, o
    <3>2. p + (o + 1) = i
      BY <3>1
    <3> QED
      BY <3>2 DEF p, o
  <2>3. \A k \in 1..Len(more) : k = Len(open) + 1 \/ k \in 1..Len(open)
    BY <1>1, <1>2
  <2> QED
    BY <1>2, <2>1, <2>2, <2>3
<1>5. Len(open) < m
  BY DEF HoldsRows
<1>6. CASE Len(more) >= m
  <2> DEFINE grown == Append(full, more)
             new == [full |-> grown, open |-> <<>>]
  <2>1. Filled(state, row) = new
    BY <1>6 DEF Filled
  <2>2. Len(more) = m
    BY <1>1, <1>2, <1>5, <1>6
  <2>3. /\ Len(grown) = n + 1 /\ grown[n + 1] = more
        /\ \A c \in 1..n : grown[c] = full[c]
    <3> DEFINE T == Seq(S)
    <3>1. full \in Seq(T) /\ more \in T
      BY <1>1, <1>2
    <3> HIDE DEF T, more
    <3> QED
      BY <3>1
  <2>4. i = (n + 1) * m + 0
    <3> DEFINE p == n * m
               q == (n + 1) * m
    <3>1. p \in Nat /\ i = p + Len(open) + 1 /\ q = p + m /\ Len(open) + 1 = m
      BY <1>2, <1>3, <2>2
    <3>2. i = q + 0
      <4> DEFINE o == Len(open)
      <4>1. o \in Nat /\ m \in Nat /\ i = p + o + 1 /\ q = p + m /\ o + 1 = m
        BY <1>1, <3>1
      <4> HIDE DEF p, q, m, o
      <4> QED
        BY <3>1, <4>1
    <3> QED
      BY <3>2
  <2>5. \A c \in 1..(n + 1) :
          /\ Len(grown[c]) = m
          /\ \A k \in 1..m : grown[c][k] = list[(c - 1) * m + k]
    <3> TAKE c \in 1..(n + 1)
    <3>1. CASE c = n + 1
      <4>1. c - 1 = n
        BY <1>1, <3>1
      <4> QED
        BY <1>4, <2>2, <2>3, <3>1, <4>1
    <3>2. CASE c \in 1..n
      BY <2>3, <3>2 DEF HoldsRows
    <3> QED
      BY <1>1, <3>1, <3>2
  <2>6. new.full = grown /\ new.open = <<>> /\ Len(new.open) = 0 /\ \A k \in 1..Len(new.open) : FALSE
    OBVIOUS
  <2>7. Len(new.open) < m
    BY <1>1, <2>6
  <2> HIDE DEF grown, new, n
  <2>8. HoldsRows(new, list, i)
    <3>1. /\ Len(new.full) = n + 1 /\ new.full = grown
          /\ i = Len(new.full) * m + Len(new.open)
      BY ONLY <2>3, <2>4, <2>6
    <3> HIDE DEF m
    <3>2. /\ \A c \in 1..Len(new.full) :
               /\ Len(new.full[c]) = m
               /\ \A k \in 1..m : new.full[c][k] = list[(c - 1) * m + k]
          /\ \A k \in 1..Len(new.open) : new.open[k] = list[Len(new.full) * m + k]
      BY ONLY <2>5, <2>6, <3>1
    <3> QED
      BY ONLY <2>7, <3>1, <3>2 DEF HoldsRows, m
  <2> QED
    BY <2>1, <2>8
<1>7. CASE ~(Len(more) >= m)
  <2> DEFINE new == [full |-> full, open |-> more]
  <2>1. Filled(state, row) = new /\ new.full = full /\ new.open = more
    BY <1>7 DEF Filled
  <2>2. Len(more) < m /\ i = n * m + Len(more)
    <3> DEFINE p == n * m
    <3>1. p \in Nat /\ i = p + Len(open) + 1 /\ Len(more) = Len(open) + 1
      BY <1>2, <1>3
    <3>2. Len(more) < m /\ i = p + Len(more)
      <4> DEFINE o == Len(open)
                 l == Len(more)
      <4>1. o \in Nat /\ m \in Nat /\ i = p + o + 1 /\ l = o + 1 /\ ~(l >= m)
        BY <1>1, <1>7, <3>1
      <4> HIDE DEF p, m, l, o
      <4> QED
        BY <3>1, <4>1
    <3> QED
      BY <3>2
  <2>3. \A c \in 1..n :
          /\ Len(full[c]) = m
          /\ \A k \in 1..m : full[c][k] = list[(c - 1) * m + k]
    BY DEF HoldsRows
  <2> HIDE DEF new, more, full, n
  <2> QED
    BY <1>4, <2>1, <2>2, <2>3 DEF HoldsRows, n
<1> QED
  BY <1>6, <1>7

\* Cut into pieces of MaxBatchRows: the pieces hold the rows in order, and all but
\* the last are full.
IsCut(pieces, list) ==
  /\ \A c \in 1..Len(pieces) :
       /\ Len(pieces[c]) \in 1..MaxBatchRows
       /\ \A k \in 1..Len(pieces[c]) : pieces[c][k] = list[(c - 1) * MaxBatchRows + k]
       /\ c < Len(pieces) => Len(pieces[c]) = MaxBatchRows
       /\ c = Len(pieces) => Len(list) = (c - 1) * MaxBatchRows + Len(pieces[c])
  /\ Len(pieces) = 0 => Len(list) = 0

LEMMA ChunksAreCut ==
  ASSUME NEW S, NEW list \in Seq(S)
  PROVE  Chunks(list) \in Seq(Seq(S)) /\ IsCut(Chunks(list), list)
<1> DEFINE m == MaxBatchRows
           n == Len(list)
<1>1. m \in Nat /\ m # 0 /\ n \in Nat /\ DOMAIN list = 1..n /\ \A i \in 1..n : list[i] \in S
  BY FlightAssumption
<1>2. PICK g : IsChunked(g, S, list)
  BY ChunkRounds
<1> DEFINE Good == {i \in 0..n : HoldsRows(g[i], list, i)}
<1>3. HoldsRows(NoBatches, list, 0)
  <2>1. Len(NoBatches.full) = 0 /\ Len(NoBatches.open) = 0 /\ 0 * m = 0 /\ 1..0 = {}
    BY <1>1 DEF NoBatches
  <2>2. 0 = Len(NoBatches.full) * m + Len(NoBatches.open) /\ 0 < m
    BY <1>1, <2>1
  <2> QED
    BY <2>1, <2>2 DEF HoldsRows
<1>4. 0..n \subseteq Good
  <2>1. 0 \in Good
    BY <1>1, <1>2, <1>3 DEF IsChunked
  <2>2. ASSUME NEW i \in (0 + 1)..n, i - 1 \in Good PROVE i \in Good
    <3>1. i \in 1..n /\ i - 1 \in 0..n /\ i \in 0..n /\ i \in Nat /\ i # 0
      BY <1>1, <2>2
    <3>2. g[i - 1] \in BatchStates(S) /\ g[i] = Filled(g[i - 1], list[i])
      BY <1>2, <3>1 DEF IsChunked
    <3>3. HoldsRows(g[i - 1], list, i - 1)
      BY <2>2
    <3>4. HoldsRows(g[i], list, i)
      BY <1>1, <3>1, <3>2, <3>3, HoldsOneMore
    <3> QED
      BY <3>1, <3>4
  <2> HIDE DEF Good, n
  <2> QED
    BY <1>1, <2>1, <2>2, RoundInduction
<1> DEFINE end == g[n]
           full == end.full
           open == end.open
           f == Len(full)
<1>5. n \in 0..n
  BY <1>1
<1>6. HoldsRows(end, list, n)
  BY <1>4, <1>5
<1>7. /\ full \in Seq(Seq(S)) /\ open \in Seq(S) /\ f \in Nat
      /\ Chunks(list) = IF open = <<>> THEN full ELSE Append(full, open)
  <2>1. end \in BatchStates(S)
    BY <1>2, <1>5 DEF IsChunked
  <2> QED
    BY <1>2, <2>1 DEF IsChunked, BatchStates
<1>8. /\ \A c \in 1..f : Len(full[c]) = m /\ \A k \in 1..m : full[c][k] = list[(c - 1) * m + k]
      /\ Len(open) < m /\ n = f * m + Len(open)
      /\ \A k \in 1..Len(open) : open[k] = list[f * m + k]
  BY <1>6 DEF HoldsRows
<1> HIDE DEF end, full, open
<1>9. CASE open = <<>>
  <2>1. Len(open) = 0 /\ f * m \in Nat /\ n = f * m
    <3>1. Len(open) = 0 /\ f * m \in Nat
      BY <1>1, <1>7, <1>9, TimesStep
    <3> DEFINE p == f * m
    <3>2. n = p + 0 /\ p \in Nat
      BY <1>8, <3>1
    <3>3. n = p
      <4> HIDE DEF p, n
      <4> QED
        BY <3>2
    <3> QED
      BY <3>1, <3>3
  <2>2. f = 0 => n = 0
    <3>1. 0 * m = 0
      BY <1>1
    <3> QED
      BY <2>1, <3>1
  <2>3. f # 0 => n = (f - 1) * m + m
    BY <1>1, <1>7, <2>1, TimesStep
  <2>4. m \in 1..m
    BY <1>1
  <2> HIDE DEF n, f
  <2>5. IsCut(full, list)
    BY <1>8, <2>2, <2>3, <2>4 DEF IsCut, n, f
  <2> QED
    BY <1>7, <1>9, <2>5
<1>10. CASE open # <<>>
  <2> DEFINE all == Append(full, open)
  <2>1. Len(open) \in 1..m
    <3>1. Len(open) \in Nat /\ Len(open) # 0 /\ Len(open) < m
      BY <1>7, <1>8, <1>10
    <3> QED
      BY <1>1, <3>1
  <2>2. /\ all \in Seq(Seq(S)) /\ Len(all) = f + 1 /\ all[f + 1] = open
        /\ \A c \in 1..f : all[c] = full[c]
    <3> DEFINE T == Seq(S)
    <3>1. full \in Seq(T) /\ open \in T
      BY <1>7
    <3> HIDE DEF T
    <3>2. /\ all \in Seq(T) /\ Len(all) = f + 1 /\ all[f + 1] = open
          /\ \A c \in 1..f : all[c] = full[c]
      BY <3>1
    <3> QED
      BY <3>2 DEF T
  <2> HIDE DEF all
  <2>3. f + 1 - 1 = f /\ Len(all) # 0 /\ \A c \in 1..(f + 1) : c = f + 1 \/ (c \in 1..f /\ c < f + 1 /\ c # f + 1)
    <3>1. f \in Nat /\ Len(all) = f + 1
      BY <1>7, <2>2
    <3> HIDE DEF f
    <3> QED
      BY ONLY <3>1
  <2>4. m \in 1..m /\ ~(f + 1 < f + 1)
    BY <1>1, <1>7
  <2> HIDE DEF n, f
  <2>5. \A c \in 1..Len(all) :
          /\ Len(all[c]) \in 1..m
          /\ \A k \in 1..Len(all[c]) : all[c][k] = list[(c - 1) * m + k]
          /\ c < Len(all) => Len(all[c]) = m
          /\ c = Len(all) => Len(list) = (c - 1) * m + Len(all[c])
    <3> TAKE c \in 1..Len(all)
    <3>1. CASE c = f + 1
      <4>1. all[c] = open /\ c - 1 = f /\ ~(c < Len(all))
        <5>1. f \in Nat
          BY <1>7
        <5>2. all[c] = open
          BY <2>2, <3>1
        <5>3. c - 1 = f /\ ~(c < Len(all))
          BY <2>2, <3>1, <5>1
        <5> QED
          BY <5>2, <5>3
      <4>2. (c - 1) * m = f * m
        BY <4>1
      <4>3. \A k \in 1..Len(open) : open[k] = list[(c - 1) * m + k]
        BY <1>8, <4>2
      <4>4. Len(list) = (c - 1) * m + Len(open)
        BY <1>8, <4>2 DEF n
      <4> QED
        BY <2>1, <4>1, <4>3, <4>4
    <3>2. CASE c \in 1..f
      <4>1. all[c] = full[c] /\ c # Len(all)
        <5>1. f \in Nat
          BY <1>7
        <5>2. all[c] = full[c]
          BY <2>2, <3>2
        <5>3. c # Len(all)
          BY <2>2, <3>2, <5>1
        <5> QED
          BY <5>2, <5>3
      <4>2. Len(full[c]) = m /\ \A k \in 1..m : full[c][k] = list[(c - 1) * m + k]
        BY <1>8, <3>2
      <4> QED
        BY <2>4, <4>1, <4>2
    <3> QED
      BY <2>2, <2>3, <3>1, <3>2
  <2>6. IsCut(all, list)
    BY <2>3, <2>5 DEF IsCut
  <2> QED
    BY <1>7, <1>10, <2>2, <2>6 DEF all
<1> QED
  BY <1>9, <1>10

LEMMA DivTimes ==
  ASSUME NEW a \in Nat, NEW m \in Nat, NEW r \in Nat, r < m
  PROVE  (a * m + r) \div m = a
<1> DEFINE q == (a * m + r) \div m
<1>1. q \in Int /\ q * m <= a * m + r /\ a * m + r < q * m + m
  BY Z3
<1>2. a * m < (q + 1) * m /\ q * m < (a + 1) * m
  BY <1>1, Z3
<1>3. a < q + 1 /\ q < a + 1
  BY <1>1, <1>2, Z3
<1> QED
  BY <1>1, <1>3

LEMMA LeaderPlace ==
  ASSUME NEW a \in Nat, NEW m \in Nat, NEW k \in 1..m
  PROVE  ((a * m + k - 1) \div m) * m + 1 = a * m + 1
<1>1. k - 1 \in Nat /\ k - 1 < m /\ a * m \in Nat
  BY TimesStep
<1>2. (a * m + (k - 1)) \div m = a
  BY <1>1, DivTimes
<1>3. a * m + k - 1 = a * m + (k - 1)
  <2> DEFINE p == a * m
  <2>1. p \in Nat
    BY <1>1
  <2> HIDE DEF p
  <2>2. p + k - 1 = p + (k - 1)
    BY <2>1
  <2> QED
    BY <2>2 DEF p
<1> QED
  BY <1>2, <1>3

\* Pieces of a list put together are the list.
LEMMA JoinedCut ==
  ASSUME NEW R, NEW target \in Seq(R), NEW lists \in Seq(Seq(R)), IsCut(lists, target)
  PROVE  Joined(lists) = target
<1> DEFINE m == MaxBatchRows
           n == Len(lists)
           T == Seq(R)
<1>1. n \in Nat /\ m \in Nat /\ m # 0 /\ Len(target) \in Nat /\ \A c \in 1..n : lists[c] \in T /\ Len(lists[c]) \in Nat
  BY FlightAssumption
<1>2. PICK g : IsJoined(g, R, lists)
  BY JoinedRounds
<1> DEFINE Good == {c \in 0..n : /\ Len(g[c]) = IF c = n THEN Len(target) ELSE c * m
                                 /\ \A j \in 1..Len(g[c]) : g[c][j] = target[j]}
<1>3. 0 \in Good
  <2>1. g[0] = <<>> /\ Len(g[0]) = 0 /\ 0 * m = 0 /\ 1..0 = {}
    BY <1>1, <1>2 DEF IsJoined
  <2>2. 0 = n => Len(target) = 0
    BY DEF IsCut
  <2>3. 0 \in 0..n
    BY <1>1
  <2> QED
    BY <2>1, <2>2, <2>3
<1>4. ASSUME NEW c \in (0 + 1)..n, c - 1 \in Good PROVE c \in Good
  <2> DEFINE old == g[c - 1]
             new == lists[c]
             p == (c - 1) * m
  <2>1. c \in 1..n /\ c - 1 \in 0..n /\ c \in 0..n /\ c - 1 # n /\ c - 1 \in Nat
    BY <1>1, <1>4
  <2>2. old \in T /\ new \in T /\ g[c] = old \o new
    BY <1>1, <1>2, <2>1 DEF IsJoined
  <2>3. Len(old) = p /\ \A j \in 1..p : old[j] = target[j]
    BY <1>4, <2>1
  <2>4. p \in Nat /\ c * m = p + m
    BY <1>1, <2>1, TimesStep
  <2>5. /\ \A k \in 1..Len(new) : new[k] = target[p + k]
        /\ c < n => Len(new) = m
        /\ c = n => Len(target) = p + Len(new)
    BY <2>1 DEF IsCut
  <2>6. Len(new) \in Nat
    BY <1>1, <2>1
  <2> HIDE DEF p, old, new
  <2>7. /\ Len(old \o new) = p + Len(new)
        /\ \A j \in 1..(p + Len(new)) :
             (old \o new)[j] = IF j <= p THEN old[j] ELSE new[j - p]
    BY <2>2, <2>3
  <2>8. Len(g[c]) = IF c = n THEN Len(target) ELSE c * m
    <3>1. c = n \/ c < n
      BY <1>1, <2>1
    <3> QED
      BY <2>2, <2>4, <2>5, <2>7, <3>1
  <2>9. ASSUME NEW j \in 1..Len(g[c]) PROVE g[c][j] = target[j]
    <3>1. j \in 1..(p + Len(new))
      BY <2>2, <2>7
    <3>2. CASE j <= p
      <4>1. j \in 1..p
        BY <2>4, <2>6, <3>1, <3>2
      <4> QED
        BY <2>2, <2>3, <2>7, <3>1, <3>2, <4>1
    <3>3. CASE ~(j <= p)
      <4>1. j - p \in 1..Len(new) /\ p + (j - p) = j
        BY <2>4, <2>6, <3>1, <3>3
      <4> QED
        BY <2>2, <2>5, <2>7, <3>1, <3>3, <4>1
    <3> QED
      BY <3>2, <3>3
  <2> QED
    BY <2>1, <2>8, <2>9
<1>5. n \in Good
  <2>1. 0..n \subseteq Good
    <3> HIDE DEF Good, n
    <3> QED
      BY <1>1, <1>3, <1>4, RoundInduction
  <2> QED
    BY <1>1, <2>1
<1>6. Joined(lists) = g[n] /\ g[n] \in T
  BY <1>1, <1>2 DEF IsJoined
<1>7. Len(g[n]) = Len(target) /\ \A j \in 1..Len(target) : g[n][j] = target[j]
  BY <1>5
<1> DEFINE got == g[n]
<1>8. got = target
  <2>1. got \in Seq(R) /\ Len(got) = Len(target) /\ \A j \in 1..Len(target) : got[j] = target[j]
    BY <1>6, <1>7
  <2> HIDE DEF got
  <2> QED
    BY <2>1, SeqEqual
<1> QED
  BY <1>6, <1>8

LEMMA TimesGrow ==
  ASSUME NEW a \in Nat, NEW b \in Nat, NEW m \in Nat, a <= b
  PROVE  a * m <= b * m
OBVIOUS

\* What becomes of a row under the columns of another.
Refitted(row, leader) ==
  [tags |-> [name \in DOMAIN leader.tags |-> Cell(ArrowType(leader.tags[name].type), row.tags, name)],
   fields |-> [name \in DOMAIN leader.fields |-> Cell(ArrowType(leader.fields[name].type), row.fields, name)],
   time |-> row.time]

LEMMA BatchAndBack ==
  ASSUME NEW S, NEW list \in Seq(S), list # <<>>
  PROVE  RowsOfBatch(BuildBatch(list)) = [i \in 1..Len(list) |-> Refitted(list[i], list[1])]
<1> DEFINE n == Len(list)
           tags == [i \in 1..n |-> list[i].tags]
           fields == [i \in 1..n |-> list[i].fields]
           batch == [tags |-> Columns(tags), fields |-> Columns(fields), times |-> [i \in 1..n |-> list[i].time]]
           asTags == [name \in DOMAIN list[1].tags |->
                        [i \in 1..n |-> Cell(ArrowType(list[1].tags[name].type), list[i].tags, name)]]
           asFields == [name \in DOMAIN list[1].fields |->
                          [i \in 1..n |-> Cell(ArrowType(list[1].fields[name].type), list[i].fields, name)]]
<1>1. DOMAIN list = 1..n /\ n \in Nat /\ 1 \in 1..n
  BY EmptySeq
<1>2. BuildBatch(list) = batch
  BY <1>1 DEF BuildBatch
<1>3. Columns(tags) = asTags
  <2>1. Head(tags) = list[1].tags /\ DOMAIN tags = 1..n /\ \A i \in 1..n : tags[i] = list[i].tags
    BY <1>1
  <2> HIDE DEF tags
  <2> QED
    BY <2>1 DEF Columns
<1>4. Columns(fields) = asFields
  <2>1. Head(fields) = list[1].fields /\ DOMAIN fields = 1..n /\ \A i \in 1..n : fields[i] = list[i].fields
    BY <1>1
  <2> HIDE DEF fields
  <2> QED
    BY <2>1 DEF Columns
<1>5. batch.tags = asTags /\ batch.fields = asFields /\ batch.times = [i \in 1..n |-> list[i].time]
  BY <1>3, <1>4
<1> HIDE DEF batch, tags, fields
<1>6. RowsOfBatch(batch) =
        [i \in 1..n |->
           [tags |-> [name \in DOMAIN asTags |-> asTags[name][i]],
            fields |-> [name \in DOMAIN asFields |-> asFields[name][i]],
            time |-> list[i].time]]
  BY <1>5 DEF RowsOfBatch
<1>7. ASSUME NEW i \in 1..n
      PROVE  [tags |-> [name \in DOMAIN asTags |-> asTags[name][i]],
              fields |-> [name \in DOMAIN asFields |-> asFields[name][i]],
              time |-> list[i].time] = Refitted(list[i], list[1])
  <2>1. [name \in DOMAIN asTags |-> asTags[name][i]] =
          [name \in DOMAIN list[1].tags |-> Cell(ArrowType(list[1].tags[name].type), list[i].tags, name)]
    BY <1>7
  <2>2. [name \in DOMAIN asFields |-> asFields[name][i]] =
          [name \in DOMAIN list[1].fields |-> Cell(ArrowType(list[1].fields[name].type), list[i].fields, name)]
    BY <1>7
  <2> QED
    BY <2>1, <2>2 DEF Refitted
<1> HIDE DEF asTags, asFields, n
<1> QED
  BY <1>2, <1>6, <1>7 DEF n

\* The rows that do_put gets for these rows, and the place of the first of a batch.
LeaderAt(i) == ((i - 1) \div MaxBatchRows) * MaxBatchRows + 1
ArrivedRows(list) == [i \in 1..Len(list) |-> Refitted(list[i], list[LeaderAt(i)])]

LEMMA PutGetsAll ==
  ASSUME NEW S, NEW list \in Seq(S), NEW built, built = [c \in DOMAIN Chunks(list) |-> BuildBatch(Chunks(list)[c])]
  PROVE  /\ Joined([c \in DOMAIN built |-> RowsOfBatch(built[c])]) = ArrivedRows(list)
         /\ \E R : ArrivedRows(list) \in Seq(R)
<1> DEFINE m == MaxBatchRows
           pieces == Chunks(list)
           n == Len(pieces)
           lists == [c \in DOMAIN built |-> RowsOfBatch(built[c])]
           target == ArrivedRows(list)
           R == {Refitted(list[i], list[j]) : i, j \in 1..Len(list)} \cup {target[i] : i \in 1..Len(list)}
<1>1. pieces \in Seq(Seq(S)) /\ IsCut(pieces, list)
  BY ChunksAreCut
<1>2. /\ n \in Nat /\ DOMAIN pieces = 1..n /\ m \in Nat /\ Len(list) \in Nat /\ DOMAIN list = 1..Len(list)
      /\ \A c \in 1..n : pieces[c] \in Seq(S) /\ Len(pieces[c]) \in Nat
  BY <1>1, FlightAssumption
<1>3. target \in Seq(R) /\ Len(target) = Len(list)
  <2>1. target \in [1..Len(list) -> R]
    BY DEF ArrivedRows
  <2> HIDE DEF R, target
  <2> QED
    BY <1>2, <2>1
<1>4. lists = [c \in 1..n |-> RowsOfBatch(BuildBatch(pieces[c]))]
  BY <1>2
<1> HIDE DEF pieces, lists
<1>5. ASSUME NEW c \in 1..n
      PROVE  /\ lists[c] = [k \in 1..Len(pieces[c]) |-> Refitted(pieces[c][k], pieces[c][1])]
             /\ Len(pieces[c]) \in 1..m
             /\ \A k \in 1..Len(pieces[c]) :
                  /\ (c - 1) * m + k \in 1..Len(list)
                  /\ pieces[c][k] = list[(c - 1) * m + k]
                  /\ lists[c][k] = target[(c - 1) * m + k]
  <2> DEFINE p == (c - 1) * m
             l == Len(pieces[c])
  <2>1. /\ l \in 1..m
        /\ \A k \in 1..l : pieces[c][k] = list[p + k]
        /\ c < n => l = m
        /\ c = n => Len(list) = p + l
    BY <1>1, <1>5 DEF IsCut
  <2>2. pieces[c] # <<>> /\ pieces[c] \in Seq(S)
    <3>1. Len(pieces[c]) # 0 /\ pieces[c] \in Seq(S)
      <4>1. l \in 1..m
        BY <2>1
      <4>2. m \in Nat
        BY <1>2
      <4>3. l # 0
        <5> HIDE DEF l, m
        <5> QED
          BY <4>1, <4>2
      <4> QED
        BY <1>2, <4>3
    <3> QED
      BY <3>1, EmptySeq
  <2>3. lists[c] = [k \in 1..l |-> Refitted(pieces[c][k], pieces[c][1])]
    BY <1>4, <2>2, BatchAndBack
  <2>4. p \in Nat /\ c - 1 \in Nat
    BY <1>2, TimesStep
  <2>5. p + l <= Len(list)
    <3>1. CASE c = n
      <4>1. Len(list) = p + l
        BY <2>1, <3>1
      <4> HIDE DEF p, l
      <4> QED
        BY <1>2, <4>1
    <3>2. CASE c < n
      <4> DEFINE q == (n - 1) * m
      <4>1. n \in 1..n /\ n - 1 \in Nat /\ c <= n - 1
        BY <1>2, <3>2
      <4>2. Len(list) = q + Len(pieces[n]) /\ Len(pieces[n]) \in 1..m
        BY <1>1, <4>1 DEF IsCut
      <4>3. p + m <= q
        <5>1. p + m = c * m
          BY <1>2, <2>4, TimesStep
        <5>2. c * m <= (n - 1) * m
          <6> DEFINE b == n - 1
          <6>1. c \in Nat /\ b \in Nat /\ c <= b /\ m \in Nat
            BY <1>2, <4>1
          <6> HIDE DEF b, m
          <6>2. c * m <= b * m
            BY <6>1, TimesGrow
          <6> QED
            BY <6>2 DEF b, m
        <5>3. q \in Nat
          BY <1>2, <4>1, TimesStep
        <5> QED
          BY <5>1, <5>2
      <4>4. q \in Nat
        BY <1>2, <4>1, TimesStep
      <4> HIDE DEF p, q, l, n
      <4> QED
        BY <1>2, <2>1, <2>4, <3>2, <4>2, <4>3, <4>4
    <3>3. c = n \/ c < n
      <4> HIDE DEF n
      <4> QED
        BY <1>2
    <3> QED
      BY <3>1, <3>2, <3>3
  <2>6. ASSUME NEW k \in 1..l PROVE p + k \in 1..Len(list) /\ lists[c][k] = target[p + k]
    <3>1. p + k \in 1..Len(list) /\ k \in 1..m
      <4> DEFINE r == Len(list)
      <4>1. l \in 1..m /\ p \in Nat /\ p + l <= r /\ r \in Nat /\ m \in Nat
        BY <1>2, <2>1, <2>4, <2>5
      <4> HIDE DEF p, l, r, m
      <4>2. p + k \in 1..r /\ k \in 1..m
        BY <2>6, <4>1
      <4> QED
        BY <4>2 DEF r
    <3>2. LeaderAt(p + k) = p + 1
      <4>1. k \in 1..m
        BY <3>1
      <4>2. ((p + k - 1) \div m) * m + 1 = p + 1
        BY <1>2, <2>4, <4>1, LeaderPlace
      <4>3. LeaderAt(p + k) = (((p + k) - 1) \div m) * m + 1
        BY DEF LeaderAt
      <4>4. (p + k) - 1 = p + k - 1
        <5> HIDE DEF p
        <5> QED
          BY <2>4, <4>1
      <4> QED
        BY <4>2, <4>3, <4>4, Zenon
    <3>3. pieces[c][1] = list[p + 1] /\ pieces[c][k] = list[p + k]
      <4>1. 1 \in 1..l
        BY <2>1
      <4> QED
        BY <2>1, <2>6, <4>1
    <3>4. target[p + k] = Refitted(list[p + k], list[p + 1])
      <4> HIDE DEF p
      <4> QED
        BY <3>1, <3>2 DEF ArrivedRows
    <3> QED
      BY <2>3, <2>6, <3>1, <3>3, <3>4
  <2> QED
    BY <2>1, <2>3, <2>6
<1> HIDE DEF target
<1>6. lists \in Seq(Seq(R)) /\ Len(lists) = n /\ \A c \in 1..n : Len(lists[c]) = Len(pieces[c])
  <2> DEFINE T == Seq(R)
  <2>1. ASSUME NEW c \in 1..n PROVE lists[c] \in T /\ Len(lists[c]) = Len(pieces[c])
    <3> DEFINE l == Len(pieces[c])
    <3>1. l \in Nat /\ lists[c] = [k \in 1..l |-> Refitted(pieces[c][k], pieces[c][1])]
      BY <1>2, <1>5
    <3>2. \A k \in 1..l : (c - 1) * m + k \in 1..Len(list) /\ lists[c][k] = target[(c - 1) * m + k]
      BY <1>5
    <3>3. \A k \in 1..l : lists[c][k] \in R
      BY <3>2
    <3> HIDE DEF R, l
    <3>4. lists[c] \in [1..l -> R]
      BY <3>1, <3>3
    <3>5. lists[c] \in Seq(R) /\ Len(lists[c]) = l
      BY <3>1, <3>4
    <3> QED
      BY <3>5 DEF l
  <2> HIDE DEF T, n
  <2>2. lists \in [1..n -> T]
    BY <1>4, <2>1
  <2>3. lists \in Seq(T) /\ Len(lists) = n
    BY <1>2, <2>2
  <2>4. \A c \in 1..n : Len(lists[c]) = Len(pieces[c])
    BY <2>1
  <2> QED
    BY <2>3, <2>4 DEF T
<1>7. IsCut(lists, target)
  <2>1. ASSUME NEW c \in 1..n
        PROVE  /\ Len(pieces[c]) \in 1..m
               /\ \A k \in 1..Len(pieces[c]) : lists[c][k] = target[(c - 1) * m + k]
               /\ c < n => Len(pieces[c]) = m
               /\ c = n => Len(target) = (c - 1) * m + Len(pieces[c])
    BY <1>1, <1>3, <1>5 DEF IsCut
  <2>2. n = 0 => Len(target) = 0
    BY <1>1, <1>3 DEF IsCut
  <2> HIDE DEF n
  <2> QED
    BY <1>6, <2>1, <2>2 DEF IsCut
<1> HIDE DEF R
<1>8. Joined(lists) = target
  BY <1>3, <1>6, <1>7, JoinedCut
<1> QED
  BY <1>3, <1>8 DEF lists, target

LEMMA DivFloor ==
  ASSUME NEW a \in Nat, NEW m \in Nat, m # 0
  PROVE  a \div m \in Nat /\ (a \div m) * m <= a /\ (a \div m) * m \in Nat
OBVIOUS

\* What a reader can rely on when a row has travelled under the columns of another.
Faithful(got, row, leader) ==
  /\ got.time = row.time
  /\ DOMAIN got.tags = DOMAIN leader.tags
  /\ DOMAIN got.fields = DOMAIN leader.fields
  /\ \A f \in DOMAIN got.fields \cap DOMAIN row.fields :
       ArrowType(row.fields[f].type) = got.fields[f].type => ArrivesAs(got.fields[f], row.fields[f])
  /\ Same(row, leader) =>
       /\ got.tags = row.tags
       /\ \A f \in DOMAIN row.fields :
            f \in DOMAIN got.fields /\ ArrivesAs(got.fields[f], row.fields[f])

\* A column of its own type takes a value as it is, but for the sign of an unsigned.
LEMMA OwnCell ==
  ASSUME NEW row, IsRow(row), NEW f \in DOMAIN row.fields
  PROVE  ArrivesAs(Cell(ArrowType(row.fields[f].type), row.fields, f), row.fields[f])
<1> DEFINE v == row.fields[f]
<1>1. v \in [type : FlightTypes, n : Int] /\ (v.type = "uint" => v.n \in 0..(2 * Half - 1))
  BY DEF IsRow
<1>2. Cell(ArrowType(v.type), row.fields, f) = Value(ArrowType(v.type), Signed(v))
  BY DEF Cell
<1> HIDE DEF v
<1>3. CASE v.type = "uint"
  <2>1. v.n \in 0..(2 * Half - 1) /\ Half \in Nat
    BY <1>1, <1>3, MachineAssumption
  <2>2. Signed(v) = IF v.n < Half THEN v.n ELSE v.n - 2 * Half
    BY <1>3 DEF Signed, AsSigned
  <2>3. Signed(v) = v.n \/ (v.n >= Half /\ Signed(v) < 0)
    BY <2>1, <2>2
  <2>4. v.n < Half => Signed(v) = v.n
    BY <2>2
  <2> QED
    BY <1>2, <1>3, <2>1, <2>2, <2>3, <2>4 DEF ArrivesAs, Value, ArrowType, v
<1>4. CASE v.type # "uint"
  BY <1>2, <1>4 DEF ArrivesAs, Signed, v
<1> QED
  BY <1>3, <1>4

LEMMA ArrivesFaithful ==
  ASSUME NEW row, NEW leader, IsRow(row), IsRow(leader)
  PROVE  Faithful(Refitted(row, leader), row, leader)
<1> DEFINE got == Refitted(row, leader)
<1>1. /\ got.time = row.time
      /\ got.tags = [name \in DOMAIN leader.tags |-> Cell(ArrowType(leader.tags[name].type), row.tags, name)]
      /\ got.fields = [name \in DOMAIN leader.fields |-> Cell(ArrowType(leader.fields[name].type), row.fields, name)]
  BY DEF Refitted
<1> HIDE DEF got
<1>2. \A type, values, name : Cell(type, values, name).type = type
  BY DEF Cell, Value
<1>3. ASSUME NEW f \in DOMAIN got.fields \cap DOMAIN row.fields,
             ArrowType(row.fields[f].type) = ArrowType(leader.fields[f].type)
      PROVE  ArrivesAs(got.fields[f], row.fields[f])
  <2>1. f \in DOMAIN leader.fields /\ f \in DOMAIN row.fields
        /\ got.fields[f] = Cell(ArrowType(leader.fields[f].type), row.fields, f)
    BY <1>1, <1>3
  <2> QED
    BY <1>3, <2>1, OwnCell
<1>4. \A f \in DOMAIN got.fields \cap DOMAIN row.fields :
        ArrowType(row.fields[f].type) = got.fields[f].type => ArrivesAs(got.fields[f], row.fields[f])
  <2> TAKE f \in DOMAIN got.fields \cap DOMAIN row.fields
  <2> HAVE ArrowType(row.fields[f].type) = got.fields[f].type
  <2>1. f \in DOMAIN leader.fields /\ got.fields[f] = Cell(ArrowType(leader.fields[f].type), row.fields, f)
    BY <1>1
  <2>2. got.fields[f].type = ArrowType(leader.fields[f].type)
    BY <1>2, <2>1
  <2> QED
    BY <1>3, <2>2
<1>5. \A v : v \in [type : {"str"}, n : Int] =>
        Value("str", Signed(v)) = v /\ v.type = "str" /\ ArrowType(v.type) = "str"
  BY DEF Value, Signed, ArrowType
<1>6. ASSUME Same(row, leader)
      PROVE  got.tags = row.tags
  <2>1. ASSUME NEW name \in DOMAIN row.tags
        PROVE  Cell(ArrowType(leader.tags[name].type), row.tags, name) = row.tags[name]
    <3>1. name \in DOMAIN leader.tags
      BY <1>6, <2>1 DEF Same
    <3>2. leader.tags[name] \in [type : {"str"}, n : Int] /\ row.tags[name] \in [type : {"str"}, n : Int]
      BY <2>1, <3>1 DEF IsRow
    <3>3. ArrowType(leader.tags[name].type) = "str" /\ ArrowType(row.tags[name].type) = "str"
          /\ Value("str", Signed(row.tags[name])) = row.tags[name]
      BY <1>5, <3>2
    <3>4. Cell("str", row.tags, name) = Value("str", Signed(row.tags[name]))
      BY <2>1, <3>3 DEF Cell
    <3> QED
      BY <3>3, <3>4
  <2>2. DOMAIN row.tags = DOMAIN leader.tags /\ row.tags = [name \in DOMAIN row.tags |-> row.tags[name]]
    BY <1>6 DEF Same, IsRow
  <2> QED
    BY <1>1, <2>1, <2>2
<1>7. ASSUME Same(row, leader), NEW f \in DOMAIN row.fields
      PROVE  f \in DOMAIN got.fields /\ ArrivesAs(got.fields[f], row.fields[f])
  <2>1. f \in DOMAIN leader.fields /\ ArrowType(row.fields[f].type) = ArrowType(leader.fields[f].type)
    BY <1>7 DEF Same
  <2>2. f \in DOMAIN got.fields
    BY <1>1, <2>1
  <2> QED
    BY <1>3, <1>7, <2>1, <2>2
<1> QED
  BY <1>1, <1>4, <1>6, <1>7 DEF Faithful, got

\* What has been written and what is still to be written are the rows that were
\* sent, each under the columns of the first row of its batch.
FlightInv ==
  LET arrived == ArrivedRows(result)
  IN  /\ result \in RowLists
      /\ outcome \in {"getting", "sent"} => received = <<>> /\ put = <<>>
      /\ outcome = "sent" => batches = [c \in DOMAIN Chunks(result) |-> BuildBatch(Chunks(result)[c])]
      /\ \E R : received \in Seq(R) /\ put \in Seq(R)
      /\ Len(received) + Len(put) <= Len(result)
      /\ \A i \in 1..Len(received) : received[i] = arrived[i]
      /\ outcome \in {"putting", "ok"} =>
           /\ Len(received) + Len(put) = Len(result)
           /\ \A k \in 1..Len(put) : put[k] = arrived[Len(received) + k]
      /\ outcome = "ok" => put = <<>>

LEMMA ResultIsList ==
  ASSUME result \in RowLists
  PROVE  /\ result \in Seq(ToSet(result)) /\ Len(result) \in Nat /\ DOMAIN result = 1..Len(result)
         /\ \A i \in 1..Len(result) : IsRow(result[i])
<1>1. result \in Seq(ToSet(result)) /\ \A row \in ToSet(result) : IsRow(row)
  BY FlightAssumption
<1> DEFINE T == ToSet(result)
<1> HIDE DEF T
<1>2. result \in Seq(T) /\ \A row \in T : IsRow(row)
  BY <1>1 DEF T
<1> QED
  BY <1>1, <1>2

LEMMA FlightInvInit == FlightInit => FlightInv
<1> SUFFICES ASSUME FlightInit PROVE FlightInv
  OBVIOUS
<1>1. Len(<<>>) = 0 /\ 1..0 = {} /\ <<>> \in Seq({})
  OBVIOUS
<1>2. Len(result) \in Nat
  BY ResultIsList DEF FlightInit
<1>3. 0 + 0 <= Len(result)
  BY <1>2
<1> QED
  BY <1>1, <1>3 DEF FlightInit, FlightInv

LEMMA FlightInvStep == FlightInv /\ [FlightNext]_flightVars => FlightInv'
<1> SUFFICES ASSUME FlightInv, [FlightNext]_flightVars PROVE FlightInv'
  OBVIOUS
<1> DEFINE arrived == ArrivedRows(result)
           n == Len(result)
<1>1. result \in RowLists /\ n \in Nat /\ result \in Seq(ToSet(result))
  BY ResultIsList DEF FlightInv
<1>2. PICK R : received \in Seq(R) /\ put \in Seq(R)
  BY DEF FlightInv
<1>3. Len(received) \in Nat /\ Len(put) \in Nat
  BY <1>2
<1>4. CASE DoGet
  <2>1. /\ outcome' = "sent" /\ UNCHANGED <<result, put, received>> /\ outcome = "getting"
        /\ batches' = [i \in DOMAIN Chunks(result) |-> BuildBatch(Chunks(result)[i])]
    BY <1>4 DEF DoGet
  <2>2. received = <<>> /\ put = <<>>
    BY <2>1 DEF FlightInv
  <2> QED
    BY <2>1, <2>2 DEF FlightInv
<1>5. CASE BeginPut
  <2>1. outcome = "sent" /\ UNCHANGED <<result, batches, received>> /\ received = <<>> /\ put = <<>>
    BY <1>5 DEF BeginPut, FlightInv
  <2>2. CASE outcome' = "failed" /\ put' = put
    BY <2>1, <2>2 DEF FlightInv
  <2>3. CASE outcome' = "putting" /\ put' = Joined([i \in DOMAIN batches |-> RowsOfBatch(batches[i])])
    <3>1. batches = [c \in DOMAIN Chunks(result) |-> BuildBatch(Chunks(result)[c])]
      BY <2>1 DEF FlightInv
    <3>2. put' = arrived /\ \E Q : arrived \in Seq(Q)
      <4> DEFINE S == ToSet(result)
      <4>1. result \in Seq(S)
        BY <1>1
      <4> HIDE DEF S
      <4> QED
        BY <2>3, <3>1, <4>1, PutGetsAll
    <3>3. PICK Q : arrived \in Seq(Q)
      BY <3>2
    <3>4. Len(arrived) = n
      BY <1>1, <3>3 DEF ArrivedRows
    <3>5. Len(received) = 0 /\ received \in Seq(Q) /\ 1..0 = {}
      BY <2>1
    <3> HIDE DEF arrived
    <3>6. Len(received) + Len(arrived) = n /\ \A k \in 1..Len(arrived) : Len(received) + k = k
      <4> HIDE DEF n
      <4> QED
        BY <1>1, <3>4, <3>5
    <3>7. /\ result' = result /\ received' = received /\ put' = arrived /\ outcome' = "putting"
          /\ Len(received') = 0 /\ arrived' = arrived
      BY <2>1, <2>3, <3>2, <3>5 DEF arrived
    <3>8. put' \in Seq(Q) /\ received' \in Seq(Q)
      BY <3>3, <3>5, <3>7
    <3>9. Len(received') + Len(put') = Len(result') /\ Len(received') + Len(put') <= Len(result')
      BY <1>1, <3>6, <3>7
    <3>10. \A k \in 1..Len(put') : put'[k] = arrived'[Len(received') + k]
      BY <3>6, <3>7
    <3>11. \A k \in 1..Len(received') : received'[k] = arrived'[k]
      BY <3>5, <3>7
    <3>12. result' \in RowLists
      BY <1>1, <3>7
    <3> QED
      BY <3>7, <3>8, <3>9, <3>10, <3>11, <3>12 DEF FlightInv, arrived
  <2> QED
    BY <1>5, <2>2, <2>3 DEF BeginPut
<1>6. CASE PutRow
  <2>1. outcome = "putting" /\ put # <<>> /\ UNCHANGED <<result, batches>>
    BY <1>6 DEF PutRow
  <2>2. CASE outcome' = "failed" /\ UNCHANGED <<received, put>>
    BY <2>1, <2>2 DEF FlightInv
  <2>3. CASE received' = Append(received, Head(put)) /\ put' = Tail(put) /\ outcome' = outcome
    <3> DEFINE l == Len(received)
               p == Len(put)
    <3>1. /\ l + p = n /\ \A k \in 1..p : put[k] = arrived[l + k]
          /\ \A i \in 1..l : received[i] = arrived[i]
      BY <2>1 DEF FlightInv
    <3>2. /\ p # 0 /\ p \in Nat /\ l \in Nat /\ 1 \in 1..p
          /\ received' \in Seq(R) /\ Len(received') = l + 1 /\ received'[l + 1] = put[1]
          /\ \A i \in 1..l : received'[i] = received[i]
      BY <1>2, <2>1, <2>3
    <3>3. /\ put' \in Seq(R) /\ Len(put') = p - 1
          /\ \A k \in 1..(p - 1) : put'[k] = put[k + 1]
      BY <1>2, <2>1, <2>3
    <3>4. arrived' = arrived /\ result' = result /\ outcome' = "putting"
      BY <2>1, <2>3
    <3> HIDE DEF l, p, arrived, n
    <3>5. \A i \in 1..(l + 1) : received'[i] = arrived[i]
      <4>1. put[1] = arrived[l + 1]
        BY <3>1, <3>2
      <4>2. \A i \in 1..(l + 1) : i = l + 1 \/ i \in 1..l
        BY <3>2
      <4> QED
        BY <3>1, <3>2, <4>1, <4>2
    <3>6. \A k \in 1..(p - 1) : put'[k] = arrived[(l + 1) + k]
      <4> TAKE k \in 1..(p - 1)
      <4>1. k + 1 \in 1..p /\ l + (k + 1) = (l + 1) + k
        BY <3>2
      <4> QED
        BY <3>1, <3>3, <4>1
    <3>7. (l + 1) + (p - 1) = n /\ (l + 1) + (p - 1) <= n
      BY <1>1, <3>1, <3>2
    <3> QED
      BY <1>1, <3>2, <3>3, <3>4, <3>5, <3>6, <3>7 DEF FlightInv, arrived, n
  <2> QED
    BY <1>6, <2>2, <2>3 DEF PutRow
<1>7. CASE EndPut
  BY <1>7 DEF EndPut, FlightInv
<1>8. CASE UNCHANGED flightVars
  BY <1>8 DEF flightVars, FlightInv
<1> QED
  BY <1>4, <1>5, <1>6, <1>7, <1>8 DEF FlightNext

LEMMA RoundTripIfInv ==
  ASSUME FlightInv
  PROVE  FlightRoundTrip
<1> DEFINE n == Len(result)
<1>1. /\ result \in RowLists /\ n \in Nat /\ \A i \in 1..n : IsRow(result[i])
  BY ResultIsList DEF FlightInv
<1>2. PICK R : received \in Seq(R) /\ put \in Seq(R)
  BY DEF FlightInv
<1>3. Len(received) \in Nat /\ Len(put) \in Nat /\ DOMAIN received = 1..Len(received)
  BY <1>2
<1>4. Len(received) + Len(put) <= n /\ (outcome = "ok" => Len(received) + Len(put) = n /\ put = <<>>)
  BY DEF FlightInv
<1>5. Len(received) <= n /\ (outcome = "ok" => Len(received) = n)
  <2> DEFINE l == Len(received)
             p == Len(put)
  <2>1. put = <<>> => p = 0
    OBVIOUS
  <2>2. l \in Nat /\ p \in Nat /\ l + p <= n /\ (outcome = "ok" => l + p = n /\ p = 0)
    BY <1>3, <1>4, <2>1
  <2> HIDE DEF n, l, p
  <2>3. l <= n /\ (outcome = "ok" => l = n)
    BY <1>1, <2>2
  <2> QED
    BY <2>3 DEF l
<1>6. ASSUME NEW i \in DOMAIN received PROVE Faithful(received[i], result[i], Leader(i))
  <2>1. i \in 1..n /\ i \in 1..Len(received)
    BY <1>1, <1>3, <1>5
  <2>2. received[i] = Refitted(result[i], result[LeaderAt(i)])
    BY <2>1 DEF FlightInv, ArrivedRows
  <2>3. LeaderAt(i) \in 1..n
    <3> DEFINE m == MaxBatchRows
               q == (i - 1) \div m
    <3>1. m \in Nat /\ m # 0 /\ i - 1 \in Nat
      BY <2>1, FlightAssumption
    <3>2. q \in Nat /\ q * m <= i - 1 /\ q * m \in Nat
      BY <3>1, DivFloor
    <3>3. q * m + 1 \in 1..n
      <4> DEFINE p == q * m
      <4> HIDE DEF p, n
      <4>1. p + 1 \in 1..n
        BY <1>1, <2>1, <3>2 DEF p
      <4> QED
        BY <4>1 DEF p
    <3> QED
      BY <3>3 DEF LeaderAt
  <2>4. Leader(i) = result[LeaderAt(i)]
    BY DEF Leader, LeaderAt
  <2>5. IsRow(result[i]) /\ IsRow(result[LeaderAt(i)])
    BY <1>1, <2>1, <2>3
  <2> QED
    BY <2>2, <2>4, <2>5, ArrivesFaithful
<1> QED
  BY <1>5, <1>6 DEF FlightRoundTrip, Faithful

\* Rows that travel from one server to another arrive in order and with their
\* times, however many there are and however large a batch is: all of them if
\* do_put succeeds, the first ones if it fails, each under the columns of the
\* first row of its batch, which keep the values of their own types but for the sign
\* of an unsigned number (build_batch_from_rows, convert_from_record_batch).
THEOREM RowsSurviveTheTrip == FlightSpec => []FlightRoundTrip
<1>1. FlightSpec => []FlightInv
  BY FlightInvInit, FlightInvStep, PTL DEF FlightSpec
<1>2. FlightInv => FlightRoundTrip
  BY RoundTripIfInv
<1> QED
  BY <1>1, <1>2, PTL

-----------------------------------------------------------------------------
(* Lines: how a line is cut, and what the parts of the line of a client are. *)

\* Numbers in order are the increasing list of their set.
LEMMA IncreasingIs ==
  ASSUME NEW S, S \subseteq Nat, IsFiniteSet(S), NEW m \in Nat, NEW t \in [1..m -> S],
         \A k, l \in 1..m : k < l => t[k] < t[l], \A x \in S : \E k \in 1..m : t[k] = x
  PROVE  Increasing(S) = t
<1> DEFINE n == Cardinality(S)
           s == Increasing(S)
<1>1. /\ n \in Nat /\ s \in Seq(S) /\ Len(s) = n /\ DOMAIN s = 1..n
      /\ \A k, l \in 1..n : k < l => s[k] < s[l]
      /\ \A x \in S : \E k \in 1..n : s[k] = x
  <2>1. S \subseteq Int
    OBVIOUS
  <2> QED
    BY <2>1, IncreasingFacts
<1> HIDE DEF n, s
<1>2. t \in Seq(S) /\ Len(t) = m /\ DOMAIN t = 1..m
  OBVIOUS
<1>3. s \in [1..n -> S]
  BY <1>1
<1>4. InOrder(s, n, S) /\ InOrder(t, m, S)
  BY <1>1, <1>2, <1>3 DEF InOrder
<1>5. Alike(s, n, t, m)
  BY <1>4, OrderUnique
<1>6. s = t
  BY <1>1, <1>2, <1>3, <1>5 DEF Alike
<1> QED
  BY <1>6 DEF s

\* A list, one element and another list.
IsAround(s, a, x, b, S) ==
  a \in Seq(S) /\ b \in Seq(S) /\ x \in S /\ s = (a \o <<x>>) \o b

\* The same, place by place.
Placed(s, a, x, b, S) ==
  /\ s \in Seq(S) /\ Len(s) = Len(a) + 1 + Len(b) /\ DOMAIN s = 1..Len(s)
  /\ \A i \in 1..Len(a) : s[i] = a[i]
  /\ s[Len(a) + 1] = x
  /\ \A i \in 1..Len(b) : s[Len(a) + 1 + i] = b[i]

LEMMA AroundFacts ==
  ASSUME NEW S, NEW s, NEW a, NEW x, NEW b, IsAround(s, a, x, b, S)
  PROVE  Placed(s, a, x, b, S)
<1> DEFINE h == a \o <<x>>
           m == Len(a)
           n == Len(b)
<1>1. h \in Seq(S) /\ Len(h) = m + 1 /\ m \in Nat /\ n \in Nat /\ b \in Seq(S)
      /\ (\A i \in 1..m : h[i] = a[i]) /\ h[m + 1] = x
  BY DEF IsAround
<1> HIDE DEF h
<1>2. s = h \o b
  BY DEF h, IsAround
<1>3. s \in Seq(S) /\ Len(s) = (m + 1) + n
      /\ \A i \in 1..((m + 1) + n) : s[i] = IF i <= m + 1 THEN h[i] ELSE b[i - (m + 1)]
  <2>1. h \in Seq(S) /\ b \in Seq(S)
    BY <1>1
  <2>2. /\ h \o b \in Seq(S)
        /\ Len(h \o b) = Len(h) + Len(b)
        /\ \A i \in 1..(Len(h) + Len(b)) : (h \o b)[i] = IF i <= Len(h) THEN h[i] ELSE b[i - Len(h)]
    BY <2>1, ConcatProperties
  <2> QED
    BY <1>1, <1>2, <2>2
<1> HIDE DEF m, n
<1>4. DOMAIN s = 1..Len(s) /\ \A i \in 1..m : s[i] = a[i]
  BY <1>1, <1>3
<1>5. s[m + 1] = x
  <2>1. m + 1 \in 1..((m + 1) + n)
    BY <1>1
  <2> QED
    BY <1>1, <1>3, <2>1
<1>6. \A i \in 1..n : s[m + 1 + i] = b[i]
  <2> TAKE i \in 1..n
  <2>1. m + 1 + i \in 1..((m + 1) + n) /\ ~(m + 1 + i <= m + 1) /\ (m + 1 + i) - (m + 1) = i
    BY <1>1
  <2> QED
    BY <1>3, <2>1
<1> QED
  BY <1>3, <1>4, <1>5, <1>6 DEF m, n, Placed

LEMMA PlaceFacts ==
  ASSUME NEW S, NEW s \in Seq(S), NEW token
  PROVE  /\ PlacesOf(s, token) = {i \in 1..Len(s) : s[i] = token}
         /\ PlacesOf(s, token) \subseteq Nat /\ IsFiniteSet(PlacesOf(s, token))
         /\ PlacesOf(s, token) = {} => FirstAt(s, token) = 0 /\ LastAt(s, token) = 0
         /\ PlacesOf(s, token) # {} =>
              /\ FirstAt(s, token) \in PlacesOf(s, token) /\ LastAt(s, token) \in PlacesOf(s, token)
              /\ \A i \in PlacesOf(s, token) : FirstAt(s, token) <= i /\ i <= LastAt(s, token)
<1> DEFINE P == PlacesOf(s, token)
           n == Len(s)
<1>1. n \in Nat /\ P = {i \in 1..n : s[i] = token}
  BY DEF PlacesOf
<1> HIDE DEF n
<1>2. P \subseteq 1..n /\ P \subseteq 0..n /\ P \subseteq Nat /\ P \subseteq Int
  BY <1>1
<1>3. IsFiniteSet(P)
  <2>1. IsFiniteSet(1..n)
    BY <1>1, FS_Interval
  <2> HIDE DEF P
  <2> QED
    BY <1>2, <2>1, FS_Subset
<1>4. FirstAt(s, token) = (IF P = {} THEN 0 ELSE Least(P)) /\ LastAt(s, token) = IF P = {} THEN 0 ELSE Greatest(P)
  BY DEF FirstAt, LastAt
<1> HIDE DEF P
<1>5. ASSUME P # {}
      PROVE  Least(P) \in P /\ Greatest(P) \in P /\ \A i \in P : Least(P) <= i /\ i <= Greatest(P)
  <2>1. PICK x \in P : \A y \in P : x <= y
    BY <1>2, <1>5, LeastExists
  <2>2. PICK z \in P : \A y \in P : y <= z
    BY <1>1, <1>2, <1>5, GreatestExists
  <2> QED
    BY <1>2, <2>1, <2>2, LeastIs, GreatestIs
<1> QED
  BY <1>1, <1>2, <1>3, <1>4, <1>5 DEF P, n

\* Where a list is cut at the first or the last place of a token.
LEMMA CutAround ==
  ASSUME NEW S, NEW s, NEW a, NEW token, NEW b, IsAround(s, a, token, b, S)
  PROVE  /\ Until(s, Len(a) + 1) = a /\ Behind(s, Len(a) + 1) = b
         /\ (\A i \in 1..Len(a) : a[i] # token) => FirstAt(s, token) = Len(a) + 1
         /\ (\A i \in 1..Len(b) : b[i] # token) => LastAt(s, token) = Len(a) + 1
<1> DEFINE m == Len(a)
           n == Len(b)
           p == m + 1
           P == PlacesOf(s, token)
<1>1. /\ s \in Seq(S) /\ Len(s) = m + 1 + n /\ DOMAIN s = 1..Len(s)
      /\ (\A i \in 1..m : s[i] = a[i]) /\ s[m + 1] = token
      /\ \A i \in 1..n : s[m + 1 + i] = b[i]
  <2>1. Placed(s, a, token, b, S)
    BY AroundFacts
  <2> QED
    BY ONLY <2>1 DEF Placed
<1>2. m \in Nat /\ n \in Nat /\ a \in Seq(S) /\ b \in Seq(S)
  BY DEF IsAround
<1>3. Until(s, p) = a
  <2>1. /\ SubSeq(s, 1, m) \in Seq(S) /\ Len(SubSeq(s, 1, m)) = m - 1 + 1
        /\ \A k \in 1..(m - 1 + 1) : SubSeq(s, 1, m)[k] = s[1 + k - 1]
    BY <1>1, <1>2, SubSeqFacts
  <2>2. p - 1 = m /\ m - 1 + 1 = m /\ \A k \in 1..m : 1 + k - 1 = k
    BY <1>2
  <2>3. Until(s, p) = SubSeq(s, 1, m)
    BY <2>2 DEF Until
  <2>4. \A k \in 1..m : SubSeq(s, 1, m)[k] = a[k]
    BY <1>1, <2>1, <2>2
  <2> DEFINE t == SubSeq(s, 1, m)
  <2>5. t \in Seq(S) /\ Len(t) = Len(a) /\ \A k \in 1..Len(t) : t[k] = a[k]
    BY <2>1, <2>2, <2>4
  <2> HIDE DEF t
  <2>6. t = a
    BY <1>2, <2>5, SeqEqual
  <2> QED
    BY <2>3, <2>6 DEF t
<1>4. Behind(s, p) = b
  <2>1. p + 1 \in Nat /\ 1 <= p + 1 /\ p + 1 <= Len(s) + 1 /\ Len(s) \in Nat
    BY <1>1, <1>2
  <2> DEFINE t == SubSeq(s, p + 1, Len(s))
             l == Len(s)
  <2>2. /\ t \in Seq(S) /\ Len(t) = l - (p + 1) + 1
        /\ \A k \in 1..(l - (p + 1) + 1) : t[k] = s[(p + 1) + k - 1]
    BY <1>1, <2>1, SubSeqFacts
  <2>3. l - (p + 1) + 1 = n /\ \A k \in 1..n : (p + 1) + k - 1 = m + 1 + k
    BY <1>1, <1>2
  <2>4. Len(t) = n /\ \A k \in 1..n : t[k] = b[k]
    BY <1>1, <2>2, <2>3
  <2>5. Behind(s, p) = t
    BY DEF Behind
  <2> HIDE DEF t
  <2>6. t = b
    BY <1>2, <2>2, <2>4, SeqEqual
  <2> QED
    BY <2>5, <2>6
<1>5. /\ P = {i \in 1..Len(s) : s[i] = token} /\ P \subseteq Nat
      /\ P # {} => /\ FirstAt(s, token) \in P /\ LastAt(s, token) \in P
                   /\ \A i \in P : FirstAt(s, token) <= i /\ i <= LastAt(s, token)
  <2>1. s \in Seq(S)
    BY <1>1
  <2>2. /\ PlacesOf(s, token) = {i \in 1..Len(s) : s[i] = token}
        /\ PlacesOf(s, token) \subseteq Nat /\ IsFiniteSet(PlacesOf(s, token))
        /\ PlacesOf(s, token) = {} => FirstAt(s, token) = 0 /\ LastAt(s, token) = 0
        /\ PlacesOf(s, token) # {} =>
             /\ FirstAt(s, token) \in PlacesOf(s, token) /\ LastAt(s, token) \in PlacesOf(s, token)
             /\ \A i \in PlacesOf(s, token) : FirstAt(s, token) <= i /\ i <= LastAt(s, token)
    BY ONLY <2>1, PlaceFacts
  <2> QED
    BY <2>2
<1>6. p \in P
  <2>1. p \in 1..Len(s)
    BY <1>1, <1>2
  <2> QED
    BY <1>1, <1>5, <2>1
<1> HIDE DEF P
<1>7. ASSUME \A i \in 1..m : a[i] # token PROVE FirstAt(s, token) = p
  <2>1. FirstAt(s, token) \in P /\ FirstAt(s, token) <= p /\ FirstAt(s, token) \in Nat
    BY <1>5, <1>6
  <2>2. FirstAt(s, token) \notin 1..m /\ FirstAt(s, token) >= 1
    BY <1>1, <1>2, <1>5, <1>7, <2>1
  <2> QED
    BY <1>2, <2>1, <2>2
<1>8. ASSUME \A i \in 1..n : b[i] # token PROVE LastAt(s, token) = p
  <2> DEFINE q == LastAt(s, token)
  <2>1. q \in P /\ p <= q /\ q \in 1..Len(s)
    BY <1>5, <1>6
  <2> HIDE DEF q
  <2>2. q = p \/ q - (m + 1) \in 1..n
    BY <1>1, <1>2, <2>1
  <2>3. ASSUME q - (m + 1) \in 1..n PROVE FALSE
    <3> DEFINE d == q - (m + 1)
    <3>1. s[m + 1 + d] = b[d] /\ m + 1 + d = q
      <4>1. d \in 1..n
        BY <2>3
      <4>2. m + 1 + d = q
        BY <1>1, <1>2, <2>1
      <4> HIDE DEF d
      <4> QED
        BY <1>1, <4>1, <4>2
    <3>2. s[q] = token
      BY <1>5, <2>1
    <3> QED
      BY <1>8, <2>3, <3>1, <3>2
  <2> QED
    BY <2>2, <2>3 DEF q
<1> QED
  BY <1>3, <1>4, <1>7, <1>8

\* What trimming leaves of a list whose end is solid, and of one with two solid ends.
LEMMA TrimmedFacts ==
  ASSUME NEW S, NEW s \in Seq(S), s # <<>>, s[Len(s)] # Space
  PROVE  /\ \E q \in 1..Len(s) : Trimmed(s) = SubSeq(s, q, Len(s))
         /\ s[1] # Space => Trimmed(s) = s
<1> DEFINE n == Len(s)
           solid == {i \in DOMAIN s : s[i] # Space}
<1>1. n \in Nat /\ n >= 1 /\ DOMAIN s = 1..n
  OBVIOUS
<1>2. n \in solid /\ solid \subseteq 1..n /\ solid \subseteq 0..n /\ solid \subseteq Nat
      /\ solid \subseteq Int /\ solid # {}
  BY <1>1
<1>3. Trimmed(s) = SubSeq(s, Least(solid), Greatest(solid))
  BY <1>2 DEF Trimmed
<1>4. s[1] # Space => 1 \in solid
  BY <1>1
<1> HIDE DEF solid, n
<1>5. Greatest(solid) = n
  <2>1. \A y \in solid : y <= n
    BY <1>1, <1>2
  <2>2. Greatest(solid) \in solid /\ \A y \in solid : y <= Greatest(solid)
    BY <1>2, <2>1, GreatestIs
  <2> DEFINE g == Greatest(solid)
  <2>3. g \in Nat /\ g <= n /\ n <= g
    BY <1>2, <2>1, <2>2
  <2> HIDE DEF g
  <2>4. g = n
    BY <1>1, <2>3
  <2> QED
    BY <2>4 DEF g
<1>6. Least(solid) \in solid /\ \A y \in solid : Least(solid) <= y
  <2>1. PICK x \in solid : \A y \in solid : x <= y
    BY <1>2, LeastExists
  <2> QED
    BY <1>2, <2>1, LeastIs
<1> DEFINE l == Least(solid)
<1>7. l \in 1..n /\ Trimmed(s) = SubSeq(s, l, n)
  BY <1>2, <1>3, <1>5, <1>6
<1>8. s[1] # Space => l = 1
  <2>1. s[1] # Space => l <= 1
    BY <1>4, <1>6
  <2> HIDE DEF l
  <2> QED
    BY <1>1, <1>7, <2>1
<1> HIDE DEF l
<1>9. s[1] # Space => Trimmed(s) = s
  <2> SUFFICES ASSUME s[1] # Space PROVE SubSeq(s, 1, n) = s
    BY <1>7, <1>8
  <2> DEFINE t == SubSeq(s, 1, n)
  <2>1. /\ t \in Seq(S) /\ Len(t) = n - 1 + 1
        /\ \A k \in 1..(n - 1 + 1) : t[k] = s[1 + k - 1]
    BY <1>1, SubSeqFacts DEF n
  <2>2. n - 1 + 1 = n /\ \A k \in 1..n : 1 + k - 1 = k
    BY <1>1
  <2> HIDE DEF t
  <2>3. Len(t) = Len(s) /\ \A k \in 1..Len(t) : t[k] = s[k]
    BY <2>1, <2>2 DEF n
  <2>4. t = s
    BY <2>1, <2>3, SeqEqual
  <2> QED
    BY <2>4 DEF t
<1> QED
  BY <1>7, <1>9 DEF n

LEMMA TrimmedSeq ==
  ASSUME NEW S, NEW s \in Seq(S)
  PROVE  Trimmed(s) \in Seq(S)
<1> DEFINE solid == {i \in DOMAIN s : s[i] # Space}
           n == Len(s)
<1>1. n \in Nat /\ solid \subseteq 1..n /\ solid \subseteq 0..n /\ solid \subseteq Nat /\ solid \subseteq Int
  OBVIOUS
<1>2. Trimmed(s) = IF solid = {} THEN <<>> ELSE SubSeq(s, Least(solid), Greatest(solid))
  BY DEF Trimmed
<1> HIDE DEF solid
<1>3. CASE solid = {}
  BY <1>2, <1>3
<1>4. CASE solid # {}
  <2>1. PICK x \in solid : \A y \in solid : x <= y
    BY <1>1, <1>4, LeastExists
  <2>2. PICK z \in solid : \A y \in solid : y <= z
    BY <1>1, <1>4, GreatestExists
  <2> DEFINE l == Least(solid)
             g == Greatest(solid)
  <2>3. /\ Least(solid) \in solid /\ \A y \in solid : Least(solid) <= y
    BY <1>1, <2>1, LeastIs
  <2>4. /\ Greatest(solid) \in solid /\ \A y \in solid : y <= Greatest(solid)
    BY <1>1, <2>2, GreatestIs
  <2>5. l \in 1..n /\ g \in 1..n /\ l <= g
    BY <1>1, <2>3, <2>4
  <2> HIDE DEF l, g, n
  <2>6. l \in Nat /\ g \in Nat /\ 1 <= l /\ l <= g + 1 /\ g <= n
    BY <1>1, <2>5
  <2>7. SubSeq(s, l, g) \in Seq(S)
    BY <2>6, SubSeqFacts DEF n
  <2> QED
    BY <1>2, <1>4, <2>7 DEF l, g
<1> QED
  BY <1>3, <1>4

\* Where a list is cut at its commas, and what lies between the cuts.
CutsOf(s) == Increasing({0, Len(s) + 1} \cup PlacesOf(s, Comma))
PartsOf(s) ==
  [k \in 1..(Len(CutsOf(s)) - 1) |-> Trimmed(SubSeq(s, CutsOf(s)[k] + 1, CutsOf(s)[k + 1] - 1))]

LEMMA CutFacts ==
  ASSUME NEW S, NEW s \in Seq(S)
  PROVE  /\ Len(CutsOf(s)) \in Nat /\ Len(CutsOf(s)) >= 2
         /\ \A k \in 1..Len(CutsOf(s)) :
              CutsOf(s)[k] \in 0..(Len(s) + 1) /\ CutsOf(s)[k] \in {0, Len(s) + 1} \cup PlacesOf(s, Comma)
         /\ \A k, l \in 1..Len(CutsOf(s)) : k < l => CutsOf(s)[k] < CutsOf(s)[l]
         /\ \A x \in {0, Len(s) + 1} \cup PlacesOf(s, Comma) : \E k \in 1..Len(CutsOf(s)) : CutsOf(s)[k] = x
<1> DEFINE n == Len(s)
           P == PlacesOf(s, Comma)
           T == {0, n + 1} \cup P
<1>1. n \in Nat /\ P \subseteq 1..n
  BY DEF PlacesOf
<1>2. CutsOf(s) = Increasing(T)
  BY DEF CutsOf
<1> HIDE DEF P, n
<1>3. T \subseteq 0..(n + 1) /\ T \subseteq Int /\ 0 \in T /\ n + 1 \in T /\ 0 # n + 1
  BY <1>1
<1>4. IsFiniteSet(T)
  <2>1. 0 \in Int /\ n + 1 \in Int
    BY <1>1
  <2>2. IsFiniteSet(0..(n + 1))
    BY <2>1, FS_Interval
  <2> HIDE DEF T
  <2> QED
    BY <1>3, <2>2, FS_Subset
<1> HIDE DEF T
<1> DEFINE m == Cardinality(T)
           c == Increasing(T)
<1>5. /\ m \in Nat /\ c \in Seq(T) /\ Len(c) = m /\ DOMAIN c = 1..m
      /\ \A k, l \in 1..m : k < l => c[k] < c[l]
      /\ \A x \in T : \E k \in 1..m : c[k] = x
  BY <1>3, <1>4, IncreasingFacts
<1> HIDE DEF m, c
<1>6. m >= 2
  <2>1. PICK k \in 1..m : c[k] = 0
    BY <1>3, <1>5
  <2>2. PICK l \in 1..m : c[l] = n + 1
    BY <1>3, <1>5
  <2>3. k # l
    BY <1>3, <2>1, <2>2
  <2> QED
    BY <1>5, <2>3
<1>7. \A k \in 1..m : c[k] \in T /\ c[k] \in 0..(n + 1)
  <2>1. \A k \in 1..m : c[k] \in T
    BY <1>5, ElementOfSeq
  <2> QED
    BY <1>3, <2>1
<1>8. CutsOf(s) = c
  BY <1>2 DEF c
<1> QED
  BY <1>5, <1>6, <1>7, <1>8 DEF T, P, n

LEMMA PartFacts ==
  ASSUME NEW S, NEW s \in Seq(S)
  PROVE  /\ PartsOf(s) \in Seq(Seq(S)) /\ Len(PartsOf(s)) = Len(CutsOf(s)) - 1
         /\ Pieces(s) = Kept(PartsOf(s), {k \in DOMAIN PartsOf(s) : PartsOf(s)[k] # <<>>})
         /\ Pieces(s) \in Seq(Seq(S))
<1> DEFINE c == CutsOf(s)
           m == Len(c)
           n == Len(s)
           parts == PartsOf(s)
           T == Seq(S)
<1>1. n \in Nat /\ m \in Nat /\ m >= 2
      /\ (\A k \in 1..m : c[k] \in 0..(n + 1))
      /\ \A k, l \in 1..m : k < l => c[k] < c[l]
  BY CutFacts
<1>2. parts = [k \in 1..(m - 1) |-> Trimmed(SubSeq(s, c[k] + 1, c[k + 1] - 1))]
  BY DEF PartsOf
<1> HIDE DEF c, m, n
<1>3. ASSUME NEW k \in 1..(m - 1) PROVE Trimmed(SubSeq(s, c[k] + 1, c[k + 1] - 1)) \in T
  <2> DEFINE a == c[k] + 1
             b == c[k + 1] - 1
  <2>1. k \in 1..m /\ k + 1 \in 1..m /\ k < k + 1
    BY <1>1
  <2>2. c[k] \in 0..(n + 1) /\ c[k + 1] \in 0..(n + 1) /\ c[k] < c[k + 1]
    BY <1>1, <2>1
  <2>3. a \in Nat /\ b \in Nat /\ 1 <= a /\ a <= b + 1 /\ b <= n
    BY <1>1, <2>2
  <2> HIDE DEF a, b
  <2>4. SubSeq(s, a, b) \in Seq(S)
    BY <2>3, SubSeqFacts DEF n
  <2>5. Trimmed(SubSeq(s, a, b)) \in Seq(S)
    BY <2>4, TrimmedSeq
  <2> QED
    BY <2>5 DEF a, b
<1>4. m - 1 \in Nat
  BY <1>1
<1> HIDE DEF T
<1>5. parts \in [1..(m - 1) -> T]
  BY <1>2, <1>3
<1> HIDE DEF parts
<1>6. parts \in Seq(T) /\ Len(parts) = m - 1
  BY <1>4, <1>5
<1>7. Pieces(s) = Kept(parts, {k \in DOMAIN parts : parts[k] # <<>>})
  BY DEF Pieces, parts, PartsOf, CutsOf
<1>8. Pieces(s) \in Seq(T)
  BY <1>6, <1>7, KeptPicks
<1> QED
  BY <1>6, <1>7, <1>8 DEF parts, m, T, c

\* What lies between the given cuts, if none of it is left out.
LEMMA PiecesAre ==
  ASSUME NEW S, NEW s \in Seq(S), NEW m \in Nat, m >= 2,
         NEW t \in [1..m -> {0, Len(s) + 1} \cup PlacesOf(s, Comma)],
         \A k, l \in 1..m : k < l => t[k] < t[l],
         \A x \in {0, Len(s) + 1} \cup PlacesOf(s, Comma) : \E k \in 1..m : t[k] = x,
         NEW pieces \in Seq(Seq(S)), Len(pieces) = m - 1,
         \A k \in 1..(m - 1) : /\ pieces[k] # <<>>
                               /\ pieces[k] = Trimmed(SubSeq(s, t[k] + 1, t[k + 1] - 1))
  PROVE  Pieces(s) = pieces
<1> DEFINE n == Len(s)
           T == {0, n + 1} \cup PlacesOf(s, Comma)
           c == CutsOf(s)
           parts == PartsOf(s)
<1>1. n \in Nat /\ T \subseteq 0..(n + 1) /\ T \subseteq Nat
  BY DEF PlacesOf
<1>2. IsFiniteSet(T)
  <2>1. 0 \in Int /\ n + 1 \in Int
    BY <1>1
  <2> HIDE DEF n
  <2>2. IsFiniteSet(0..(n + 1))
    BY <2>1, FS_Interval
  <2> HIDE DEF T
  <2> QED
    BY <1>1, <2>2, FS_Subset
<1>3. c = Increasing(T)
  BY DEF CutsOf
<1> HIDE DEF T
<1>4. t \in [1..m -> T] /\ \A x \in T : \E k \in 1..m : t[k] = x
  BY DEF T
<1>5. Increasing(T) = t
  BY <1>1, <1>2, <1>4, IncreasingIs
<1>6. c = t /\ Len(c) = m
  <2>1. Len(t) = m
    BY <1>4
  <2> QED
    BY <1>3, <1>5, <2>1
<1>7. parts = [k \in 1..(m - 1) |-> Trimmed(SubSeq(s, t[k] + 1, t[k + 1] - 1))]
  BY <1>6 DEF PartsOf
<1>8. /\ parts \in Seq(Seq(S)) /\ Pieces(s) = Kept(parts, {k \in DOMAIN parts : parts[k] # <<>>})
  BY PartFacts
<1>9. Len(parts) = m - 1 /\ DOMAIN parts = 1..(m - 1)
  BY <1>7
<1>10. parts = pieces
  <2>1. \A k \in 1..(m - 1) : parts[k] = pieces[k]
    BY <1>7
  <2> DEFINE U == Seq(S)
  <2>2. parts \in Seq(U) /\ pieces \in Seq(U)
    BY <1>8
  <2> HIDE DEF U, parts
  <2> QED
    BY <1>9, <2>1, <2>2, SeqEqual
<1>11. 1..Len(pieces) \subseteq {k \in DOMAIN pieces : pieces[k] # <<>>}
  BY <1>9, <1>10
<1>12. Kept(pieces, {k \in DOMAIN pieces : pieces[k] # <<>>}) = pieces
  <2> DEFINE U == Seq(S)
             keep == {k \in DOMAIN pieces : pieces[k] # <<>>}
  <2>1. pieces \in Seq(U) /\ 1..Len(pieces) \subseteq keep
    BY <1>11
  <2> HIDE DEF U, keep
  <2>2. Kept(pieces, keep) = pieces
    BY <2>1, KeptAll
  <2> QED
    BY <2>2 DEF keep
<1> QED
  BY <1>8, <1>10, <1>12

LEMMA NoPieces == Pieces(<<>>) = <<>>
<1> DEFINE s == <<>>
           T == {0, Len(s) + 1} \cup PlacesOf(s, Comma)
           t == <<0, 1>>
<1>1. s \in Seq({}) /\ Len(s) = 0 /\ DOMAIN s = {}
  OBVIOUS
<1>2. T = {0, 1}
  BY <1>1 DEF PlacesOf
<1>3. CutsOf(s) = Increasing(T)
  BY DEF CutsOf
<1>4. /\ t \in [1..2 -> {0, 1}] /\ Len(t) = 2 /\ (\A k, l \in 1..2 : k < l => t[k] < t[l])
      /\ \A x \in {0, 1} : \E k \in 1..2 : t[k] = x
  <2>1. t[1] = 0 /\ t[2] = 1 /\ 1..2 = {1, 2}
    OBVIOUS
  <2> QED
    BY <2>1
<1>5. IsFiniteSet({0, 1})
  <2> DEFINE a == 0
             b == 1
  <2>1. a \in Int /\ b \in Int /\ {0, 1} = a..b
    OBVIOUS
  <2> HIDE DEF a, b
  <2>2. IsFiniteSet(a..b)
    BY <2>1, FS_Interval
  <2> QED
    BY <2>1, <2>2
<1> HIDE DEF t
<1>6. Increasing({0, 1}) = t
  <2> DEFINE two == {0, 1}
             m == 2
  <2>1. two \subseteq Nat /\ IsFiniteSet(two) /\ m \in Nat /\ t \in [1..m -> two]
        /\ (\A k, l \in 1..m : k < l => t[k] < t[l]) /\ \A x \in two : \E k \in 1..m : t[k] = x
    BY <1>4, <1>5
  <2> HIDE DEF two, m
  <2>2. Increasing(two) = t
    BY <2>1, IncreasingIs
  <2> QED
    BY <2>2 DEF two
<1>7. CutsOf(s) = t /\ Len(CutsOf(s)) = 2
  BY <1>2, <1>3, <1>4, <1>6
<1>8. PartsOf(s) = [k \in 1..1 |-> Trimmed(SubSeq(s, t[k] + 1, t[k + 1] - 1))]
  <2> DEFINE c == CutsOf(s)
             m == Len(c) - 1
  <2>1. c = t /\ m = 1
    BY <1>7
  <2>2. PartsOf(s) = [k \in 1..m |-> Trimmed(SubSeq(s, c[k] + 1, c[k + 1] - 1))]
    BY DEF PartsOf
  <2> HIDE DEF c, m, s
  <2> QED
    BY <2>1, <2>2
<1>9. Trimmed(SubSeq(s, t[1] + 1, t[1 + 1] - 1)) = <<>>
  <2>1. t[1] + 1 = 1 /\ t[1 + 1] - 1 = 0
    BY DEF t
  <2>2. SubSeq(s, 1, 0) = <<>>
    BY <1>1
  <2>3. Trimmed(<<>>) = <<>>
    <3>1. {i \in DOMAIN << >> : << >>[i] # Space} = {}
      BY <1>1
    <3> QED
      BY <3>1 DEF Trimmed
  <2> QED
    BY <2>1, <2>2, <2>3
<1>10. \A k \in DOMAIN PartsOf(s) : PartsOf(s)[k] = <<>>
  BY <1>8, <1>9
<1>11. {k \in DOMAIN PartsOf(s) : PartsOf(s)[k] # <<>>} = {}
  BY <1>10
<1>12. PartsOf(s) \in Seq(Seq({})) /\ Pieces(s) = Kept(PartsOf(s), {k \in DOMAIN PartsOf(s) : PartsOf(s)[k] # <<>>})
  BY <1>1, PartFacts
<1>13. Pieces(s) = Kept(PartsOf(s), {})
  BY <1>11, <1>12
<1>14. Kept(PartsOf(s), {}) = <<>>
  <2> DEFINE U == Seq({})
             parts == PartsOf(s)
  <2>1. parts \in Seq(U) /\ {} \cap (1..Len(parts)) = {}
    BY <1>12
  <2> HIDE DEF U, parts
  <2>2. Kept(parts, {}) = <<>>
    BY <2>1, KeptNone
  <2> QED
    BY <2>2 DEF parts
<1> QED
  BY <1>13, <1>14

\* A list without spaces at its ends and without commas, and no commas in it.
IsSolid(s) ==
  /\ s # <<>> /\ s[1] # Space /\ s[Len(s)] # Space
  /\ \A i \in 1..Len(s) : s[i] # Comma

LEMMA OnePiece ==
  ASSUME NEW S, NEW s \in Seq(S), IsSolid(s)
  PROVE  Pieces(s) = <<s>>
<1> DEFINE n == Len(s)
           t == <<0, n + 1>>
           T == {0, n + 1} \cup PlacesOf(s, Comma)
           pieces == <<s>>
           m == 2
<1>1. n \in Nat /\ n >= 1 /\ DOMAIN s = 1..n
  BY DEF IsSolid
<1>2. PlacesOf(s, Comma) = {}
  BY <1>1 DEF PlacesOf, IsSolid
<1>3. T = {0, n + 1}
  BY <1>2
<1>4. t \in [1..m -> T] /\ (\A k, l \in 1..m : k < l => t[k] < t[l])
      /\ (\A x \in T : \E k \in 1..m : t[k] = x) /\ m \in Nat /\ m >= 2
  <2>1. t[1] = 0 /\ t[2] = n + 1 /\ 1..m = {1, 2} /\ DOMAIN t = 1..2
    OBVIOUS
  <2> HIDE DEF n
  <2>2. 0 < n + 1
    BY <1>1
  <2> QED
    BY <1>3, <2>1, <2>2
<1>5. pieces \in Seq(Seq(S)) /\ Len(pieces) = 1 /\ pieces[1] = s
  OBVIOUS
<1>6. Trimmed(SubSeq(s, t[1] + 1, t[1 + 1] - 1)) = s
  <2>1. t[1] + 1 = 1 /\ t[1 + 1] - 1 = n
    BY <1>1
  <2>2. SubSeq(s, 1, n) = s
    <3> DEFINE u == SubSeq(s, 1, n)
    <3>1. /\ u \in Seq(S) /\ Len(u) = n - 1 + 1
          /\ \A k \in 1..(n - 1 + 1) : u[k] = s[1 + k - 1]
      BY <1>1, SubSeqFacts
    <3>2. n - 1 + 1 = n /\ \A k \in 1..n : 1 + k - 1 = k
      BY <1>1
    <3> HIDE DEF u
    <3>3. Len(u) = Len(s) /\ \A k \in 1..Len(u) : u[k] = s[k]
      BY <3>1, <3>2
    <3>4. u = s
      BY <3>1, <3>3, SeqEqual
    <3> QED
      BY <3>4 DEF u
  <2>3. Trimmed(s) = s
    <3>1. s # <<>> /\ s[1] # Space /\ s[Len(s)] # Space
      BY DEF IsSolid
    <3> QED
      BY <3>1, TrimmedFacts
  <2> QED
    BY <2>1, <2>2, <2>3
<1>7. \A k \in 1..(m - 1) : /\ pieces[k] # <<>>
                            /\ pieces[k] = Trimmed(SubSeq(s, t[k] + 1, t[k + 1] - 1))
  <2>1. \A k \in 1..(m - 1) : k = 1
    OBVIOUS
  <2>2. s # <<>>
    BY DEF IsSolid
  <2> HIDE DEF t, pieces
  <2> QED
    BY <1>5, <1>6, <2>1, <2>2
<1>8. Len(pieces) = m - 1
  BY <1>5
<1> HIDE DEF t, pieces, m
<1>9. Pieces(s) = pieces
  BY <1>4, <1>5, <1>7, <1>8, PiecesAre DEF T, n
<1> QED
  BY <1>9 DEF pieces

LEMMA TwoPieces ==
  ASSUME NEW S, NEW a \in Seq(S), IsSolid(a), NEW b \in Seq(S), IsSolid(b), Comma \in S,
         NEW s, s = (a \o <<Comma>>) \o b
  PROVE  Pieces(s) = <<a, b>>
<1> DEFINE n == Len(s)
           p == Len(a) + 1
           l == Len(b)
           t == <<0, p, n + 1>>
           T == {0, n + 1} \cup PlacesOf(s, Comma)
           pieces == <<a, b>>
           m == 3
<1>0. IsAround(s, a, Comma, b, S)
  BY DEF IsAround
<1>1. /\ s \in Seq(S) /\ n = Len(a) + 1 + l /\ DOMAIN s = 1..n
      /\ \A i \in 1..Len(a) : s[i] = a[i]
      /\ s[p] = Comma
      /\ \A i \in 1..l : s[p + i] = b[i]
  <2>1. Placed(s, a, Comma, b, S)
    BY ONLY <1>0, AroundFacts
  <2> QED
    BY ONLY <2>1 DEF Placed
<1>2. Until(s, p) = a /\ Behind(s, p) = b
  <2>1. /\ Until(s, Len(a) + 1) = a /\ Behind(s, Len(a) + 1) = b
        /\ (\A i \in 1..Len(a) : a[i] # Comma) => FirstAt(s, Comma) = Len(a) + 1
        /\ (\A i \in 1..Len(b) : b[i] # Comma) => LastAt(s, Comma) = Len(a) + 1
    BY <1>0, CutAround
  <2> QED
    BY <2>1
<1>3. l \in Nat /\ Len(a) \in Nat /\ l >= 1 /\ Len(a) >= 1 /\ n \in Nat
  BY <1>1 DEF IsSolid
<1>4. PlacesOf(s, Comma) = {p}
  <2>1. p \in PlacesOf(s, Comma)
    <3>1. p \in 1..n
      BY <1>1, <1>3
    <3> QED
      BY <1>1, <3>1 DEF PlacesOf
  <2>2. ASSUME NEW i \in PlacesOf(s, Comma) PROVE i = p
    <3>1. i \in 1..n /\ s[i] = Comma
      BY <1>1, <2>2 DEF PlacesOf
    <3>2. i \in 1..Len(a) \/ i = p \/ (i - p) \in 1..l
      <4> HIDE DEF l, n
      <4> QED
        BY <1>1, <1>3, <3>1
    <3>3. ASSUME i \in 1..Len(a) PROVE FALSE
      BY <1>1, <3>1, <3>3 DEF IsSolid
    <3>4. ASSUME (i - p) \in 1..l PROVE FALSE
      <4>1. p + (i - p) = i
        BY <1>3, <3>1
      <4>2. b[i - p] = Comma
        BY <1>1, <3>1, <3>4, <4>1
      <4> QED
        BY <3>4, <4>2 DEF IsSolid
    <3> QED
      BY <3>2, <3>3, <3>4
  <2> QED
    BY <2>1, <2>2
<1>5. T = {0, p, n + 1}
  BY <1>4
<1> HIDE DEF n, l, p
<1>6. 0 < p /\ p < n + 1 /\ 0 < n + 1 /\ p \in Nat
  BY <1>1, <1>3 DEF p
<1>7. t \in [1..m -> T] /\ (\A j, k \in 1..m : j < k => t[j] < t[k])
      /\ (\A x \in T : \E k \in 1..m : t[k] = x) /\ m \in Nat /\ m >= 2
  <2>1. t[1] = 0 /\ t[2] = p /\ t[3] = n + 1 /\ 1..m = {1, 2, 3} /\ DOMAIN t = 1..3
    OBVIOUS
  <2> HIDE DEF T
  <2>2. t \in [1..m -> T] /\ \A x \in T : \E k \in 1..m : t[k] = x
    <3>1. t = [k \in 1..3 |-> t[k]]
      OBVIOUS
    <3> HIDE DEF t
    <3>2. \A k \in 1..m : t[k] \in T
      BY <1>5, <2>1
    <3>3. t \in [1..m -> T]
      BY <2>1, <3>1, <3>2
    <3> QED
      BY <1>5, <2>1, <3>3
  <2>3. ASSUME NEW j \in 1..m, NEW k \in 1..m, j < k PROVE t[j] < t[k]
    <3>1. (j = 1 /\ k = 2) \/ (j = 1 /\ k = 3) \/ (j = 2 /\ k = 3)
      BY <2>3
    <3> HIDE DEF t
    <3> QED
      BY <1>6, <2>1, <3>1
  <2> QED
    BY <2>2, <2>3
<1>8. pieces \in Seq(Seq(S)) /\ Len(pieces) = 2 /\ pieces[1] = a /\ pieces[2] = b
  OBVIOUS
<1>9. \A u \in Seq(S) : IsSolid(u) => Trimmed(u) = u /\ u # <<>>
  <2> SUFFICES ASSUME NEW u \in Seq(S), IsSolid(u) PROVE Trimmed(u) = u /\ u # <<>>
    OBVIOUS
  <2>1. u # <<>> /\ u[1] # Space /\ u[Len(u)] # Space
    BY DEF IsSolid
  <2> QED
    BY <2>1, TrimmedFacts
<1>10. SubSeq(s, t[1] + 1, t[1 + 1] - 1) = a /\ SubSeq(s, t[2] + 1, t[2 + 1] - 1) = b
  <2>1. t[1] + 1 = 1 /\ t[1 + 1] - 1 = p - 1 /\ t[2] + 1 = p + 1 /\ t[2 + 1] - 1 = n
    BY <1>1, <1>3
  <2>2. Until(s, p) = SubSeq(s, 1, p - 1) /\ Behind(s, p) = SubSeq(s, p + 1, n)
    BY DEF Until, Behind, n
  <2> HIDE DEF t
  <2> QED
    BY <1>2, <2>1, <2>2
<1>11. \A k \in 1..(m - 1) : /\ pieces[k] # <<>>
                             /\ pieces[k] = Trimmed(SubSeq(s, t[k] + 1, t[k + 1] - 1))
  <2>1. \A k \in 1..(m - 1) : k = 1 \/ k = 2
    OBVIOUS
  <2>2. Trimmed(a) = a /\ a # <<>> /\ Trimmed(b) = b /\ b # <<>>
    BY <1>9
  <2> HIDE DEF t, pieces
  <2> QED
    BY <1>8, <1>10, <2>1, <2>2
<1>12. Len(pieces) = m - 1 /\ s \in Seq(S)
  BY <1>1, <1>8
<1> HIDE DEF t, pieces, m
<1>13. Pieces(s) = pieces
  <2>1. /\ t \in [1..m -> {0, Len(s) + 1} \cup PlacesOf(s, Comma)]
        /\ \A x \in {0, Len(s) + 1} \cup PlacesOf(s, Comma) : \E k \in 1..m : t[k] = x
    BY <1>7 DEF T, n
  <2>2. /\ m \in Nat /\ m >= 2 /\ \A j, k \in 1..m : j < k => t[j] < t[k]
    BY <1>7
  <2>3. pieces \in Seq(Seq(S)) /\ s \in Seq(S) /\ Len(pieces) = m - 1
    BY <1>8, <1>12
  <2> QED
    BY ONLY <2>1, <2>2, <2>3, <1>11, PiecesAre
<1> QED
  BY <1>13 DEF pieces

\* The piece that ends at p begins behind every comma before p.
EndsAt(piece, s, p) ==
  \E q \in 1..p : /\ piece = SubSeq(s, q, p)
                  /\ \A j \in 1..Len(s) : s[j] = Comma /\ j < p => j < q

LEMMA PieceWith ==
  ASSUME NEW S, NEW s \in Seq(S), NEW p \in 1..Len(s), s[p] # Space, s[p] # Comma,
         p = Len(s) \/ s[p + 1] = Comma
  PROVE  \E k \in 1..Len(Pieces(s)) : EndsAt(Pieces(s)[k], s, p)
<1> DEFINE n == Len(s)
           T == {0, n + 1} \cup PlacesOf(s, Comma)
           c == CutsOf(s)
           m == Len(c)
           parts == PartsOf(s)
<1>1. n \in Nat /\ m \in Nat /\ m >= 2
      /\ (\A k \in 1..m : c[k] \in 0..(n + 1) /\ c[k] \in T)
      /\ (\A k, l \in 1..m : k < l => c[k] < c[l])
      /\ \A x \in T : \E k \in 1..m : c[k] = x
  BY CutFacts
<1>2. /\ parts \in Seq(Seq(S)) /\ Len(parts) = m - 1
      /\ Pieces(s) = Kept(parts, {k \in DOMAIN parts : parts[k] # <<>>})
  BY PartFacts
<1>3. parts = [k \in 1..(m - 1) |-> Trimmed(SubSeq(s, c[k] + 1, c[k + 1] - 1))]
  BY DEF PartsOf
<1>4. p + 1 \in T /\ p \notin T /\ 0 \in T /\ p \in Nat /\ p <= n
      /\ \A j \in 1..n : s[j] = Comma => j \in T
  <2>1. PlacesOf(s, Comma) = {i \in 1..n : s[i] = Comma}
    BY DEF PlacesOf
  <2>2. p = n \/ p + 1 \in 1..n
    BY <1>1
  <2>3. p # 0 /\ p # n + 1
    BY <1>1
  <2> QED
    BY <2>1, <2>2, <2>3
<1> HIDE DEF c, m, T, parts
<1>5. PICK l \in 1..m : c[l] = p + 1
  BY <1>1, <1>4
<1>6. l > 1
  <2>1. PICK k \in 1..m : c[k] = 0
    BY <1>1, <1>4
  <2>2. ~(l < k) /\ l # k
    BY <1>1, <1>4, <1>5, <2>1
  <2> QED
    BY <1>1, <2>1, <2>2
<1> DEFINE k == l - 1
           a == c[k] + 1
<1>7. k \in 1..(m - 1) /\ k \in 1..m /\ k + 1 = l /\ k < l
  BY <1>1, <1>5, <1>6
<1> HIDE DEF k
<1>8. c[k] \in Nat /\ c[k] < p
  <2>1. c[k] \in T /\ c[k] < p + 1 /\ c[k] \in Nat
    BY <1>1, <1>5, <1>7
  <2> QED
    BY <1>4, <2>1
<1>9. \A x \in T : x \in Nat /\ x < p => x < a
  <2> SUFFICES ASSUME NEW x \in T, x \in Nat, x < p PROVE x < a
    OBVIOUS
  <2>1. PICK j \in 1..m : c[j] = x
    BY <1>1
  <2>2. j < l
    <3>1. ~(l < j) /\ l # j
      BY <1>1, <1>4, <1>5, <2>1
    <3> QED
      BY <1>1, <1>5, <2>1, <3>1
  <2>3. j = k \/ j < k
    BY <1>7, <2>1, <2>2
  <2> QED
    BY <1>1, <1>7, <1>8, <2>1, <2>3
<1>10. a \in Nat /\ 1 <= a /\ a <= p
  BY <1>4, <1>8
<1> HIDE DEF a
<1> DEFINE r == SubSeq(s, a, p)
           o == Len(r)
<1>11. parts[k] = Trimmed(r)
  <2>1. c[k + 1] - 1 = p /\ c[k] + 1 = a
    BY <1>4, <1>5, <1>7 DEF a
  <2> HIDE DEF r
  <2>2. parts[k] = Trimmed(SubSeq(s, c[k] + 1, c[k + 1] - 1))
    BY <1>3, <1>7
  <2> QED
    BY <2>1, <2>2 DEF r
<1>12. /\ r \in Seq(S) /\ o = p - a + 1
       /\ \A i \in 1..(p - a + 1) : r[i] = s[a + i - 1]
  BY <1>1, <1>4, <1>10, SubSeqFacts
<1> HIDE DEF r
<1>13. o \in 1..o /\ a + o - 1 = p /\ o >= 1 /\ o = Len(r) /\ o \in Nat
  BY <1>4, <1>10, <1>12
<1>14. r # <<>> /\ r[o] = s[p]
  <2>1. o \in 1..(p - a + 1)
    BY <1>12, <1>13
  <2>2. r[o] = s[a + o - 1]
    BY <1>12, <2>1
  <2> QED
    BY <1>13, <2>2
<1>15. PICK d \in 1..o : Trimmed(r) = SubSeq(r, d, o)
  <2>1. r \in Seq(S) /\ r # <<>> /\ r[Len(r)] # Space
    BY <1>12, <1>13, <1>14
  <2>2. /\ \E q \in 1..Len(r) : Trimmed(r) = SubSeq(r, q, Len(r))
        /\ r[1] # Space => Trimmed(r) = r
    BY ONLY <2>1, TrimmedFacts
  <2> QED
    BY <1>13, <2>2
<1> HIDE DEF o
<1> DEFINE q == a + d - 1
<1>16. q \in Nat /\ a <= q /\ q <= p /\ q \in 1..p
  BY <1>4, <1>10, <1>13, <1>15
<1>17. SubSeq(r, d, o) = SubSeq(s, q, p) /\ SubSeq(s, q, p) # <<>>
  <2> DEFINE u == SubSeq(r, d, o)
             v == SubSeq(s, q, p)
  <2>1. /\ u \in Seq(S) /\ Len(u) = o - d + 1
        /\ \A i \in 1..(o - d + 1) : u[i] = r[d + i - 1] /\ d + i - 1 \in 1..Len(r)
    <3>1. d \in Nat /\ o \in Nat /\ 1 <= d /\ d <= o + 1 /\ o <= Len(r) /\ r \in Seq(S)
      BY <1>12, <1>13, <1>15
    <3> QED
      BY ONLY <3>1, SubSeqFacts
  <2> HIDE DEF u, q
  <2>2. /\ v \in Seq(S) /\ Len(v) = p - q + 1
        /\ \A i \in 1..(p - q + 1) : v[i] = s[q + i - 1]
    <3>1. q \in Nat /\ p \in Nat /\ 1 <= q /\ q <= p + 1 /\ p <= Len(s) /\ s \in Seq(S)
      BY <1>1, <1>4, <1>10, <1>16
    <3> QED
      BY ONLY <3>1, SubSeqFacts
  <2> HIDE DEF v
  <2>3. o - d + 1 = p - q + 1 /\ Len(v) >= 1
    <3>1. q = a + d - 1
      BY DEF q
    <3>2. a \in Nat /\ d \in Nat /\ o \in Nat /\ p \in Nat /\ q \in Nat /\ q <= p
      BY <1>4, <1>10, <1>13, <1>15, <1>16
    <3>3. o - d + 1 = p - q + 1 /\ p - q + 1 >= 1
      BY <1>13, <3>1, <3>2
    <3> QED
      BY <2>2, <3>3
  <2>4. ASSUME NEW i \in 1..(p - q + 1) PROVE u[i] = v[i]
    <3>1. u[i] = r[d + i - 1] /\ d + i - 1 \in 1..o
      BY <1>13, <2>1, <2>3
    <3>2. r[d + i - 1] = s[a + (d + i - 1) - 1]
      BY <1>10, <1>12, <1>13, <1>15, <3>1 
    <3>3. a + (d + i - 1) - 1 = q + i - 1
      BY <1>10, <1>15 DEF q
    <3> QED
      BY <2>2, <3>1, <3>2, <3>3
  <2>5. u = v
    <3>1. u \in Seq(S) /\ v \in Seq(S) /\ Len(u) = Len(v) /\ \A i \in 1..Len(u) : u[i] = v[i]
      BY <2>1, <2>2, <2>3, <2>4
    <3> QED
      BY <3>1, SeqEqual
  <2>6. v # <<>>
    <3>1. Len(v) # Len(<<>>)
      BY <2>2, <2>3
    <3> QED
      BY ONLY <3>1
  <2> QED
    BY ONLY <2>5, <2>6 DEF u, v
<1> HIDE DEF q
<1>18. EndsAt(parts[k], s, p)
  <2>1. parts[k] = SubSeq(s, q, p)
    BY <1>11, <1>15, <1>17
  <2>2. \A j \in 1..Len(s) : s[j] = Comma /\ j < p => j < q
    <3> SUFFICES ASSUME NEW j \in 1..n, s[j] = Comma, j < p PROVE j < q
      OBVIOUS
    <3>1. j \in T /\ j \in Nat
      BY <1>4
    <3>2. j < a
      BY <1>9, <3>1
    <3> QED
      BY <1>10, <1>16, <3>1, <3>2
  <2> QED
    BY <1>16, <2>1, <2>2 DEF EndsAt
<1>19. \E i \in 1..Len(Pieces(s)) : Pieces(s)[i] = parts[k]
  <2> DEFINE U == Seq(S)
             keep == {i \in DOMAIN parts : parts[i] # <<>>}
             kept == Kept(parts, keep)
  <2>1. parts \in Seq(U) /\ k \in keep \cap (1..Len(parts))
    <3>1. DOMAIN parts = 1..(m - 1)
      BY <1>3
    <3> QED
      BY <1>2, <1>7, <1>11, <1>15, <1>17, <3>1
  <2> HIDE DEF U, keep
  <2>2. PICK at : Picks(at, kept, parts, keep \cap (1..Len(parts)))
    BY <2>1, KeptPicks
  <2>3. PICK i \in 1..Len(kept) : at[i] = k
    BY <2>1, <2>2 DEF Picks
  <2>4. kept[i] = parts[k]
    BY <2>2, <2>3 DEF Picks
  <2>5. Pieces(s) = kept
    BY <1>2 DEF keep
  <2> HIDE DEF kept
  <2> QED
    BY <2>3, <2>4, <2>5
<1> QED
  BY <1>18, <1>19

-----------------------------------------------------------------------------

LEMMA Verdicts ==
  /\ \A v : Ok(v).is = "ok" /\ Ok(v).value = v
  /\ Err.is # "ok" /\ Panic.is # "ok"
BY DEF Ok, Err, Panic

\* What is not parsed is an error or a panic.
LEMMA ValueResult ==
  ASSUME NEW s
  PROVE  ParseFieldValue(s).is # "ok" => ParseFieldValue(s) \in {Err, Panic}
BY Verdicts DEF ParseFieldValue

LEMMA PairResult ==
  ASSUME NEW piece, NEW typed
  PROVE  ParsePair(piece, typed).is # "ok" => ParsePair(piece, typed) \in {Err, Panic}
<1> DEFINE at == FirstAt(piece, Equals)
           given == IF typed THEN ParseFieldValue(Behind(piece, at)) ELSE Ok(Behind(piece, at))
<1>1. ParsePair(piece, typed) =
        IF at \in {0, 1, Len(piece)} THEN Err
        ELSE IF given.is = "ok" THEN Ok([key |-> Until(piece, at), value |-> given.value]) ELSE given
  BY DEF ParsePair
<1>2. given.is # "ok" => given \in {Err, Panic}
  <2>1. Ok(Behind(piece, at)).is = "ok"
    BY Verdicts
  <2>2. CASE typed
    BY <2>2, ValueResult
  <2>3. CASE ~typed
    BY <2>1, <2>3
  <2> QED
    BY <2>2, <2>3
<1> HIDE DEF given, at
<1>3. CASE at \in {0, 1, Len(piece)}
  BY <1>1, <1>3
<1>4. CASE at \notin {0, 1, Len(piece)}
  <2> DEFINE pair == [key |-> Until(piece, at), value |-> given.value]
  <2>1. Ok(pair).is = "ok"
    BY Verdicts
  <2> HIDE DEF pair
  <2>2. ParsePair(piece, typed) = IF given.is = "ok" THEN Ok(pair) ELSE given
    BY <1>1, <1>4 DEF pair
  <2> QED
    BY <1>2, <2>1, <2>2
<1> QED
  BY <1>3, <1>4

\* The pairs of a list of pieces, round by round.
IsParsed(g, s, typed) ==
  /\ g[0] = Ok({})
  /\ \A i \in 1..Len(Pieces(s)) : g[i] = WithPair(g[i - 1], ParsePair(Pieces(s)[i], typed))
  /\ \A i \in 0..Len(Pieces(s)) : g[i].is = "ok" \/ g[i] \in {Err, Panic}
  /\ ParsePairs(s, typed) = g[Len(Pieces(s))]

LEMMA PairRounds ==
  ASSUME NEW s, NEW typed, Len(Pieces(s)) \in Nat
  PROVE  \E g : IsParsed(g, s, typed)
<1> DEFINE pieces == Pieces(s)
           n == Len(pieces)
           pair(i) == ParsePair(pieces[i], typed)
           V == {pair(i).value : i \in 1..n}
           Bad == {pair(i) : i \in {j \in 1..n : pair(j).is # "ok"}}
           Good == {Ok(A) : A \in SUBSET V}
           S == Good \cup Bad
           step == [i \in 1..n |-> [r \in S |-> WithPair(r, pair(i))]]
           Rounds(p) == [k \in 0..n |-> IF k = 0 THEN Ok({}) ELSE WithPair(p[k - 1], ParsePair(pieces[k], typed))]
           f == CHOOSE p : p = Rounds(p)
<1>1. ParsePairs(s, typed) = f[n]
  BY DEF ParsePairs
<1>2. n \in Nat
  OBVIOUS
<1>3. Ok({}) \in S
  OBVIOUS
<1>4. \A r \in S : r.is = "ok" \/ r \in {Err, Panic}
  <2>1. \A r \in Good : r.is = "ok"
    BY Verdicts
  <2>2. \A r \in Bad : r \in {Err, Panic}
    <3> SUFFICES ASSUME NEW i \in 1..n, pair(i).is # "ok" PROVE pair(i) \in {Err, Panic}
      OBVIOUS
    <3> QED
      BY PairResult
  <2> QED
    BY <2>1, <2>2
<1> HIDE DEF pieces, n, f
<1>5. ASSUME NEW i \in 1..n, NEW r \in S PROVE WithPair(r, pair(i)) \in S
  <2>1. \A q \in Good : q.is = "ok" /\ q.value \subseteq V
    <3> SUFFICES ASSUME NEW A \in SUBSET V PROVE Ok(A).is = "ok" /\ Ok(A).value \subseteq V
      OBVIOUS
    <3> QED
      BY Verdicts
  <2>2. \A q \in Bad : q.is # "ok"
    OBVIOUS
  <2> DEFINE p == pair(i)
  <2>3. p.value \in V /\ (p.is # "ok" => p \in Bad)
    OBVIOUS
  <2> HIDE DEF pair, V, Bad, p
  <2>4. WithPair(r, p) = IF r.is # "ok" THEN r ELSE IF p.is # "ok" THEN p
                         ELSE Ok({x \in r.value : x.key # p.value.key} \cup {p.value})
    BY DEF WithPair
  <2>5. CASE r.is # "ok"
    BY <2>4, <2>5 DEF p
  <2>6. CASE r.is = "ok" /\ p.is # "ok"
    BY <2>3, <2>4, <2>6 DEF p
  <2>7. CASE r.is = "ok" /\ p.is = "ok"
    <3> DEFINE A == {x \in r.value : x.key # p.value.key} \cup {p.value}
    <3>1. r \in Good
      BY <2>2, <2>7
    <3>2. r.value \subseteq V
      BY ONLY <2>1, <3>1
    <3>3. A \in SUBSET V
      BY <2>3, <3>2
    <3>4. WithPair(r, p) = Ok(A)
      BY <2>4, <2>7
    <3> HIDE DEF A
    <3> QED
      BY <3>3, <3>4 DEF p
  <2> QED
    BY <2>5, <2>6, <2>7
<1> HIDE DEF S, pair
<1>6. step \in [1..n -> [S -> S]]
  BY <1>5
<1>7. \A i \in 1..n, r \in S : step[i][r] = WithPair(r, pair(i))
  OBVIOUS
<1> HIDE DEF step
<1>8. PICK g : IsLoop(g, n, S, Ok({}), step)
  <2> DEFINE start == Ok({})
  <2>1. start \in S
    BY <1>3
  <2> HIDE DEF start
  <2>2. \E g : IsLoop(g, n, S, start, step)
    BY <1>2, <1>6, <2>1, LoopExists
  <2> QED
    BY <2>2 DEF start
<1>9. g \in [0..n -> S] /\ g[0] = Ok({}) /\ \A i \in 1..n : g[i] = WithPair(g[i - 1], pair(i))
  <2>1. \A i \in 1..n : i - 1 \in 0..n
    BY <1>2
  <2> QED
    BY <1>7, <1>8, <2>1 DEF IsLoop
<1>10. g = Rounds(g)
  <2>1. \A i \in 0..n : g[i] = Rounds(g)[i]
    BY <1>2, <1>9 DEF pair
  <2> QED
    BY <1>9, <2>1
<1>11. f = Rounds(f)
  <2> HIDE DEF Rounds
  <2> QED
    BY <1>10 DEF f
<1>12. f[0] = Ok({}) /\ \A i \in 1..n : f[i - 1] \in S => f[i] = step[i][f[i - 1]]
  <2>1. \A i \in 0..n : f[i] = IF i = 0 THEN Ok({}) ELSE WithPair(f[i - 1], pair(i))
    BY <1>11 DEF pair
  <2>2. 0 \in 0..n /\ \A i \in 1..n : i \in 0..n /\ i # 0
    BY <1>2
  <2> HIDE DEF Rounds
  <2> QED
    BY <1>7, <2>1, <2>2
<1>13. f[n] = g[n]
  <2>1. n \in 0..n
    BY <1>2
  <2> DEFINE start == Ok({})
  <2>2. start \in S /\ IsLoop(g, n, S, start, step) /\ f[0] = start
    BY <1>3, <1>8, <1>12
  <2> HIDE DEF Rounds, start
  <2>3. \A i \in 0..n : f[i] = g[i]
    BY <1>2, <1>12, <2>2, LoopUnique
  <2> QED
    BY <2>1, <2>3
<1>14. \A i \in 0..n : g[i].is = "ok" \/ g[i] \in {Err, Panic}
  BY <1>4, <1>9
<1> QED
  BY <1>1, <1>9, <1>13, <1>14 DEF IsParsed, n, pieces, pair

LEMMA WithGood ==
  ASSUME NEW A, NEW p
  PROVE  WithPair(Ok(A), Ok(p)) = Ok({x \in A : x.key # p.key} \cup {p})
<1>1. /\ Ok(A).is = "ok" /\ Ok(A).value = A
      /\ Ok(p).is = "ok" /\ Ok(p).value = p
  BY Verdicts
<1> DEFINE r == Ok(A)
           q == Ok(p)
<1> HIDE DEF r, q
<1>2. WithPair(r, q) = IF r.is # "ok" THEN r ELSE IF q.is # "ok" THEN q
                       ELSE Ok({x \in r.value : x.key # q.value.key} \cup {q.value})
  BY DEF WithPair
<1>3. r.is = "ok" /\ r.value = A /\ q.is = "ok" /\ q.value = p
  BY <1>1 DEF r, q
<1>4. WithPair(r, q) = Ok({x \in A : x.key # p.key} \cup {p})
  BY <1>2, <1>3
<1> QED
  BY <1>4 DEF r, q

LEMMA ParsedNone ==
  ASSUME NEW s, NEW typed, Pieces(s) = <<>>
  PROVE  ParsePairs(s, typed) = Ok({})
<1>1. Len(Pieces(s)) = 0
  OBVIOUS
<1>2. PICK g : IsParsed(g, s, typed)
  BY <1>1, PairRounds
<1> QED
  BY <1>1, <1>2 DEF IsParsed

LEMMA ParsedOne ==
  ASSUME NEW s, NEW typed, NEW a, Pieces(s) = <<a>>, NEW p, ParsePair(a, typed) = Ok(p)
  PROVE  ParsePairs(s, typed) = Ok({p})
<1> DEFINE pieces == Pieces(s)
<1>1. Len(pieces) = 1 /\ pieces[1] = a
  OBVIOUS
<1>2. PICK g : IsParsed(g, s, typed)
  BY <1>1, PairRounds
<1> HIDE DEF pieces
<1>3. g[1] = WithPair(g[0], ParsePair(pieces[1], typed)) /\ g[0] = Ok({}) /\ ParsePairs(s, typed) = g[1]
  <2>1. 1 \in 1..Len(pieces) /\ 1 - 1 = 0
    BY <1>1
  <2> QED
    BY <1>1, <1>2, <2>1 DEF IsParsed, pieces
<1>4. {x \in {} : x.key # p.key} \cup {p} = {p}
  OBVIOUS
<1> QED
  BY <1>1, <1>3, <1>4, WithGood

LEMMA ParsedTwo ==
  ASSUME NEW s, NEW typed, NEW a, NEW b, Pieces(s) = <<a, b>>,
         NEW p, ParsePair(a, typed) = Ok(p), NEW q, ParsePair(b, typed) = Ok(q), p.key # q.key
  PROVE  ParsePairs(s, typed) = Ok({p, q})
<1> DEFINE pieces == Pieces(s)
<1>1. Len(pieces) = 2 /\ pieces[1] = a /\ pieces[2] = b
  OBVIOUS
<1>2. PICK g : IsParsed(g, s, typed)
  BY <1>1, PairRounds
<1> HIDE DEF pieces
<1>3. /\ g[1] = WithPair(g[0], ParsePair(pieces[1], typed)) /\ g[0] = Ok({})
      /\ g[2] = WithPair(g[1], ParsePair(pieces[2], typed)) /\ ParsePairs(s, typed) = g[2]
  <2>1. 1 \in 1..Len(pieces) /\ 2 \in 1..Len(pieces) /\ 1 - 1 = 0 /\ 2 - 1 = 1
    BY <1>1
  <2> QED
    BY <1>1, <1>2, <2>1 DEF IsParsed, pieces
<1>4. g[1] = Ok({p})
  <2>1. {x \in {} : x.key # p.key} \cup {p} = {p}
    OBVIOUS
  <2> QED
    BY <1>1, <1>3, <2>1, WithGood
<1>5. g[2] = Ok({x \in {p} : x.key # q.key} \cup {q})
  BY <1>1, <1>3, <1>4, WithGood
<1>6. {x \in {p} : x.key # q.key} \cup {q} = {p, q}
  OBVIOUS
<1> QED
  BY <1>3, <1>5, <1>6

\* One bad piece spoils the list.
LEMMA ParsedBad ==
  ASSUME NEW s, NEW typed, Len(Pieces(s)) \in Nat
  PROVE  /\ ParsePairs(s, typed).is = "ok" \/ ParsePairs(s, typed) \in {Err, Panic}
         /\ \A k \in 1..Len(Pieces(s)) :
              ParsePair(Pieces(s)[k], typed).is # "ok" => ParsePairs(s, typed).is # "ok"
<1> DEFINE n == Len(Pieces(s))
<1>1. PICK g : IsParsed(g, s, typed)
  BY PairRounds
<1>2. /\ \A i \in 1..n : g[i] = WithPair(g[i - 1], ParsePair(Pieces(s)[i], typed))
      /\ \A i \in 0..n : g[i].is = "ok" \/ g[i] \in {Err, Panic}
      /\ ParsePairs(s, typed) = g[n]
  BY <1>1 DEF IsParsed
<1>3. n \in Nat /\ n \in 0..n
  OBVIOUS
<1> HIDE DEF n
<1>4. ASSUME NEW k \in 1..n, ParsePair(Pieces(s)[k], typed).is # "ok" PROVE g[n].is # "ok"
  <2> DEFINE Good == {i \in k..n : g[i].is # "ok"}
  <2>1. k \in Nat /\ k \in k..n
    BY <1>3
  <2>2. k \in Good
    <3>1. g[k].is # "ok"
      BY <1>2, <1>4 DEF WithPair
    <3> QED
      BY <2>1, <3>1
  <2>3. ASSUME NEW i \in (k + 1)..n, i - 1 \in Good PROVE i \in Good
    <3>1. i \in 1..n /\ i \in k..n /\ g[i - 1].is # "ok"
      BY <1>3, <2>1, <2>3
    <3>2. g[i] = WithPair(g[i - 1], ParsePair(Pieces(s)[i], typed))
      BY <1>2, <3>1
    <3>3. g[i] = g[i - 1]
      BY <3>1, <3>2 DEF WithPair
    <3> QED
      BY <3>1, <3>3
  <2> HIDE DEF Good
  <2>4. k..n \subseteq Good
    BY <1>3, <2>1, <2>2, <2>3, RoundInduction
  <2>5. n \in k..n
    BY <1>3
  <2> QED
    BY <2>4, <2>5 DEF Good
<1> QED
  BY <1>2, <1>3, <1>4 DEF n

-----------------------------------------------------------------------------

States == [escape : BOOLEAN, text : Seq(TextTokens)]
StartState == [escape |-> FALSE, text |-> <<>>]

LEMMA UnescapedFacts ==
  ASSUME NEW state \in States, NEW char \in TextTokens
  PROVE  /\ Unescaped(state, char) \in States
         /\ state.escape /\ char \in {Backslash, Quote} =>
              Unescaped(state, char) = [escape |-> FALSE, text |-> Append(state.text, char)]
         /\ ~state.escape /\ char = Backslash =>
              Unescaped(state, char) = [escape |-> TRUE, text |-> state.text]
         /\ ~state.escape /\ char # Backslash =>
              Unescaped(state, char) = [escape |-> FALSE, text |-> Append(state.text, char)]
<1>1. state.escape \in BOOLEAN /\ state.text \in Seq(TextTokens) /\ Backslash \in TextTokens
  BY DEF States, TextTokens
<1> DEFINE t == state.text
<1>2. /\ t \o <<char>> \in Seq(TextTokens) /\ t \o <<Backslash, char>> \in Seq(TextTokens)
      /\ Append(t, char) \in Seq(TextTokens) /\ t \o <<char>> = Append(t, char)
  <2>1. t \in Seq(TextTokens) /\ <<char>> \in Seq(TextTokens) /\ <<Backslash, char>> \in Seq(TextTokens)
    BY <1>1
  <2> HIDE DEF t
  <2>2. t \o <<char>> \in Seq(TextTokens) /\ t \o <<Backslash, char>> \in Seq(TextTokens)
    BY <2>1
  <2>3. Append(t, char) \in Seq(TextTokens) /\ t \o <<char>> = Append(t, char)
    BY <2>1
  <2> QED
    BY <2>2, <2>3
<1>3. Unescaped(state, char) =
        IF state.escape
        THEN [escape |-> FALSE,
              text |-> t \o (IF char \in {Backslash, Quote, Space} THEN <<char>> ELSE <<Backslash, char>>)]
        ELSE IF char = Backslash THEN [escape |-> TRUE, text |-> t]
        ELSE [escape |-> FALSE, text |-> Append(t, char)]
  BY DEF Unescaped
<1> DEFINE after == t \o (IF char \in {Backslash, Quote, Space} THEN <<char>> ELSE <<Backslash, char>>)
<1>4. after \in Seq(TextTokens) /\ (char \in {Backslash, Quote} => after = Append(t, char))
  BY <1>2
<1>5. Unescaped(state, char) =
        IF state.escape THEN [escape |-> FALSE, text |-> after]
        ELSE IF char = Backslash THEN [escape |-> TRUE, text |-> t]
        ELSE [escape |-> FALSE, text |-> Append(t, char)]
  BY <1>3
<1> HIDE DEF after
<1>6. Unescaped(state, char) \in States
  BY <1>1, <1>2, <1>4, <1>5 DEF States
<1> QED
  BY <1>4, <1>5, <1>6

\* What unescape_string has after a list of characters.
IsRun(u, s) ==
  /\ u \in [0..Len(s) -> States]
  /\ u[0] = StartState
  /\ \A i \in 1..Len(s) : u[i] = Unescaped(u[i - 1], s[i])

Ends(s, state) == \E u : IsRun(u, s) /\ u[Len(s)] = state

LEMMA EndsEmpty == Ends(<<>>, StartState)
<1>1. StartState \in States
  BY DEF StartState, States
<1> DEFINE u == [i \in 0..0 |-> StartState]
           s == <<>>
<1>2. Len(s) = 0
  OBVIOUS
<1>3. u \in [0..0 -> States] /\ u[0] = StartState
  BY <1>1
<1> HIDE DEF u, s
<1>4. IsRun(u, s) /\ u[Len(s)] = StartState
  BY <1>2, <1>3 DEF IsRun
<1>5. Ends(s, StartState)
  BY <1>4 DEF Ends
<1> QED
  BY <1>5 DEF s

LEMMA EndsAppend ==
  ASSUME NEW s \in Seq(TextTokens), NEW state, Ends(s, state), NEW c \in TextTokens
  PROVE  state \in States /\ Ends(Append(s, c), Unescaped(state, c))
<1> DEFINE n == Len(s)
           t == Append(s, c)
           next == Unescaped(state, c)
<1>1. PICK u : IsRun(u, s) /\ u[n] = state
  BY DEF Ends
<1>2. n \in Nat /\ Len(t) = n + 1 /\ t[n + 1] = c /\ \A i \in 1..n : t[i] = s[i]
  OBVIOUS
<1>3. u \in [0..n -> States] /\ u[0] = StartState /\ \A i \in 1..n : u[i] = Unescaped(u[i - 1], s[i])
  BY <1>1 DEF IsRun
<1> HIDE DEF n, t
<1>4. state \in States
  <2>1. n \in 0..n
    BY <1>2
  <2> QED
    BY <1>1, <1>3, <2>1
<1>5. next \in States
  BY <1>4, UnescapedFacts
<1> HIDE DEF next
<1> DEFINE v == [i \in 0..(n + 1) |-> IF i = n + 1 THEN next ELSE u[i]]
<1>6. v \in [0..(n + 1) -> States]
  <2>1. \A i \in 0..(n + 1) : i # n + 1 => i \in 0..n
    BY <1>2
  <2> QED
    BY <1>3, <1>5, <2>1
<1>7. v[0] = StartState /\ v[n + 1] = next /\ \A i \in 0..n : v[i] = u[i]
  <2>1. 0 \in 0..(n + 1) /\ 0 # n + 1 /\ n + 1 \in 0..(n + 1) /\ \A i \in 0..n : i \in 0..(n + 1) /\ i # n + 1
    BY <1>2
  <2> QED
    BY <1>3, <2>1
<1> HIDE DEF v
<1>8. ASSUME NEW i \in 1..(n + 1) PROVE v[i] = Unescaped(v[i - 1], t[i])
  <2>1. CASE i = n + 1
    <3>1. i - 1 = n /\ n \in 0..n
      BY <1>2, <2>1
    <3> QED
      BY <1>1, <1>2, <1>7, <2>1, <3>1 DEF next
  <2>2. CASE i # n + 1
    <3>1. i \in 1..n /\ i \in 0..n /\ i - 1 \in 0..n
      BY <1>2, <2>2
    <3> QED
      BY <1>2, <1>3, <1>7, <3>1
  <2> QED
    BY <2>1, <2>2
<1>9. IsRun(v, t) /\ v[Len(t)] = next
  BY <1>2, <1>6, <1>7, <1>8 DEF IsRun
<1>10. Ends(t, next)
  BY <1>9 DEF Ends
<1> QED
  BY <1>4, <1>10 DEF t, next

LEMMA EndsUnescape ==
  ASSUME NEW s \in Seq(TextTokens), NEW state, Ends(s, state), state.escape = FALSE
  PROVE  Unescape(s) = state.text
<1> DEFINE n == Len(s)
           Rounds(p) == [i \in 0..n |-> IF i = 0 THEN [escape |-> FALSE, text |-> <<>>] ELSE Unescaped(p[i - 1], s[i])]
           f == CHOOSE p : p = Rounds(p)
           step == [i \in 1..n |-> [x \in States |-> Unescaped(x, s[i])]]
<1>1. Unescape(s) = IF f[n].escape THEN Append(f[n].text, Backslash) ELSE f[n].text
  BY DEF Unescape
<1>2. PICK u : IsRun(u, s) /\ u[n] = state
  BY DEF Ends
<1>3. n \in Nat /\ \A i \in 1..n : s[i] \in TextTokens
  OBVIOUS
<1>4. u \in [0..n -> States] /\ u[0] = StartState /\ \A i \in 1..n : u[i] = Unescaped(u[i - 1], s[i])
  BY <1>2 DEF IsRun
<1>5. StartState \in States
  BY DEF StartState, States
<1>6. \A i \in 1..n, x \in States : step[i][x] = Unescaped(x, s[i])
  OBVIOUS
<1> HIDE DEF n, step, f
<1>7. IsLoop(u, n, States, StartState, step)
  <2>1. ASSUME NEW i \in 1..n PROVE u[i] = step[i][u[i - 1]]
    <3>1. i - 1 \in 0..n
      BY <1>3
    <3> QED
      BY <1>4, <1>6, <3>1
  <2> QED
    BY <1>4, <2>1 DEF IsLoop
<1>8. u = Rounds(u)
  <2>1. \A i \in 0..n : u[i] = Rounds(u)[i]
    BY <1>3, <1>4 DEF StartState
  <2> QED
    BY <1>4, <2>1
<1>9. f = Rounds(f)
  <2> HIDE DEF Rounds
  <2> QED
    BY <1>8 DEF f
<1>10. f[0] = StartState /\ \A i \in 1..n : f[i - 1] \in States => f[i] = step[i][f[i - 1]]
  <2>1. \A i \in 0..n : f[i] = IF i = 0 THEN StartState ELSE Unescaped(f[i - 1], s[i])
    BY <1>9 DEF StartState
  <2>2. 0 \in 0..n /\ \A i \in 1..n : i \in 0..n /\ i # 0
    BY <1>3
  <2> HIDE DEF Rounds
  <2> QED
    BY <1>6, <2>1, <2>2
<1>11. f[n] = u[n]
  <2>1. n \in 0..n
    BY <1>3
  <2> HIDE DEF Rounds
  <2>2. \A i \in 0..n : f[i] = u[i]
    BY ONLY <1>3, <1>5, <1>7, <1>10, LoopUnique
  <2> QED
    BY <2>1, <2>2
<1> QED
  BY <1>1, <1>2, <1>11

\* What a client writes for a text.
IsClean(e, done) ==
  /\ e \in Seq(TextTokens)
  /\ \A j \in 1..Len(e) : e[j] = Quote => j > 1 /\ e[j - 1] = Backslash
  /\ \A j \in 1..Len(e) : e[j] = Backslash \/ \E i \in 1..Len(done) : done[i] = e[j]
  /\ Ends(e, [escape |-> FALSE, text |-> done])

LEMMA CleanStep ==
  ASSUME NEW e, NEW done \in Seq(TextTokens), IsClean(e, done), NEW c \in TextTokens
  PROVE  IsClean(e \o (IF c \in {Quote, Backslash} THEN <<Backslash, c>> ELSE <<c>>), Append(done, c))
<1> DEFINE n == Len(e)
           all == Append(done, c)
           start == [escape |-> FALSE, text |-> done]
           end == [escape |-> FALSE, text |-> all]
<1>1. /\ e \in Seq(TextTokens) /\ n \in Nat
      /\ \A j \in 1..n : e[j] = Quote => j > 1 /\ e[j - 1] = Backslash
      /\ \A j \in 1..n : e[j] = Backslash \/ \E i \in 1..Len(done) : done[i] = e[j]
      /\ Ends(e, start)
  BY DEF IsClean
<1>2. Backslash \in TextTokens /\ Backslash # Quote
  BY DEF TextTokens, Backslash, Quote
<1>3. start \in States /\ start.escape = FALSE /\ start.text = done
  BY DEF States
<1>4. /\ \A i \in 1..Len(done) : i \in 1..Len(all) /\ all[i] = done[i]
      /\ Len(all) \in 1..Len(all) /\ all[Len(all)] = c
  OBVIOUS
<1> HIDE DEF all, start, n
<1>5. \A j \in 1..n : e[j] = Backslash \/ \E i \in 1..Len(all) : all[i] = e[j]
  BY <1>1, <1>4
<1>6. CASE c \notin {Quote, Backslash}
  <2> DEFINE t == Append(e, c)
  <2>1. t = e \o <<c>> /\ t \in Seq(TextTokens) /\ Len(t) = n + 1 /\ t[n + 1] = c
        /\ \A i \in 1..n : t[i] = e[i]
    BY <1>1 DEF n
  <2>2. Ends(t, Unescaped(start, c))
    BY <1>1, EndsAppend
  <2>3. Unescaped(start, c) = end
    BY <1>3, <1>6, UnescapedFacts DEF all
  <2> HIDE DEF t, end
  <2>4. ASSUME NEW j \in 1..(n + 1)
        PROVE  /\ t[j] = Quote => j > 1 /\ t[j - 1] = Backslash
               /\ t[j] = Backslash \/ \E i \in 1..Len(all) : all[i] = t[j]
    <3>1. CASE j = n + 1
      BY <1>4, <1>6, <2>1, <3>1
    <3>2. CASE j # n + 1
      <4>1. j \in 1..n /\ (j > 1 => j - 1 \in 1..n)
        BY <1>1, <3>2
      <4> QED
        BY <1>1, <1>5, <2>1, <4>1
    <3> QED
      BY <3>1, <3>2
  <2>5. IsClean(t, all)
    BY <2>1, <2>2, <2>3, <2>4 DEF IsClean, end
  <2> QED
    BY <1>6, <2>1, <2>5 DEF all
<1>7. CASE c \in {Quote, Backslash}
  <2> DEFINE b == Append(e, Backslash)
             t == Append(b, c)
             mid == [escape |-> TRUE, text |-> done]
  <2>1. b \in Seq(TextTokens) /\ Len(b) = n + 1 /\ b[n + 1] = Backslash /\ b = e \o <<Backslash>>
        /\ \A i \in 1..n : b[i] = e[i]
    BY <1>1, <1>2 DEF n
  <2>2. t = e \o <<Backslash, c>>
    BY <1>1, <1>2
  <2>3. Ends(b, Unescaped(start, Backslash))
    BY <1>1, <1>2, EndsAppend
  <2>4. Unescaped(start, Backslash) = mid
    BY <1>2, <1>3, UnescapedFacts
  <2>5. mid \in States /\ mid.escape = TRUE /\ mid.text = done
    BY DEF States
  <2> HIDE DEF b, mid
  <2>6. t \in Seq(TextTokens) /\ Len(t) = n + 2 /\ t[n + 2] = c /\ t[n + 1] = Backslash
        /\ \A i \in 1..n : t[i] = e[i]
    <3>1. Len(t) = Len(b) + 1 /\ t[Len(b) + 1] = c /\ t \in Seq(TextTokens)
          /\ \A i \in 1..Len(b) : t[i] = b[i]
      BY <2>1
    <3> QED
      BY <1>1, <2>1, <3>1
  <2>7. Ends(t, Unescaped(mid, c))
    BY <2>1, <2>3, <2>4, EndsAppend
  <2>8. Unescaped(mid, c) = end
    BY <1>7, <2>5, UnescapedFacts DEF all
  <2> HIDE DEF t, end
  <2>9. ASSUME NEW j \in 1..(n + 2)
        PROVE  /\ t[j] = Quote => j > 1 /\ t[j - 1] = Backslash
               /\ t[j] = Backslash \/ \E i \in 1..Len(all) : all[i] = t[j]
    <3>1. CASE j = n + 2
      <4>1. j > 1 /\ j - 1 = n + 1
        BY <1>1, <3>1
      <4> QED
        BY <1>4, <2>6, <3>1, <4>1
    <3>2. CASE j = n + 1
      BY <1>2, <2>6, <3>2
    <3>3. CASE j # n + 1 /\ j # n + 2
      <4>1. j \in 1..n /\ (j > 1 => j - 1 \in 1..n)
        BY <1>1, <3>3
      <4> QED
        BY <1>1, <1>5, <2>6, <4>1
    <3> QED
      BY <3>1, <3>2, <3>3
  <2>10. IsClean(t, all)
    BY <2>6, <2>7, <2>8, <2>9 DEF IsClean, end
  <2> QED
    BY <1>7, <2>2, <2>10 DEF all
<1> QED
  BY <1>6, <1>7

LEMMA EscapeClean ==
  ASSUME NEW text \in Seq(TextTokens)
  PROVE  IsClean(Escape(text), text)
<1> DEFINE n == Len(text)
           Piece(i) == IF text[i] \in {Quote, Backslash} THEN <<Backslash, text[i]>> ELSE <<text[i]>>
           lists == [i \in 1..n |-> Piece(i)]
           T == Seq(TextTokens)
<1>1. n \in Nat /\ DOMAIN text = 1..n /\ \A i \in 1..n : text[i] \in TextTokens
  OBVIOUS
<1>2. Escape(text) = Joined(lists)
  BY <1>1 DEF Escape
<1>3. Len(lists) = n /\ \A i \in 1..n : lists[i] = Piece(i)
  BY <1>1
<1>4. lists \in Seq(T)
  <2>1. ASSUME NEW i \in 1..n PROVE Piece(i) \in T
    <3>1. text[i] \in TextTokens /\ Backslash \in TextTokens
      BY <1>1 DEF TextTokens
    <3> QED
      BY <3>1
  <2> HIDE DEF T, n, Piece
  <2>2. lists \in [1..n -> T]
    BY <2>1
  <2> HIDE DEF lists
  <2> QED
    BY <1>1, <2>2
<1> HIDE DEF lists
<1>5. PICK g : IsJoined(g, TextTokens, lists)
  BY <1>4, JoinedRounds
<1>6. g[0] = <<>> /\ (\A i \in 1..n : g[i] = g[i - 1] \o Piece(i)) /\ Joined(lists) = g[n]
  BY <1>3, <1>5 DEF IsJoined
<1> DEFINE Upto(i) == SubSeq(text, 1, i)
           Good == {i \in 0..n : IsClean(g[i], Upto(i))}
<1>7. /\ Upto(0) = <<>> /\ Upto(n) = text
      /\ \A i \in 1..n : Upto(i - 1) \in T /\ Upto(i) = Append(Upto(i - 1), text[i])
  <2>1. ASSUME NEW i \in 0..n
        PROVE  /\ Upto(i) \in T /\ Len(Upto(i)) = i /\ \A k \in 1..i : Upto(i)[k] = text[k]
    <3>1. /\ Upto(i) \in Seq(TextTokens) /\ Len(Upto(i)) = i - 1 + 1
          /\ \A k \in 1..(i - 1 + 1) : Upto(i)[k] = text[1 + k - 1]
      BY <1>1, SubSeqFacts
    <3>2. i - 1 + 1 = i /\ \A k \in 1..i : 1 + k - 1 = k
      BY <1>1
    <3> QED
      BY <3>1, <3>2
  <2> HIDE DEF Upto
  <2>2. Upto(0) = <<>>
    <3>1. Len(Upto(0)) = 0 /\ Upto(0) \in T
      BY <1>1, <2>1
    <3> QED
      BY <3>1
  <2>3. Upto(n) = text
    <3>1. n \in 0..n /\ Len(text) = n
      BY <1>1
    <3>2. Upto(n) \in Seq(TextTokens) /\ Len(Upto(n)) = Len(text) /\ \A k \in 1..Len(Upto(n)) : Upto(n)[k] = text[k]
      BY <2>1, <3>1
    <3> QED
      BY <3>2, SeqEqual
  <2>4. ASSUME NEW i \in 1..n PROVE Upto(i - 1) \in T /\ Upto(i) = Append(Upto(i - 1), text[i])
    <3> DEFINE u == Upto(i - 1)
               v == Upto(i)
               w == Append(u, text[i])
    <3>1. /\ u \in Seq(TextTokens) /\ Len(u) = i - 1 /\ \A k \in 1..(i - 1) : u[k] = text[k]
          /\ v \in Seq(TextTokens) /\ Len(v) = i /\ \A k \in 1..i : v[k] = text[k]
      <4>1. i - 1 \in 0..n /\ i \in 0..n
        BY <1>1
      <4> QED
        BY <2>1, <4>1
    <3>2. text[i] \in TextTokens
      BY <1>1
    <3> HIDE DEF u, v
    <3>3. w \in Seq(TextTokens) /\ Len(w) = i /\ w[i] = text[i] /\ \A k \in 1..(i - 1) : w[k] = u[k]
      BY <3>1, <3>2
    <3> HIDE DEF w
    <3>4. \A k \in 1..i : v[k] = w[k]
      <4>1. \A k \in 1..i : k = i \/ k \in 1..(i - 1)
        BY <1>1
      <4> QED
        BY <3>1, <3>3, <4>1
    <3>5. v = w
      BY <3>1, <3>3, <3>4, SeqEqual
    <3> QED
      BY <3>1, <3>5 DEF u, v, w
  <2> QED
    BY <2>2, <2>3, <2>4
<1> HIDE DEF Upto
<1>8. 0 \in Good
  <2>1. IsClean(<<>>, <<>>)
    <3>1. <<>> \in Seq(TextTokens) /\ Len(<<>>) = 0
      OBVIOUS
    <3>2. Ends(<<>>, [escape |-> FALSE, text |-> <<>>])
      BY EndsEmpty DEF StartState
    <3> QED
      BY <3>1, <3>2 DEF IsClean
  <2> QED
    BY <1>1, <1>6, <1>7, <2>1
<1>9. ASSUME NEW i \in (0 + 1)..n, i - 1 \in Good PROVE i \in Good
  <2>1. i \in 1..n /\ i \in 0..n /\ IsClean(g[i - 1], Upto(i - 1)) /\ text[i] \in TextTokens
    BY <1>1, <1>9
  <2>2. Upto(i - 1) \in Seq(TextTokens)
    BY <1>7, <2>1
  <2>3. IsClean(g[i - 1] \o Piece(i), Append(Upto(i - 1), text[i]))
    BY <2>1, <2>2, CleanStep
  <2>4. IsClean(g[i], Upto(i))
    BY <1>6, <1>7, <2>1, <2>3
  <2> QED
    BY <2>1, <2>4
<1> HIDE DEF Good
<1>10. 0..n \subseteq Good
  BY <1>1, <1>8, <1>9, RoundInduction
<1>11. IsClean(g[n], Upto(n))
  BY <1>1, <1>10 DEF Good
<1> QED
  BY <1>2, <1>6, <1>7, <1>11

LEMMA EscapeFacts ==
  ASSUME NEW text \in Seq(TextTokens)
  PROVE  /\ Escape(text) \in Seq(TextTokens) /\ Unescape(Escape(text)) = text
         /\ \A j \in 1..Len(Escape(text)) :
              /\ Escape(text)[j] = Quote => j > 1 /\ Escape(text)[j - 1] = Backslash
              /\ Escape(text)[j] = Backslash \/ \E i \in 1..Len(text) : text[i] = Escape(text)[j]
<1> DEFINE e == Escape(text)
           end == [escape |-> FALSE, text |-> text]
<1>1. IsClean(e, text)
  BY EscapeClean
<1> HIDE DEF e
<1>2. e \in Seq(TextTokens) /\ Ends(e, end)
  BY <1>1 DEF IsClean
<1>3. end.escape = FALSE /\ end.text = text
  OBVIOUS
<1> HIDE DEF end
<1>4. Unescape(e) = text
  BY <1>2, <1>3, EndsUnescape
<1>5. \A j \in 1..Len(e) :
        /\ e[j] = Quote => j > 1 /\ e[j - 1] = Backslash
        /\ e[j] = Backslash \/ \E i \in 1..Len(text) : text[i] = e[j]
  BY <1>1 DEF IsClean
<1> QED
  BY <1>2, <1>4, <1>5 DEF e

-----------------------------------------------------------------------------

LineTokens == TextTokens \cup NumberTokens \cup {"f", "g", "m", "host", "a", Stamp}

LEMMA TokenFacts ==
  /\ Space \in LineTokens /\ Comma \in LineTokens /\ Equals \in LineTokens /\ Quote \in LineTokens
  /\ Stamp \in LineTokens /\ Backslash \in LineTokens
  /\ "f" \in LineTokens /\ "g" \in LineTokens /\ "m" \in LineTokens /\ "host" \in LineTokens /\ "a" \in LineTokens
  /\ TextTokens \subseteq LineTokens /\ NumberTokens \subseteq LineTokens
  /\ \A n \in NumberTokens : n \notin {Space, Comma, Equals, Quote, Backslash, Stamp}
  /\ \A x \in {"f", "g", "m", "host", "a", Stamp} : x \notin {Space, Comma, Equals, Quote, Backslash}
  /\ Space # Comma /\ Space # Equals /\ Space # Quote /\ Comma # Equals /\ Comma # Quote /\ Equals # Quote
  /\ Backslash # Space /\ Backslash # Comma /\ Backslash # Equals /\ Backslash # Quote
  /\ Quote \notin NumberTokens /\ Stamp # Quote
BY DEF LineTokens, TextTokens, NumberTokens, Space, Comma, Equals, Quote, Backslash, Stamp

LEMMA FirstPlace ==
  ASSUME NEW S, NEW s \in Seq(S), NEW token, NEW i \in 1..Len(s), s[i] = token,
         \A j \in 1..(i - 1) : s[j] # token
  PROVE  FirstAt(s, token) = i
<1> DEFINE f == FirstAt(s, token)
           P == PlacesOf(s, token)
<1>1. /\ P = {j \in 1..Len(s) : s[j] = token} /\ P \subseteq Nat
      /\ P # {} => f \in P /\ \A j \in P : f <= j
  BY PlaceFacts
<1> HIDE DEF f, P
<1>2. i \in P
  BY <1>1
<1>3. f \in 1..Len(s) /\ s[f] = token /\ f <= i
  BY <1>1, <1>2
<1>4. f \notin 1..(i - 1)
  BY <1>3
<1>5. f = i
  <2>1. Len(s) \in Nat
    OBVIOUS
  <2> QED
    BY <1>3, <1>4, <2>1
<1> QED
  BY <1>5 DEF f

\* A string in quotes as the value of a field.
Quoted(e) == <<"f", Equals, Quote>> \o e \o <<Quote>>

LEMMA QuotedFacts ==
  ASSUME NEW e \in Seq(LineTokens)
  PROVE  /\ Quoted(e) \in Seq(LineTokens) /\ Len(Quoted(e)) = Len(e) + 4
         /\ Quoted(e)[1] = "f" /\ Quoted(e)[2] = Equals /\ Quoted(e)[3] = Quote
         /\ \A j \in 1..Len(e) : Quoted(e)[j + 3] = e[j]
         /\ Quoted(e)[Len(e) + 4] = Quote
<1> DEFINE a == <<"f", Equals, Quote>>
           b == a \o e
           z == <<Quote>>
           n == Len(e)
<1>1. a \in Seq(LineTokens) /\ z \in Seq(LineTokens) /\ Len(a) = 3 /\ Len(z) = 1 /\ z[1] = Quote
      /\ a[1] = "f" /\ a[2] = Equals /\ a[3] = Quote
  BY TokenFacts
<1> HIDE DEF a, z
<1>2. /\ b \in Seq(LineTokens) /\ Len(b) = 3 + n
      /\ \A i \in 1..(3 + n) : b[i] = IF i <= 3 THEN a[i] ELSE e[i - 3]
  <2>1. /\ b \in Seq(LineTokens) /\ Len(b) = Len(a) + Len(e)
        /\ \A i \in 1..(Len(a) + Len(e)) : b[i] = IF i <= Len(a) THEN a[i] ELSE e[i - Len(a)]
    BY <1>1, ConcatProperties
  <2> QED
    BY <1>1, <2>1
<1> HIDE DEF b
<1> DEFINE q == b \o z
<1>3. /\ q \in Seq(LineTokens) /\ Len(q) = (3 + n) + 1
      /\ \A i \in 1..((3 + n) + 1) : q[i] = IF i <= 3 + n THEN b[i] ELSE z[i - (3 + n)]
  <2>1. /\ q \in Seq(LineTokens) /\ Len(q) = Len(b) + Len(z)
        /\ \A i \in 1..(Len(b) + Len(z)) : q[i] = IF i <= Len(b) THEN b[i] ELSE z[i - Len(b)]
    BY <1>1, <1>2, ConcatProperties
  <2> QED
    BY <1>1, <1>2, <2>1
<1>4. Quoted(e) = q
  BY DEF Quoted, a, b, z
<1> HIDE DEF q
<1>5. n \in Nat
  OBVIOUS
<1> HIDE DEF n
<1>6. q[1] = "f" /\ q[2] = Equals /\ q[3] = Quote
  <2>1. \A i \in {1, 2, 3} : i \in 1..((3 + n) + 1) /\ i <= 3 + n /\ i \in 1..(3 + n) /\ i <= 3
    BY <1>5
  <2> QED
    BY <1>1, <1>2, <1>3, <2>1
<1>7. \A j \in 1..n : q[j + 3] = e[j]
  <2> TAKE j \in 1..n
  <2>1. j + 3 \in 1..((3 + n) + 1) /\ j + 3 <= 3 + n /\ j + 3 \in 1..(3 + n) /\ ~(j + 3 <= 3)
        /\ (j + 3) - 3 = j
    BY <1>5
  <2> QED
    BY <1>2, <1>3, <2>1
<1>8. q[n + 4] = Quote
  <2>1. n + 4 \in 1..((3 + n) + 1) /\ ~(n + 4 <= 3 + n) /\ (n + 4) - (3 + n) = 1
    BY <1>5
  <2> QED
    BY <1>1, <1>3, <2>1
<1>9. Len(q) = n + 4
  BY <1>3, <1>5
<1> QED
  BY <1>3, <1>4, <1>6, <1>7, <1>8, <1>9 DEF n

\* A field with a string is what the client means.
LEMMA QuotedPair ==
  ASSUME NEW text \in Seq(TextTokens)
  PROVE  ParsePair(Quoted(Escape(text)), TRUE) = Ok([key |-> <<"f">>, value |-> [string |-> text]])
<1> DEFINE e == Escape(text)
           n == Len(e)
           q == Quoted(e)
<1>1. e \in Seq(TextTokens) /\ Unescape(e) = text
  BY EscapeFacts
<1>2. e \in Seq(LineTokens) /\ n \in Nat
  <2> HIDE DEF e
  <2> QED
    BY <1>1, TokenFacts
<1> HIDE DEF e
<1>3. /\ q \in Seq(LineTokens) /\ Len(q) = n + 4
      /\ q[1] = "f" /\ q[2] = Equals /\ q[3] = Quote
      /\ \A j \in 1..n : q[j + 3] = e[j]
      /\ q[n + 4] = Quote
  BY <1>2, QuotedFacts
<1> HIDE DEF q, n
<1>4. FirstAt(q, Equals) = 2
  <2> DEFINE i == 2
  <2>1. i \in 1..Len(q) /\ q[i] = Equals /\ \A j \in 1..(i - 1) : j = 1
    BY <1>2, <1>3
  <2>2. "f" # Equals
    BY TokenFacts
  <2>3. \A j \in 1..(i - 1) : q[j] # Equals
    BY <1>3, <2>1, <2>2
  <2> HIDE DEF i
  <2>4. FirstAt(q, Equals) = i
    BY <1>3, <2>1, <2>3, FirstPlace
  <2> QED
    BY <2>4 DEF i
<1> DEFINE v == Behind(q, 2)
           m == n + 2
<1>5. /\ v \in Seq(LineTokens) /\ Len(v) = m /\ \A k \in 1..m : v[k] = q[k + 2]
  <2> DEFINE a == 3
             l == n + 4
             u == SubSeq(q, a, l)
  <2>1. a \in Nat /\ l \in Nat /\ 1 <= a /\ a <= l + 1 /\ l <= Len(q)
    BY <1>2, <1>3
  <2>2. l - a + 1 = m /\ \A k \in 1..m : a + k - 1 = k + 2
    BY <1>2
  <2>3. v = u
    BY <1>3 DEF Behind
  <2> HIDE DEF a, l
  <2>4. u \in Seq(LineTokens) /\ Len(u) = l - a + 1 /\ \A k \in 1..(l - a + 1) : u[k] = q[a + k - 1]
    <3>1. q \in Seq(LineTokens)
      BY <1>3
    <3>2. /\ SubSeq(q, a, l) \in Seq(LineTokens) /\ Len(SubSeq(q, a, l)) = l - a + 1
          /\ \A k \in 1..(l - a + 1) : SubSeq(q, a, l)[k] = q[a + k - 1] /\ a + k - 1 \in 1..Len(q)
      BY ONLY <2>1, <3>1, SubSeqFacts
    <3> QED
      BY <3>2
  <2> QED
    BY <2>2, <2>3, <2>4
<1>6. Until(q, 2) = <<"f">>
  <2> DEFINE u == SubSeq(q, 1, 1)
             t == <<"f">>
  <2>1. u \in Seq(LineTokens) /\ Len(u) = 1 - 1 + 1 /\ \A k \in 1..(1 - 1 + 1) : u[k] = q[1 + k - 1]
    <3> DEFINE one == 1
    <3>1. one \in Nat /\ 1 <= one /\ one <= one + 1 /\ one <= Len(q)
      BY <1>2, <1>3
    <3> HIDE DEF one
    <3>2. /\ SubSeq(q, one, one) \in Seq(LineTokens) /\ Len(SubSeq(q, one, one)) = one - one + 1
          /\ \A k \in 1..(one - one + 1) : SubSeq(q, one, one)[k] = q[one + k - 1]
      BY <1>3, <3>1, SubSeqFacts
    <3> QED
      BY <3>2 DEF one
  <2>2. t \in Seq(LineTokens) /\ Len(t) = 1 /\ t[1] = "f"
    BY TokenFacts
  <2>3. Until(q, 2) = u
    BY DEF Until
  <2> HIDE DEF u, t
  <2>4. Len(u) = Len(t) /\ \A k \in 1..Len(u) : u[k] = t[k]
    <3>1. 1 - 1 + 1 = 1 /\ \A k \in 1..1 : k = 1 /\ 1 + k - 1 = 1
      OBVIOUS
    <3> QED
      BY <1>3, <2>1, <2>2, <3>1
  <2>5. u = t
    BY <2>1, <2>2, <2>4, SeqEqual
  <2> QED
    BY <2>3, <2>5 DEF t
<1> HIDE DEF v
<1>7. SubSeq(v, 2, m - 1) = e
  <2> DEFINE a == 2
             l == m - 1
             u == SubSeq(v, a, l)
  <2>1. a \in Nat /\ l \in Nat /\ 1 <= a /\ a <= l + 1 /\ l <= Len(v)
    BY <1>2, <1>5
  <2>2. l - a + 1 = n /\ \A k \in 1..n : a + k - 1 = k + 1 /\ k + 1 \in 1..m /\ (k + 1) + 2 = k + 3
    BY <1>2
  <2> HIDE DEF a, l
  <2>3. u \in Seq(LineTokens) /\ Len(u) = l - a + 1 /\ \A k \in 1..(l - a + 1) : u[k] = v[a + k - 1]
    <3>1. v \in Seq(LineTokens)
      BY <1>5
    <3>2. /\ SubSeq(v, a, l) \in Seq(LineTokens) /\ Len(SubSeq(v, a, l)) = l - a + 1
          /\ \A k \in 1..(l - a + 1) : SubSeq(v, a, l)[k] = v[a + k - 1] /\ a + k - 1 \in 1..Len(v)
      BY ONLY <2>1, <3>1, SubSeqFacts
    <3> QED
      BY <3>2
  <2> HIDE DEF u, m
  <2>4. \A k \in 1..n : u[k] = e[k]
    BY <1>3, <1>5, <2>2, <2>3
  <2>5. u = e
    BY <1>2, <2>2, <2>3, <2>4, SeqEqual DEF n
  <2> QED
    BY <2>5 DEF u, a, l
<1>8. Len(v) = m /\ m # 1 /\ v[1] = Quote /\ v[m] = Quote /\ m \in Nat
  <2>1. 1 \in 1..m /\ m \in 1..m /\ 1 + 2 = 3 /\ m + 2 = n + 4 /\ m # 1 /\ m \in Nat
    BY <1>2
  <2> HIDE DEF m
  <2> QED
    BY <1>3, <1>5, <2>1
<1> HIDE DEF m
<1>9. ParseFieldValue(v) = Ok([string |-> text])
  <2>1. ParseFieldValue(v) = Ok([string |-> Unescape(SubSeq(v, 2, Len(v) - 1))])
    BY <1>8 DEF ParseFieldValue
  <2> QED
    BY <1>1, <1>7, <1>8, <2>1
<1> DEFINE given == ParseFieldValue(v)
<1>10. given.is = "ok" /\ given.value = [string |-> text]
  BY <1>9, Verdicts
<1>11. FirstAt(q, Equals) \notin {0, 1, Len(q)}
  <2>1. 2 # n + 4
    BY <1>2
  <2> QED
    BY <1>3, <1>4, <2>1
<1> HIDE DEF given
<1>12. ParsePair(q, TRUE) = IF given.is = "ok" THEN Ok([key |-> Until(q, 2), value |-> given.value]) ELSE given
  BY <1>4, <1>11 DEF ParsePair, given, v
<1> QED
  BY <1>6, <1>10, <1>12 DEF q, e

\* Short lists, put together.
LEMMA TripleIs ==
  ASSUME NEW S, NEW x \in S, NEW y \in S, NEW z \in S
  PROVE  IsAround(<<x, y, z>>, <<x>>, y, <<z>>, S)
<1> DEFINE a == <<x>>
           b == <<z>>
           s == (a \o <<y>>) \o b
           t == <<x, y, z>>
<1>1. a \in Seq(S) /\ b \in Seq(S) /\ Len(a) = 1 /\ Len(b) = 1 /\ a[1] = x /\ b[1] = z
  OBVIOUS
<1>2. t \in Seq(S) /\ Len(t) = 3 /\ t[1] = x /\ t[2] = y /\ t[3] = z
  OBVIOUS
<1> HIDE DEF a, b, t
<1>3. IsAround(s, a, y, b, S)
  BY <1>1 DEF IsAround
<1> HIDE DEF s
<1>4. /\ s \in Seq(S) /\ Len(s) = Len(a) + 1 + Len(b) /\ DOMAIN s = 1..Len(s)
      /\ \A i \in 1..Len(a) : s[i] = a[i]
      /\ s[Len(a) + 1] = y
      /\ \A i \in 1..Len(b) : s[Len(a) + 1 + i] = b[i]
  <2>1. Placed(s, a, y, b, S)
    BY ONLY <1>3, AroundFacts
  <2> QED
    BY ONLY <2>1 DEF Placed
<1>5. Len(s) = 3 /\ s[1] = x /\ s[2] = y /\ s[3] = z
  <2>1. 1 \in 1..1 /\ 1 + 1 = 2 /\ 1 + 1 + 1 = 3
    OBVIOUS
  <2>2. s[1] = a[1] /\ s[1 + 1] = y /\ s[1 + 1 + 1] = b[1]
    BY <1>1, <1>4, <2>1
  <2> QED
    BY <1>1, <1>4, <2>1, <2>2
<1>6. \A k \in 1..3 : t[k] = s[k]
  <2>1. \A k \in 1..3 : k = 1 \/ k = 2 \/ k = 3
    OBVIOUS
  <2> QED
    BY <1>2, <1>5, <2>1
<1>7. t = s
  BY <1>2, <1>4, <1>5, <1>6, SeqEqual
<1>8. IsAround(t, a, y, b, S)
  BY <1>1, <1>7 DEF IsAround, s
<1> QED
  BY <1>8 DEF t, a, b

LEMMA FourIs ==
  ASSUME NEW S, NEW u \in S, NEW x \in S, NEW y \in S, NEW z \in S
  PROVE  <<u, x, y, z>> = <<u>> \o <<x, y, z>>
<1> DEFINE a == <<u>>
           b == <<x, y, z>>
           s == a \o b
           t == <<u, x, y, z>>
<1>1. a \in Seq(S) /\ b \in Seq(S) /\ Len(a) = 1 /\ Len(b) = 3 /\ a[1] = u
      /\ b[1] = x /\ b[2] = y /\ b[3] = z
  OBVIOUS
<1>2. t \in Seq(S) /\ Len(t) = 4 /\ t[1] = u /\ t[2] = x /\ t[3] = y /\ t[4] = z
  OBVIOUS
<1> HIDE DEF a, b, t
<1>3. /\ s \in Seq(S) /\ Len(s) = Len(a) + Len(b)
      /\ \A i \in 1..(Len(a) + Len(b)) : s[i] = IF i <= Len(a) THEN a[i] ELSE b[i - Len(a)]
  BY <1>1, ConcatProperties
<1> HIDE DEF s
<1>4. Len(s) = 4 /\ \A i \in 1..4 : s[i] = IF i <= 1 THEN a[i] ELSE b[i - 1]
  BY <1>1, <1>3
<1>5. s[1] = u /\ s[2] = x /\ s[3] = y /\ s[4] = z
  <2>1. 2 - 1 = 1 /\ 3 - 1 = 2 /\ 4 - 1 = 3
    OBVIOUS
  <2>2. s[1] = a[1] /\ s[2] = b[2 - 1] /\ s[3] = b[3 - 1] /\ s[4] = b[4 - 1]
    BY <1>4
  <2> QED
    BY <1>1, <2>1, <2>2
<1>6. \A k \in 1..4 : t[k] = s[k]
  <2>1. \A k \in 1..4 : k = 1 \/ k = 2 \/ k = 3 \/ k = 4
    OBVIOUS
  <2> QED
    BY <1>2, <1>5, <2>1
<1>7. t = s
  BY <1>2, <1>3, <1>4, <1>6, SeqEqual
<1> QED
  BY <1>7 DEF t, s, a, b

\* A key, an equals sign and a value, each of one token.
LEMMA ShortPair ==
  ASSUME NEW k \in LineTokens, NEW x \in LineTokens, k # Equals
  PROVE  LET s == <<k, Equals, x>>
         IN  /\ s \in Seq(LineTokens) /\ Len(s) = 3 /\ FirstAt(s, Equals) = 2
             /\ Until(s, 2) = <<k>> /\ Behind(s, 2) = <<x>>
<1> DEFINE s == <<k, Equals, x>>
           b == <<k>>
           t == <<x>>
<1>1. s \in Seq(LineTokens) /\ Len(s) = 3 /\ s[1] = k /\ s[2] = Equals /\ s[3] = x
  BY TokenFacts
<1>2. b \in Seq(LineTokens) /\ t \in Seq(LineTokens) /\ Len(b) = 1
          /\ IsAround(s, b, Equals, t, LineTokens)
  <2>1. IsAround(s, b, Equals, t, LineTokens)
    <3>1. k \in LineTokens /\ Equals \in LineTokens /\ x \in LineTokens
      BY TokenFacts
    <3>2. IsAround(<<k, Equals, x>>, <<k>>, Equals, <<x>>, LineTokens)
      BY ONLY <3>1, TripleIs
    <3> QED
      BY <3>2
  <2>3. Len(b) = 1
    OBVIOUS
  <2>2. b \in Seq(LineTokens) /\ t \in Seq(LineTokens)
    OBVIOUS
  <2> QED
    BY <2>1, <2>2, <2>3
<1> HIDE DEF b, t, s
<1>3. IsAround(s, b, Equals, t, LineTokens)
  BY <1>2
<1>4. Until(s, Len(b) + 1) = b /\ Behind(s, Len(b) + 1) = t
  BY <1>3, CutAround
<1>5. FirstAt(s, Equals) = 2
  <2> DEFINE i == 2
  <2>1. i \in 1..Len(s) /\ s[i] = Equals /\ \A j \in 1..(i - 1) : j = 1
    BY <1>1
  <2>2. \A j \in 1..(i - 1) : s[j] # Equals
    BY <1>1, <2>1
  <2> HIDE DEF i
  <2>3. FirstAt(s, Equals) = i
    BY <1>1, <2>1, <2>2, FirstPlace
  <2> QED
    BY <2>3 DEF i
<1>6. Until(s, 2) = b /\ Behind(s, 2) = t
  <2>1. Len(b) + 1 = 2
    BY <1>2
  <2> QED
    BY <1>4, <2>1
<1> QED
  BY <1>1, <1>5, <1>6 DEF s, b, t

LEMMA HostPair ==
  ParsePair(<<"host", Equals, "a">>, FALSE) = Ok([key |-> <<"host">>, value |-> <<"a">>])
<1> DEFINE s == <<"host", Equals, "a">>
           given == Ok(Behind(s, 2))
<1>1. /\ Len(s) = 3 /\ FirstAt(s, Equals) = 2
      /\ Until(s, 2) = <<"host">> /\ Behind(s, 2) = <<"a">>
  <2> DEFINE k == "host"
             x == "a"
  <2>1. k \in LineTokens /\ x \in LineTokens /\ k # Equals
    BY TokenFacts
  <2> HIDE DEF k, x
  <2>2. /\ Len(<<k, Equals, x>>) = 3 /\ FirstAt(<<k, Equals, x>>, Equals) = 2
        /\ Until(<<k, Equals, x>>, 2) = <<k>> /\ Behind(<<k, Equals, x>>, 2) = <<x>>
    BY <2>1, ShortPair
  <2> QED
    BY <2>2 DEF k, x
<1> HIDE DEF s
<1>2. given.is = "ok" /\ given.value = <<"a">>
  BY <1>1, Verdicts
<1> HIDE DEF given
<1>3. ParsePair(s, FALSE) = IF given.is = "ok" THEN Ok([key |-> Until(s, 2), value |-> given.value]) ELSE given
  BY <1>1 DEF ParsePair, given
<1> QED
  BY <1>1, <1>2, <1>3 DEF s

LEMMA NumberPair ==
  ASSUME NEW number \in NumberTokens
  PROVE  ParsePair(<<"g", Equals, number>>, TRUE) = Ok([key |-> <<"g">>, value |-> [number |-> number]])
<1> DEFINE s == <<"g", Equals, number>>
           t == <<number>>
           given == ParseFieldValue(t)
<1>1. /\ Len(s) = 3 /\ FirstAt(s, Equals) = 2
      /\ Until(s, 2) = <<"g">> /\ Behind(s, 2) = t
  <2> DEFINE k == "g"
  <2>1. k \in LineTokens /\ number \in LineTokens /\ k # Equals
    BY TokenFacts
  <2> HIDE DEF k
  <2>2. /\ Len(<<k, Equals, number>>) = 3 /\ FirstAt(<<k, Equals, number>>, Equals) = 2
        /\ Until(<<k, Equals, number>>, 2) = <<k>> /\ Behind(<<k, Equals, number>>, 2) = <<number>>
    BY <2>1, ShortPair
  <2> QED
    BY <2>2 DEF k
<1> HIDE DEF s
<1>2. given = Ok([number |-> number])
  <2>1. Len(t) = 1 /\ t[1] = number
    OBVIOUS
  <2> HIDE DEF t
  <2> QED
    BY <2>1 DEF ParseFieldValue
<1>3. given.is = "ok" /\ given.value = [number |-> number]
  BY <1>2, Verdicts
<1> HIDE DEF given, t
<1>4. ParsePair(s, TRUE) = IF given.is = "ok" THEN Ok([key |-> Until(s, 2), value |-> given.value]) ELSE given
  BY <1>1 DEF ParsePair, given
<1> QED
  BY <1>1, <1>3, <1>4 DEF s

\* Fields without a comma in the escaped string are what the client means.
LEMMA FieldsParsed ==
  ASSUME NEW w, w.text \in Seq(TextTokens), w.number \in NumberTokens \cup {"none"},
         \A j \in 1..Len(Escape(w.text)) : Escape(w.text)[j] # Comma
  PROVE  ParseFields(FieldsOf(w)) = Ok(Meaning(w).fields)
<1> DEFINE e == Escape(w.text)
           q == Quoted(e)
           p == [key |-> <<"f">>, value |-> [string |-> w.text]]
           more == [key |-> <<"g">>, value |-> [number |-> w.number]]
           s == FieldsOf(w)
<1>1. e \in Seq(TextTokens) /\ \A j \in 1..Len(e) : e[j] # Comma
  BY EscapeFacts
<1>2. e \in Seq(LineTokens) /\ \A j \in 1..Len(e) : e[j] # Comma
  <2> HIDE DEF e
  <2> QED
    BY <1>1, TokenFacts
<1>3. ParsePair(q, TRUE) = Ok(p)
  BY QuotedPair
<1>4. s = q \o (IF w.number # "none" THEN <<Comma, "g", Equals, w.number>> ELSE <<>>)
  BY DEF FieldsOf, Quoted
<1>5. Meaning(w).fields = {p} \cup {[key |-> <<"g">>, value |-> [number |-> n]] : n \in {w.number} \ {"none"}}
  BY DEF Meaning
<1> HIDE DEF e, s
<1>6. q \in Seq(LineTokens) /\ IsSolid(q)
  <2> DEFINE l == Len(e)
  <2>1. /\ q \in Seq(LineTokens) /\ Len(q) = l + 4
        /\ q[1] = "f" /\ q[2] = Equals /\ q[3] = Quote
        /\ \A j \in 1..l : q[j + 3] = e[j]
        /\ q[l + 4] = Quote
    BY <1>2, QuotedFacts
  <2>2. l \in Nat
    BY <1>2
  <2> HIDE DEF q, l
  <2>3. ASSUME NEW i \in 1..(l + 4) PROVE q[i] # Comma
    <3>1. i \in {1, 2, 3} \/ i = l + 4 \/ (i - 3 \in 1..l /\ (i - 3) + 3 = i)
      BY <2>2
    <3>2. ASSUME i - 3 \in 1..l, (i - 3) + 3 = i PROVE q[i] # Comma
      <4> DEFINE j == i - 3
      <4>1. j \in 1..l /\ j + 3 = i
        BY <3>2
      <4> HIDE DEF j
      <4>2. q[i] = e[j] /\ e[j] # Comma
        BY <1>2, <2>1, <4>1 DEF l
      <4> QED
        BY <4>2
    <3>3. "f" # Comma
      BY TokenFacts
    <3> QED
      BY <2>1, <3>1, <3>2, <3>3, TokenFacts
  <2>4. q # <<>> /\ q[1] # Space /\ q[Len(q)] # Space
    <3>1. "f" # Space
      BY TokenFacts
    <3>2. Len(q) # 0
      BY <2>1, <2>2
    <3> QED
      BY <2>1, <3>1, <3>2, TokenFacts
  <2> QED
    BY <2>1, <2>3, <2>4 DEF IsSolid
<1>7. CASE w.number = "none"
  <2>1. s = q
    <3> HIDE DEF q
    <3> QED
      BY <1>4, <1>6, <1>7
  <2> HIDE DEF q, p
  <2>2. Pieces(s) = <<q>>
    BY <1>6, <2>1, OnePiece
  <2>3. ParsePairs(s, TRUE) = Ok({p})
    <3> DEFINE typed == TRUE
    <3>1. ParsePair(q, typed) = Ok(p)
      BY <1>3
    <3> HIDE DEF typed
    <3>2. ParsePairs(s, typed) = Ok({p})
      BY <2>2, <3>1, ParsedOne
    <3> QED
      BY <3>2 DEF typed
  <2>4. Ok({p}) # Ok({})
    <3>1. Ok({p}).value = {p} /\ Ok({}).value = {}
      BY Verdicts
    <3> QED
      BY <3>1
  <2>5. Meaning(w).fields = {p}
    BY <1>5, <1>7
  <2> QED
    BY <2>3, <2>4, <2>5 DEF ParseFields, s
<1>8. CASE w.number # "none"
  <2> DEFINE n == w.number
             b == <<"g", Equals, n>>
  <2>1. n \in NumberTokens
    BY <1>8
  <2>2. b \in Seq(LineTokens) /\ IsSolid(b)
    <3>1. n \in LineTokens /\ n # Comma /\ n # Space
      BY <2>1, TokenFacts
    <3> HIDE DEF n
    <3>2. /\ b \in Seq(LineTokens) /\ Len(b) = 3 /\ b[1] = "g" /\ b[2] = Equals /\ b[3] = n
      BY <3>1, TokenFacts
    <3> HIDE DEF b
    <3>3. \A i \in 1..3 : i = 1 \/ i = 2 \/ i = 3
      OBVIOUS
    <3>4. "g" # Comma /\ "g" # Space
      BY TokenFacts
    <3>5. Equals # Comma
      BY TokenFacts
    <3>6. b # <<>> /\ b[1] # Space /\ b[Len(b)] # Space
      <4>1. b # <<>>
        <5>1. Len(b) # Len(<<>>)
          BY ONLY <3>2
        <5> QED
          BY ONLY <5>1
      <4>2. b[1] # Space
        BY <3>2, <3>4
      <4>3. b[Len(b)] # Space
        <5>1. b[Len(b)] = n
          BY <3>2
        <5> QED
          BY <3>1, <5>1
      <4> QED
        BY <4>1, <4>2, <4>3
    <3>7. \A i \in 1..Len(b) : b[i] # Comma
      BY <3>1, <3>2, <3>3, <3>4, <3>5
    <3> QED
      BY <3>2, <3>6, <3>7 DEF IsSolid
  <2>3. s = (q \o <<Comma>>) \o b
    <3> HIDE DEF q
    <3>1. s = q \o <<Comma, "g", Equals, n>>
      BY <1>4, <1>8
    <3>2. n \in LineTokens
      BY <2>1, TokenFacts
    <3> HIDE DEF n
    <3> DEFINE c == <<Comma>>
    <3>3. c \in Seq(LineTokens) /\ b \in Seq(LineTokens) /\ q \in Seq(LineTokens)
          /\ c \o b = <<Comma, "g", Equals, n>>
      <4>1. c \o b = <<Comma, "g", Equals, n>>
        <5>1. Comma \in LineTokens /\ "g" \in LineTokens /\ Equals \in LineTokens /\ n \in LineTokens
          BY <3>2, TokenFacts
        <5>2. <<Comma, "g", Equals, n>> = <<Comma>> \o <<"g", Equals, n>>
          BY ONLY <5>1, FourIs
        <5> QED
          BY <5>2
      <4>2. c \in Seq(LineTokens)
        BY TokenFacts
      <4> QED
        BY <1>6, <2>2, <4>1, <4>2
    <3> HIDE DEF b, c
    <3>4. (q \o c) \o b = q \o (c \o b)
      <4> DEFINE T == LineTokens
      <4>1. q \in Seq(T) /\ c \in Seq(T) /\ b \in Seq(T)
        BY <3>3
      <4> HIDE DEF T
      <4> QED
        BY ONLY <4>1, ConcatAssociative
    <3> QED
      BY <3>1, <3>3, <3>4 DEF c
  <2>4. ParsePair(b, TRUE) = Ok(more)
    BY <2>1, NumberPair
  <2>5. p.key # more.key
    <3>1. p.key = <<"f">> /\ more.key = <<"g">>
      OBVIOUS
    <3>2. <<"f">>[1] # <<"g">>[1]
      OBVIOUS
    <3> QED
      BY <3>1, <3>2
  <2>6. Meaning(w).fields = {p, more}
    BY <1>5, <1>8
  <2> HIDE DEF q, b, p, more
  <2>7. Pieces(s) = <<q, b>>
    BY <1>6, <2>2, <2>3, TwoPieces, TokenFacts
  <2>8. ParsePairs(s, TRUE) = Ok({p, more})
    <3> DEFINE typed == TRUE
    <3>1. ParsePair(q, typed) = Ok(p) /\ ParsePair(b, typed) = Ok(more)
      BY <1>3, <2>4
    <3> HIDE DEF typed
    <3>2. ParsePairs(s, typed) = Ok({p, more})
      BY <2>5, <2>7, <3>1, ParsedTwo
    <3> QED
      BY <3>2 DEF typed
  <2>9. Ok({p, more}) # Ok({})
    <3>1. Ok({p, more}).value = {p, more} /\ Ok({}).value = {}
      BY Verdicts
    <3> QED
      BY <3>1
  <2> QED
    BY <2>6, <2>8, <2>9 DEF ParseFields, s
<1> QED
  BY <1>7, <1>8

\* What a client writes for its fields, token by token.
LEMMA FieldTokens ==
  ASSUME NEW w, w.text \in Seq(TextTokens), w.number \in NumberTokens \cup {"none"}
  PROVE  LET s == FieldsOf(w)
             e == Escape(w.text)
             p == Len(e) + 4
         IN  /\ s \in Seq(LineTokens) /\ p \in 1..Len(s) /\ Len(s) \in Nat
             /\ s[1] = "f" /\ s[2] = Equals /\ s[3] = Quote /\ s[p] = Quote
             /\ \A j \in 1..Len(e) : s[j + 3] = e[j]
             /\ p = Len(s) \/ s[p + 1] = Comma
             /\ s[Len(s)] \in {Quote} \cup NumberTokens
             /\ \A i \in 1..Len(s) : s[i] = Space => i \in 4..(p - 1)
<1> DEFINE e == Escape(w.text)
           s == FieldsOf(w)
           q == Quoted(e)
           l == Len(e)
           p == l + 4
<1>1. e \in Seq(LineTokens)
  <2>1. e \in Seq(TextTokens)
    BY EscapeFacts
  <2> HIDE DEF e
  <2> QED
    BY <2>1, TokenFacts
<1>2. s = q \o (IF w.number # "none" THEN <<Comma, "g", Equals, w.number>> ELSE <<>>)
  BY DEF FieldsOf, Quoted
<1> HIDE DEF e, s
<1>3. /\ q \in Seq(LineTokens) /\ Len(q) = p
      /\ q[1] = "f" /\ q[2] = Equals /\ q[3] = Quote
      /\ (\A j \in 1..l : q[j + 3] = e[j])
      /\ q[p] = Quote
  BY <1>1, QuotedFacts
<1>4. l \in Nat
  BY <1>1
<1> HIDE DEF q, l
<1>5. \A i \in 1..p : q[i] = Space => i \in 4..(p - 1)
  <2> SUFFICES ASSUME NEW i \in 1..p, q[i] = Space PROVE i \in 4..(p - 1)
    OBVIOUS
  <2>1. i = 1 \/ i = 2 \/ i = 3 \/ i = p \/ i \in 4..(p - 1)
    BY <1>4
  <2>2. "f" # Space /\ Equals # Space /\ Quote # Space
    BY TokenFacts
  <2> QED
    BY <1>3, <2>1, <2>2
<1>6. CASE w.number = "none"
  <2>1. s = q
    BY <1>2, <1>3, <1>6
  <2>2. p \in 1..Len(s) /\ p = Len(s)
    BY <1>3, <1>4, <2>1
  <2> QED
    BY <1>3, <1>5, <2>1, <2>2 DEF s, e, l
<1>7. CASE w.number # "none"
  <2> DEFINE n == w.number
             b == <<Comma, "g", Equals, n>>
  <2>1. n \in NumberTokens /\ n \in LineTokens /\ n # Space
    BY <1>7, TokenFacts
  <2>2. s = q \o b
    BY <1>2, <1>7
  <2> HIDE DEF n
  <2>3. b \in Seq(LineTokens) /\ Len(b) = 4 /\ b[1] = Comma /\ b[2] = "g" /\ b[3] = Equals /\ b[4] = n
    BY <2>1, TokenFacts
  <2> HIDE DEF b
  <2>4. /\ s \in Seq(LineTokens) /\ Len(s) = p + 4
        /\ \A i \in 1..(p + 4) : s[i] = IF i <= p THEN q[i] ELSE b[i - p]
    <3>1. /\ q \o b \in Seq(LineTokens) /\ Len(q \o b) = Len(q) + Len(b)
          /\ \A i \in 1..(Len(q) + Len(b)) : (q \o b)[i] = IF i <= Len(q) THEN q[i] ELSE b[i - Len(q)]
      BY <1>3, <2>3, ConcatProperties
    <3> QED
      BY <1>3, <2>2, <2>3, <3>1
  <2>5. \A i \in 1..p : s[i] = q[i]
    BY <1>4, <2>4
  <2>6. s[p + 1] = Comma /\ s[p + 2] = "g" /\ s[p + 3] = Equals /\ s[p + 4] = n
    <3>1. \A k \in {1, 2, 3, 4} : p + k \in 1..(p + 4) /\ ~(p + k <= p) /\ (p + k) - p = k
      BY <1>4
    <3>2. \A k \in {1, 2, 3, 4} : s[p + k] = b[k]
      BY <2>4, <3>1
    <3> QED
      BY <2>3, <3>2
  <2>7. \A i \in 1..(p + 4) : s[i] = Space => i \in 4..(p - 1)
    <3> SUFFICES ASSUME NEW i \in 1..(p + 4), s[i] = Space PROVE i \in 4..(p - 1)
      OBVIOUS
    <3>1. i \in 1..p \/ i = p + 1 \/ i = p + 2 \/ i = p + 3 \/ i = p + 4
      BY <1>4
    <3>2. "g" # Space /\ Equals # Space /\ Comma # Space
      BY TokenFacts
    <3> QED
      BY <1>5, <2>1, <2>5, <2>6, <3>1, <3>2
  <2>8. /\ s[1] = "f" /\ s[2] = Equals /\ s[3] = Quote /\ s[p] = Quote
        /\ \A j \in 1..l : s[j + 3] = e[j]
    <3>1. 1 \in 1..p /\ 2 \in 1..p /\ 3 \in 1..p /\ p \in 1..p /\ \A j \in 1..l : j + 3 \in 1..p
      BY <1>4
    <3> QED
      BY <1>3, <2>5, <3>1
  <2>9. p \in 1..(p + 4) /\ p + 4 \in Nat
    BY <1>4
  <2> QED
    BY <2>1, <2>4, <2>6, <2>7, <2>8, <2>9 DEF s, e, l
<1> QED
  BY <1>6, <1>7

\* A piece that ends with a quote, and has no other quote behind an equals sign, is bad.
LEMMA BadPiece ==
  ASSUME NEW s \in Seq(LineTokens), NEW q \in Nat, NEW p \in Nat, 1 <= q, q <= p, p <= Len(s), s[p] = Quote,
         \A j \in (q + 1)..(p - 1) : s[j] = Quote => s[j - 1] # Equals
  PROVE  ParsePair(SubSeq(s, q, p), TRUE).is # "ok"
<1> DEFINE r == SubSeq(s, q, p)
           n == p - q + 1
           at == FirstAt(r, Equals)
           v == Behind(r, at)
           given == ParseFieldValue(v)
<1>1. /\ r \in Seq(LineTokens) /\ Len(r) = n /\ DOMAIN r = 1..n
      /\ \A k \in 1..n : r[k] = s[q + k - 1] /\ q + k - 1 \in 1..Len(s)
  <2>1. q <= p + 1
    OBVIOUS
  <2> QED
    BY <2>1, SubSeqFacts
<1>2. n \in Nat /\ n >= 1
  OBVIOUS
<1> HIDE DEF r
<1>3. CASE at \in {0, 1, Len(r)}
  <2>1. ParsePair(r, TRUE) = Err
    BY <1>3 DEF ParsePair
  <2> QED
    BY <2>1, Verdicts DEF r
<1>4. CASE at \notin {0, 1, Len(r)}
  <2>1. at \in 2..(n - 1) /\ r[at] = Equals
    <3>1. /\ PlacesOf(r, Equals) = {i \in 1..Len(r) : r[i] = Equals}
          /\ PlacesOf(r, Equals) = {} => at = 0
          /\ PlacesOf(r, Equals) # {} => at \in PlacesOf(r, Equals)
      BY <1>1, PlaceFacts
    <3> HIDE DEF at, n
    <3>2. at \in 1..n /\ r[at] = Equals
      BY <1>1, <1>4, <3>1
    <3> QED
      BY <1>1, <1>2, <1>4, <3>2
  <2> HIDE DEF at
  <2> DEFINE l == n - at
  <2>2. /\ v \in Seq(LineTokens) /\ Len(v) = l
        /\ \A k \in 1..l : v[k] = r[at + k]
    <3> DEFINE a == at + 1
    <3>1. a \in Nat /\ 1 <= a /\ a <= n + 1 /\ n <= Len(r) /\ n \in Nat /\ r \in Seq(LineTokens)
      BY <1>1, <1>2, <2>1
    <3>2. n - a + 1 = l /\ \A k \in 1..l : a + k - 1 = at + k
      BY <1>2, <2>1
    <3>3. v = SubSeq(r, a, n)
      BY <1>1 DEF Behind
    <3> HIDE DEF a, n
    <3>4. /\ SubSeq(r, a, n) \in Seq(LineTokens) /\ Len(SubSeq(r, a, n)) = n - a + 1
          /\ \A k \in 1..(n - a + 1) : SubSeq(r, a, n)[k] = r[a + k - 1] /\ a + k - 1 \in 1..Len(r)
      BY ONLY <3>1, SubSeqFacts
    <3> HIDE DEF v
    <3> QED
      BY <3>2, <3>3, <3>4
  <2>3. l \in Nat /\ l >= 1
    BY <1>2, <2>1
  <2> HIDE DEF v, l
  <2>4. v[l] = Quote
    <3>1. v[l] = r[at + l] /\ at + l = n
      BY <1>2, <2>1, <2>2, <2>3 DEF l
    <3>2. r[n] = s[q + n - 1] /\ q + n - 1 = p
      BY <1>1, <1>2
    <3> QED
      BY <3>1, <3>2
  <2>5. v[1] = Quote => l = 1
    <3> SUFFICES ASSUME v[1] = Quote, l # 1 PROVE FALSE
      OBVIOUS
    <3> DEFINE j == q + at
    <3>1. v[1] = r[at + 1] /\ at + 1 \in 1..n /\ at \in 1..n /\ j \in (q + 1)..(p - 1)
      BY <1>2, <2>1, <2>2, <2>3 DEF l
    <3>2. q + (at + 1) - 1 = j /\ q + at - 1 = j - 1
      BY <2>1
    <3>3. r[at + 1] = s[j] /\ r[at] = s[j - 1]
      BY <1>1, <3>1, <3>2
    <3> QED
      BY <2>1, <3>1, <3>3
  <2>6. given.is # "ok"
    <3>1. ~(Len(v) = 1 /\ v[1] \in NumberTokens)
      BY <2>2, <2>4, TokenFacts
    <3>2. given = Err \/ given = Panic
      BY <2>2, <2>4, <2>5, <3>1 DEF ParseFieldValue
    <3> QED
      BY <3>2, Verdicts
  <2> HIDE DEF given
  <2>7. ParsePair(r, TRUE) = IF given.is = "ok" THEN Ok([key |-> Until(r, at), value |-> given.value]) ELSE given
    BY <1>4 DEF ParsePair, at, given, v
  <2> QED
    BY <2>6, <2>7 DEF r
<1> QED
  BY <1>3, <1>4

\* Fields with a comma in the string are not parsed.
LEMMA FieldsRefused ==
  ASSUME NEW w, w.text \in Seq(TextTokens), w.number \in NumberTokens \cup {"none"}
  PROVE  /\ ParseFields(FieldsOf(w)).is = "ok" \/ ParseFields(FieldsOf(w)) \in {Err, Panic}
         /\ (\E j \in 1..Len(Escape(w.text)) : Escape(w.text)[j] = Comma) => ParseFields(FieldsOf(w)).is # "ok"
<1> DEFINE e == Escape(w.text)
           s == FieldsOf(w)
           p == Len(e) + 4
           pieces == Pieces(s)
           verdict == ParsePairs(s, TRUE)
<1>1. /\ s \in Seq(LineTokens) /\ p \in 1..Len(s) /\ Len(s) \in Nat
      /\ s[p] = Quote
      /\ (\A j \in 1..Len(e) : s[j + 3] = e[j])
      /\ p = Len(s) \/ s[p + 1] = Comma
  BY FieldTokens
<1>2. e \in Seq(TextTokens) /\ \A j \in 1..Len(e) : e[j] = Quote => j > 1 /\ e[j - 1] = Backslash
  BY EscapeFacts
<1>3. Len(e) \in Nat
  <2> HIDE DEF e
  <2> QED
    BY <1>2
<1> HIDE DEF e, s
<1>4. Len(pieces) \in Nat
  <2> DEFINE U == Seq(LineTokens)
  <2>1. pieces \in Seq(U)
    BY <1>1, PartFacts
  <2> HIDE DEF U, pieces
  <2> QED
    BY <2>1
<1>5. /\ verdict.is = "ok" \/ verdict \in {Err, Panic}
      /\ \A k \in 1..Len(pieces) : ParsePair(pieces[k], TRUE).is # "ok" => verdict.is # "ok"
  <2> DEFINE typed == TRUE
  <2> HIDE DEF typed
  <2>1. /\ ParsePairs(s, typed).is = "ok" \/ ParsePairs(s, typed) \in {Err, Panic}
        /\ \A k \in 1..Len(Pieces(s)) :
             ParsePair(Pieces(s)[k], typed).is # "ok" => ParsePairs(s, typed).is # "ok"
    BY <1>4, ParsedBad
  <2> QED
    BY <2>1 DEF typed
<1> HIDE DEF verdict
<1>6. ParseFields(s) = IF verdict = Ok({}) THEN Err ELSE verdict
  BY DEF ParseFields, verdict
<1>7. ParseFields(s).is = "ok" \/ ParseFields(s) \in {Err, Panic}
  BY <1>5, <1>6
<1>8. ASSUME NEW c \in 1..Len(e), e[c] = Comma PROVE ParseFields(s).is # "ok"
  <2>1. PICK k \in 1..Len(pieces) : EndsAt(pieces[k], s, p)
    <3>1. s[p] # Space /\ s[p] # Comma
      BY <1>1, TokenFacts
    <3> HIDE DEF p
    <3> QED
      BY <1>1, <3>1, PieceWith
  <2> HIDE DEF pieces
  <2>2. PICK q \in 1..p : /\ pieces[k] = SubSeq(s, q, p)
                          /\ \A j \in 1..Len(s) : s[j] = Comma /\ j < p => j < q
    BY <2>1 DEF EndsAt
  <2>3. c + 3 < q
    <3>1. c + 3 \in 1..Len(s) /\ s[c + 3] = e[c] /\ c + 3 < p
      BY <1>1, <1>3
    <3> QED
      BY <1>8, <2>2, <3>1
  <2>4. ASSUME NEW j \in (q + 1)..(p - 1), s[j] = Quote PROVE s[j - 1] # Equals
    <3> DEFINE i == j - 3
    <3>1. i \in 1..Len(e) /\ i + 3 = j /\ i - 1 \in 1..Len(e) /\ (i - 1) + 3 = j - 1
      BY <1>3, <2>3
    <3> HIDE DEF i
    <3>2. s[j] = e[i] /\ s[j - 1] = e[i - 1]
      BY <1>1, <3>1
    <3>3. e[i - 1] = Backslash
      BY <1>2, <2>4, <3>1, <3>2
    <3> QED
      BY <3>2, <3>3, TokenFacts
  <2>5. ParsePair(SubSeq(s, q, p), TRUE).is # "ok"
    <3>1. q \in Nat /\ p \in Nat /\ 1 <= q /\ q <= p /\ p <= Len(s)
      BY <1>1, <1>3
    <3> HIDE DEF p
    <3> QED
      BY <1>1, <2>4, <3>1, BadPiece
  <2>6. verdict.is # "ok"
    BY <1>5, <2>2, <2>5
  <2> QED
    BY <1>6, <2>6, Verdicts
<1> QED
  BY <1>7, <1>8 DEF s, e

IsWritten(w) ==
  /\ w.tag \in BOOLEAN /\ w.timed \in BOOLEAN
  /\ w.text \in Seq(TextTokens) /\ w.number \in NumberTokens \cup {"none"}

\* The part in front of the first space of a line.
LEMMA SeriesFacts ==
  ASSUME NEW w, IsWritten(w), NEW rest \in Seq(LineTokens), NEW line, line = SeriesOf(w) \o <<Space>> \o rest
  PROVE  /\ FirstAt(line, Space) # 0
         /\ Until(line, FirstAt(line, Space)) = SeriesOf(w)
         /\ Behind(line, FirstAt(line, Space)) = rest
<1> DEFINE a == SeriesOf(w)
           m == <<"m">>
           t == <<"m", Comma, "host", Equals, "a">>
<1>1. a \in Seq(LineTokens) /\ \A i \in 1..Len(a) : a[i] # Space
  <2>1. a = IF w.tag THEN t ELSE m
    BY DEF SeriesOf
  <2>2. m \in Seq(LineTokens) /\ Len(m) = 1 /\ m[1] = "m"
    BY TokenFacts
  <2>3. t \in Seq(LineTokens) /\ Len(t) = 5
        /\ t[1] = "m" /\ t[2] = Comma /\ t[3] = "host" /\ t[4] = Equals /\ t[5] = "a"
    BY TokenFacts
  <2>4. (\A i \in 1..1 : i = 1) /\ \A i \in 1..5 : i = 1 \/ i = 2 \/ i = 3 \/ i = 4 \/ i = 5
    OBVIOUS
  <2>5. "m" # Space /\ Comma # Space /\ "host" # Space /\ Equals # Space /\ "a" # Space
    BY TokenFacts
  <2> HIDE DEF m, t
  <2>6. \A i \in 1..Len(m) : m[i] # Space
    BY <2>2, <2>4, <2>5
  <2>7. \A i \in 1..Len(t) : t[i] # Space
    BY <2>3, <2>4, <2>5
  <2>8. w.tag = TRUE \/ w.tag = FALSE
    BY DEF IsWritten
  <2> HIDE DEF a
  <2> QED
    BY <2>1, <2>2, <2>3, <2>6, <2>7, <2>8
<1> HIDE DEF a
<1>2. IsAround(line, a, Space, rest, LineTokens)
  BY <1>1, TokenFacts DEF IsAround, a
<1>3. /\ Until(line, Len(a) + 1) = a /\ Behind(line, Len(a) + 1) = rest
      /\ (\A i \in 1..Len(a) : a[i] # Space) => FirstAt(line, Space) = Len(a) + 1
  BY <1>2, CutAround
<1>4. Len(a) + 1 # 0
  BY <1>1
<1> QED
  BY <1>1, <1>3, <1>4 DEF a

\* The measurement and the tags.
LEMMA HeadFacts ==
  ASSUME NEW w, IsWritten(w)
  PROVE  LET head == SeriesOf(w)
             comma == FirstAt(head, Comma)
         IN  /\ (IF comma = 0 THEN head ELSE Until(head, comma)) = <<"m">>
             /\ ParseTags(IF comma = 0 THEN <<>> ELSE Behind(head, comma)) = Ok(Meaning(w).tags)
<1> DEFINE head == SeriesOf(w)
           comma == FirstAt(head, Comma)
           m == <<"m">>
           t == <<"host", Equals, "a">>
           tag == [key |-> <<"host">>, value |-> <<"a">>]
<1>1. w.tag = TRUE \/ w.tag = FALSE
  BY DEF IsWritten
<1>2. Meaning(w).tags = IF w.tag THEN {tag} ELSE {}
  BY DEF Meaning
<1>3. m \in Seq(LineTokens) /\ Len(m) = 1 /\ m[1] = "m" /\ "m" # Comma
  BY TokenFacts
<1> HIDE DEF tag
<1>4. CASE w.tag = FALSE
  <2>1. head = m
    BY <1>4 DEF SeriesOf
  <2> HIDE DEF m, head
  <2>2. PlacesOf(m, Comma) = {}
    <3>1. DOMAIN m = 1..1 /\ \A i \in 1..1 : i = 1
      BY <1>3
    <3> QED
      BY <1>3, <3>1 DEF PlacesOf
  <2>3. comma = 0
    BY <2>1, <2>2 DEF FirstAt
  <2>4. ParseTags(<<>>) = Ok({})
    <3> DEFINE typed == FALSE
    <3> HIDE DEF typed
    <3>1. Pieces(<<>>) = <<>>
      BY NoPieces
    <3>2. ParsePairs(<<>>, typed) = Ok({})
      BY <3>1, ParsedNone
    <3> QED
      BY <3>2 DEF ParseTags, typed
  <2> QED
    BY <1>2, <1>4, <2>1, <2>3, <2>4 DEF head, m
<1>5. CASE w.tag = TRUE
  <2>1. head = <<"m", Comma, "host", Equals, "a">>
    BY <1>5 DEF SeriesOf
  <2>2. t \in Seq(LineTokens) /\ Len(t) = 3 /\ t[1] = "host" /\ t[2] = Equals /\ t[3] = "a"
    BY TokenFacts
  <2>3. head \in Seq(LineTokens) /\ Len(head) = 5
        /\ head[1] = "m" /\ head[2] = Comma /\ head[3] = "host" /\ head[4] = Equals /\ head[5] = "a"
    BY <2>1, TokenFacts
  <2> HIDE DEF m, t, head
  <2>4. IsAround(head, m, Comma, t, LineTokens)
    <3> DEFINE s == (m \o <<Comma>>) \o t
    <3>1. IsAround(s, m, Comma, t, LineTokens)
      BY <1>3, <2>2, TokenFacts DEF IsAround
    <3> HIDE DEF s
    <3>2. /\ s \in Seq(LineTokens) /\ Len(s) = Len(m) + 1 + Len(t) /\ DOMAIN s = 1..Len(s)
          /\ \A i \in 1..Len(m) : s[i] = m[i]
          /\ s[Len(m) + 1] = Comma
          /\ \A i \in 1..Len(t) : s[Len(m) + 1 + i] = t[i]
      <4>1. Placed(s, m, Comma, t, LineTokens)
        BY ONLY <3>1, AroundFacts
      <4> QED
        BY ONLY <4>1 DEF Placed
    <3>3. Len(s) = 5 /\ s[1] = "m" /\ s[2] = Comma /\ s[3] = "host" /\ s[4] = Equals /\ s[5] = "a"
      <4>1. 1 \in 1..1 /\ 1 \in 1..3 /\ 2 \in 1..3 /\ 3 \in 1..3
            /\ 1 + 1 = 2 /\ 1 + 1 + 1 = 3 /\ 1 + 1 + 2 = 4 /\ 1 + 1 + 3 = 5
        OBVIOUS
      <4>2. s[1] = m[1] /\ s[1 + 1] = Comma /\ s[1 + 1 + 1] = t[1] /\ s[1 + 1 + 2] = t[2] /\ s[1 + 1 + 3] = t[3]
        BY <1>3, <2>2, <3>2, <4>1
      <4> QED
        BY <1>3, <2>2, <3>2, <4>1, <4>2
    <3>4. \A k \in 1..5 : head[k] = s[k]
      <4>1. \A k \in 1..5 : k = 1 \/ k = 2 \/ k = 3 \/ k = 4 \/ k = 5
        OBVIOUS
      <4> QED
        BY <2>3, <3>3, <4>1
    <3>5. head = s
      BY <2>3, <3>2, <3>3, <3>4, SeqEqual
    <3> QED
      BY <3>1, <3>5
  <2>5. comma = 2 /\ Until(head, 2) = m /\ Behind(head, 2) = t
    <3>1. /\ Until(head, Len(m) + 1) = m /\ Behind(head, Len(m) + 1) = t
          /\ (\A i \in 1..Len(m) : m[i] # Comma) => FirstAt(head, Comma) = Len(m) + 1
      BY <2>4, CutAround
    <3>2. Len(m) + 1 = 2 /\ \A i \in 1..Len(m) : i = 1
      BY <1>3
    <3> QED
      BY <1>3, <3>1, <3>2
  <2>6. Pieces(t) = <<t>>
    <3>1. IsSolid(t)
      <4>1. \A i \in 1..3 : i = 1 \/ i = 2 \/ i = 3
        OBVIOUS
      <4>2. "host" # Comma /\ Equals # Comma /\ "a" # Comma /\ "host" # Space /\ "a" # Space
        BY TokenFacts
      <4>3. t # <<>>
        BY <2>2
      <4>4. t[1] # Space /\ t[Len(t)] # Space
        BY <2>2, <4>2
      <4>5. \A i \in 1..Len(t) : t[i] # Comma
        BY <2>2, <4>1, <4>2
      <4> QED
        BY <4>3, <4>4, <4>5 DEF IsSolid
    <3> QED
      BY <2>2, <3>1, OnePiece
  <2>7. ParseTags(t) = Ok({tag})
    <3> DEFINE typed == FALSE
    <3>1. ParsePair(t, typed) = Ok(tag)
      BY HostPair DEF t, tag
    <3> HIDE DEF typed
    <3>2. ParsePairs(t, typed) = Ok({tag})
      BY <2>6, <3>1, ParsedOne
    <3> QED
      BY <3>2 DEF ParseTags, typed
  <2> QED
    BY <1>2, <1>5, <2>5, <2>7 DEF head, m
<1> QED
  BY <1>1, <1>4, <1>5

\* The fields and the timestamp.
LEMMA TailFacts ==
  ASSUME NEW w, IsWritten(w)
  PROVE  LET rest == FieldsOf(w) \o TimeOf(w)
             tail == SplitTime(rest)
             time == ParseTimestamp(tail.time)
         IN  /\ rest \in Seq(LineTokens)
             /\ \/ tail.fields = FieldsOf(w) /\ time = Ok(Meaning(w).time)
                \/ time = Err /\ ~w.timed /\ \E j \in 1..Len(Escape(w.text)) : Escape(w.text)[j] = Space
<1> DEFINE s == FieldsOf(w)
           e == Escape(w.text)
           p == Len(e) + 4
           rest == s \o TimeOf(w)
           tail == SplitTime(rest)
           at == LastAt(rest, Space)
<1>1. w.timed = TRUE \/ w.timed = FALSE
  BY DEF IsWritten
<1>2. /\ s \in Seq(LineTokens) /\ p \in 1..Len(s) /\ Len(s) \in Nat
      /\ (\A j \in 1..Len(e) : s[j + 3] = e[j])
      /\ s[Len(s)] \in {Quote} \cup NumberTokens
      /\ \A i \in 1..Len(s) : s[i] = Space => i \in 4..(p - 1)
  BY FieldTokens DEF IsWritten
<1>3. Len(e) \in Nat
  <2>1. e \in Seq(TextTokens)
    BY EscapeFacts DEF IsWritten
  <2> HIDE DEF e
  <2> QED
    BY <2>1
<1>4. Meaning(w).time = IF w.timed THEN Stamp ELSE DefaultTime
  BY DEF Meaning
<1>5. TimeOf(w) = IF w.timed THEN <<Space, Stamp>> ELSE <<>>
  BY DEF TimeOf
<1>6. tail = IF at = 0 THEN [fields |-> rest, time |-> <<>>]
             ELSE [fields |-> Until(rest, at), time |-> Behind(rest, at)]
  BY DEF SplitTime
<1> HIDE DEF s, e, tail, at
<1>7. CASE w.timed = TRUE
  <2> DEFINE b == <<Stamp>>
             c == <<Space>>
             d == <<Space, Stamp>>
  <2>1. b \in Seq(LineTokens) /\ c \in Seq(LineTokens) /\ d \in Seq(LineTokens) /\ Len(b) = 1 /\ b[1] = Stamp
        /\ Stamp # Space
    BY TokenFacts
  <2>2. c \o b = d
    <3>1. Len(c \o b) = 2 /\ c \o b \in Seq(LineTokens)
      BY <2>1
    <3>2. (c \o b)[1] = Space /\ (c \o b)[2] = Stamp
      BY <2>1
    <3>3. Len(d) = 2 /\ d[1] = Space /\ d[2] = Stamp
      OBVIOUS
    <3>4. \A k \in 1..2 : k = 1 \/ k = 2
      OBVIOUS
    <3> DEFINE u == c \o b
    <3>5. u \in Seq(LineTokens) /\ Len(u) = 2 /\ u[1] = Space /\ u[2] = Stamp
      BY <3>1, <3>2
    <3> HIDE DEF u, d
    <3>6. Len(u) = Len(d) /\ \A k \in 1..Len(u) : u[k] = d[k]
      BY <3>3, <3>4, <3>5
    <3>7. u = d
      BY <2>1, <3>5, <3>6, SeqEqual
    <3> QED
      BY <3>7 DEF u
  <2> HIDE DEF b, c, d
  <2>3. rest = (s \o c) \o b
    <3>1. (s \o c) \o b = s \o (c \o b)
      <4> DEFINE T == LineTokens
      <4>1. s \in Seq(T) /\ c \in Seq(T) /\ b \in Seq(T)
        BY <1>2, <2>1
      <4> HIDE DEF T
      <4> QED
        BY ONLY <4>1, ConcatAssociative
    <3>2. TimeOf(w) = d
      BY <1>5, <1>7 DEF d
    <3> QED
      BY <2>2, <3>1, <3>2
  <2> HIDE DEF rest
  <2>4. IsAround(rest, s, Space, b, LineTokens)
    BY <1>2, <2>1, <2>3, TokenFacts DEF IsAround, c
  <2>5. /\ Until(rest, Len(s) + 1) = s /\ Behind(rest, Len(s) + 1) = b
        /\ (\A i \in 1..Len(b) : b[i] # Space) => LastAt(rest, Space) = Len(s) + 1
        /\ rest \in Seq(LineTokens)
    <3>1. Placed(rest, s, Space, b, LineTokens)
      BY ONLY <2>4, AroundFacts
    <3>2. rest \in Seq(LineTokens)
      BY ONLY <3>1 DEF Placed
    <3> QED
      BY <2>4, <3>2, CutAround
  <2>6. at = Len(s) + 1 /\ at # 0
    <3>1. \A i \in 1..Len(b) : b[i] # Space
      <4>1. \A i \in 1..1 : i = 1
        OBVIOUS
      <4> QED
        BY <2>1, <4>1
    <3> QED
      BY <1>2, <2>5, <3>1 DEF at
  <2>7. tail.fields = s /\ tail.time = b
    BY <1>6, <2>5, <2>6
  <2>8. ParseTimestamp(b) = Ok(Stamp)
    <3>1. b # <<>>
      BY DEF b
    <3> QED
      BY <3>1 DEF ParseTimestamp, b
  <2> QED
    BY <1>4, <1>7, <2>5, <2>7, <2>8 DEF rest, tail, s
<1>8. CASE w.timed = FALSE
  <2>1. rest = s /\ rest \in Seq(LineTokens)
    BY <1>2, <1>5, <1>8
  <2> HIDE DEF rest
  <2>2. CASE at = 0
    <3>1. tail.fields = s /\ tail.time = <<>>
      BY <1>6, <2>1, <2>2
    <3>2. ParseTimestamp(<<>>) = Ok(DefaultTime)
      BY DEF ParseTimestamp
    <3> QED
      BY <1>4, <1>8, <2>1, <3>1, <3>2 DEF rest, tail, s
  <2>3. CASE at # 0
    <3>1. at \in 1..Len(s) /\ s[at] = Space
      <4>1. /\ PlacesOf(s, Space) = {i \in 1..Len(s) : s[i] = Space}
            /\ PlacesOf(s, Space) = {} => LastAt(s, Space) = 0
            /\ PlacesOf(s, Space) # {} => LastAt(s, Space) \in PlacesOf(s, Space)
        BY <1>2, PlaceFacts
      <4> QED
        BY <2>1, <2>3, <4>1 DEF at
    <3>2. at \in 4..(p - 1)
      BY <1>2, <3>1
    <3> DEFINE t == Behind(s, at)
               n == Len(s)
    <3>3. /\ t \in Seq(LineTokens) /\ Len(t) = n - at
          /\ \A k \in 1..(n - at) : t[k] = s[at + k]
      <4> DEFINE a == at + 1
      <4>1. a \in Nat /\ 1 <= a /\ a <= n + 1 /\ n <= Len(s) /\ n \in Nat /\ s \in Seq(LineTokens)
        BY <1>2, <3>1
      <4>2. n - a + 1 = n - at /\ \A k \in 1..(n - at) : a + k - 1 = at + k
        BY <1>2, <3>1
      <4>3. t = SubSeq(s, a, n)
        BY DEF Behind
      <4> HIDE DEF a, n
      <4>4. /\ SubSeq(s, a, n) \in Seq(LineTokens) /\ Len(SubSeq(s, a, n)) = n - a + 1
            /\ \A k \in 1..(n - a + 1) : SubSeq(s, a, n)[k] = s[a + k - 1] /\ a + k - 1 \in 1..Len(s)
        BY ONLY <4>1, SubSeqFacts
      <4> HIDE DEF t
      <4> QED
        BY <4>2, <4>3, <4>4
    <3>4. n - at \in 1..(n - at) /\ at + (n - at) = n /\ n - at # 0
      <4>1. p <= n /\ p \in Nat /\ n \in Nat
        BY <1>2, <1>3
      <4> HIDE DEF n, p
      <4> QED
        BY <3>2, <4>1
    <3>5. t # <<>> /\ t # <<Stamp>>
      <4>1. t[n - at] = s[n]
        <5> DEFINE d == n - at
        <5>1. d \in 1..d /\ at + d = n /\ \A k \in 1..d : t[k] = s[at + k]
          BY <3>3, <3>4
        <5> HIDE DEF d, t, n
        <5>2. t[d] = s[n]
          BY <5>1
        <5> QED
          BY <5>2 DEF d
      <4>2. s[n] # Stamp
        BY <1>2, TokenFacts
      <4>3. ASSUME t = <<Stamp>> PROVE FALSE
        <5>1. Len(t) = 1 /\ t[1] = Stamp
          BY <4>3
        <5> HIDE DEF t
        <5>2. n - at = 1
          BY <3>3, <5>1
        <5> QED
          BY <4>1, <4>2, <5>1, <5>2
      <4>4. ASSUME t = <<>> PROVE FALSE
        <5>1. Len(t) = 0
          BY <4>4
        <5> HIDE DEF t
        <5> QED
          BY <3>3, <3>4, <5>1
      <4> QED
        BY <4>3, <4>4
    <3>6. tail.time = t
      BY <1>6, <2>1, <2>3
    <3>7. ParseTimestamp(t) = Err
      BY <3>5 DEF ParseTimestamp
    <3>8. \E j \in 1..Len(e) : e[j] = Space
      <4> DEFINE j == at - 3
      <4>1. j \in 1..Len(e) /\ j + 3 = at
        BY <1>3, <3>2
      <4> HIDE DEF j
      <4>2. e[j] = Space
        BY <1>2, <3>1, <4>1
      <4> QED
        BY <4>1, <4>2
    <3> QED
      BY <1>8, <2>1, <3>6, <3>7, <3>8 DEF rest, tail, s, e
  <2> QED
    BY <2>2, <2>3
<1> QED
  BY <1>1, <1>7, <1>8

LEMMA PiecesLen ==
  ASSUME NEW S, NEW s \in Seq(S)
  PROVE  Len(Pieces(s)) \in Nat
<1> DEFINE U == Seq(S)
           pieces == Pieces(s)
<1>1. pieces \in Seq(U)
  BY PartFacts
<1> HIDE DEF U, pieces
<1>2. Len(pieces) \in Nat
  BY <1>1
<1> QED
  BY <1>2 DEF pieces

LEMMA SplitSeq ==
  ASSUME NEW S, NEW s \in Seq(S)
  PROVE  SplitTime(s).fields \in Seq(S)
<1> DEFINE at == LastAt(s, Space)
           n == Len(s)
<1>1. /\ PlacesOf(s, Space) = {i \in 1..n : s[i] = Space}
      /\ PlacesOf(s, Space) = {} => LastAt(s, Space) = 0
      /\ PlacesOf(s, Space) # {} => LastAt(s, Space) \in PlacesOf(s, Space)
  BY PlaceFacts
<1>2. at = 0 \/ at \in 1..n
  BY <1>1
<1>3. n \in Nat
  OBVIOUS
<1>4. SplitTime(s).fields = IF at = 0 THEN s ELSE Until(s, at)
  BY DEF SplitTime
<1> HIDE DEF at
<1>5. CASE at = 0
  BY <1>4, <1>5
<1>6. CASE at \in 1..n
  <2> DEFINE l == at - 1
             o == 1
  <2>1. o \in Nat /\ l \in Nat /\ 1 <= o /\ o <= l + 1 /\ l <= Len(s) /\ at # 0
    BY <1>3, <1>6
  <2>2. Until(s, at) = SubSeq(s, o, l)
    BY DEF Until
  <2> HIDE DEF l, o
  <2>3. SubSeq(s, o, l) \in Seq(S)
    BY <2>1, SubSeqFacts
  <2> QED
    BY <1>4, <2>1, <2>2, <2>3
<1> QED
  BY <1>2, <1>5, <1>6

LEMMA LineParsed ==
  ASSUME NEW w, IsWritten(w)
  PROVE  LET verdict == ParseLine(LineOf(w))
         IN  /\ verdict \in {Ok(Meaning(w)), Err, Panic}
             /\ Comma \notin ToSet(w.text) /\ (w.timed \/ Space \notin ToSet(w.text)) => verdict.is = "ok"
<1> DEFINE e == Escape(w.text)
           f == FieldsOf(w)
           rest == f \o TimeOf(w)
           line == LineOf(w)
           space == FirstAt(line, Space)
           head == Until(line, space)
           comma == FirstAt(head, Comma)
           measurement == IF comma = 0 THEN head ELSE Until(head, comma)
           tail == SplitTime(Behind(line, space))
           tags == ParseTags(IF comma = 0 THEN <<>> ELSE Behind(head, comma))
           fields == ParseFields(tail.fields)
           time == ParseTimestamp(tail.time)
           verdict == ParseLine(line)
           all == [measurement |-> measurement, tags |-> tags.value, fields |-> fields.value, time |-> time.value]
<1>1. verdict = IF space = 0 \/ measurement = <<>> THEN Err
               ELSE IF tags.is # "ok" THEN tags
               ELSE IF fields.is # "ok" THEN fields
               ELSE IF time.is # "ok" THEN time
               ELSE Ok(all)
  BY DEF ParseLine
<1>2. /\ rest \in Seq(LineTokens)
      /\ \/ SplitTime(rest).fields = f /\ ParseTimestamp(SplitTime(rest).time) = Ok(Meaning(w).time)
         \/ /\ ParseTimestamp(SplitTime(rest).time) = Err /\ ~w.timed
            /\ \E j \in 1..Len(e) : e[j] = Space
  BY TailFacts
<1>3. line = SeriesOf(w) \o <<Space>> \o rest
  BY DEF LineOf
<1> HIDE DEF rest, line, verdict
<1>4. space # 0 /\ head = SeriesOf(w) /\ Behind(line, space) = rest
  BY <1>2, <1>3, SeriesFacts
<1>5. measurement = <<"m">> /\ tags = Ok(Meaning(w).tags)
  <2> HIDE DEF head
  <2> QED
    BY <1>4, HeadFacts
<1>6. tail = SplitTime(rest)
  BY <1>4
<1> HIDE DEF space, head, comma, measurement, tags, tail
<1>7. measurement # <<>> /\ tags.is = "ok" /\ tags.value = Meaning(w).tags
  BY <1>5, Verdicts
<1>8. \/ tail.fields = f /\ time = Ok(Meaning(w).time)
      \/ time = Err /\ ~w.timed /\ \E j \in 1..Len(e) : e[j] = Space
  BY <1>2, <1>6
<1>9. \A j \in 1..Len(e) : e[j] = Backslash \/ e[j] \in ToSet(w.text)
  <2>1. w.text \in Seq(TextTokens)
    BY DEF IsWritten
  <2>2. \A j \in 1..Len(e) : e[j] = Backslash \/ \E i \in 1..Len(w.text) : w.text[i] = e[j]
    BY <2>1, EscapeFacts
  <2>3. DOMAIN w.text = 1..Len(w.text)
    BY <2>1
  <2> HIDE DEF e
  <2> QED
    BY <2>2, <2>3 DEF ToSet
<1>10. fields.is = "ok" \/ fields \in {Err, Panic}
  <2> DEFINE typed == TRUE
             s == tail.fields
  <2>1. s \in Seq(LineTokens)
    BY <1>2, <1>6, SplitSeq
  <2> HIDE DEF s
  <2>2. Len(Pieces(s)) \in Nat
    BY <2>1, PiecesLen
  <2>3. ParseFields(s) = IF ParsePairs(s, typed) = Ok({}) THEN Err ELSE ParsePairs(s, typed)
    BY DEF ParseFields
  <2> HIDE DEF typed
  <2>4. /\ ParsePairs(s, typed).is = "ok" \/ ParsePairs(s, typed) \in {Err, Panic}
        /\ \A k \in 1..Len(Pieces(s)) :
             ParsePair(Pieces(s)[k], typed).is # "ok" => ParsePairs(s, typed).is # "ok"
    BY <2>2, ParsedBad
  <2> QED
    BY <2>3, <2>4 DEF s
<1>11. /\ (\E j \in 1..Len(e) : e[j] = Comma) => ParseFields(f).is # "ok"
       /\ (\A j \in 1..Len(e) : e[j] # Comma) => ParseFields(f) = Ok(Meaning(w).fields)
  <2>1. w.text \in Seq(TextTokens) /\ w.number \in NumberTokens \cup {"none"}
    BY DEF IsWritten
  <2>2. (\E j \in 1..Len(e) : e[j] = Comma) => ParseFields(f).is # "ok"
    BY <2>1, FieldsRefused
  <2>4. (\A j \in 1..Len(e) : e[j] # Comma) => ParseFields(f) = Ok(Meaning(w).fields)
    BY <2>1, FieldsParsed
  <2> QED
    BY <2>2, <2>4
<1> HIDE DEF e, f, fields, time
<1>12. Meaning(w) = [measurement |-> <<"m">>, tags |-> Meaning(w).tags,
                     fields |-> Meaning(w).fields, time |-> Meaning(w).time]
  BY DEF Meaning
<1>13. Backslash # Space /\ Backslash # Comma
  BY TokenFacts
<1>14. (\E j \in 1..Len(e) : e[j] = Comma) => Comma \in ToSet(w.text)
  BY <1>9, <1>13
<1>15. verdict = IF fields.is # "ok" THEN fields ELSE IF time.is # "ok" THEN time ELSE Ok(all)
  BY <1>1, <1>4, <1>7
<1>16. CASE time = Err /\ ~w.timed /\ \E j \in 1..Len(e) : e[j] = Space
  <2>1. Space \in ToSet(w.text) /\ ~w.timed
    BY <1>9, <1>13, <1>16
  <2>2. time.is # "ok"
    BY <1>16, Verdicts
  <2>3. verdict \in {Err, Panic}
    BY <1>10, <1>15, <1>16, <2>2
  <2> QED
    BY <2>1, <2>3 DEF verdict, line
<1>17. CASE tail.fields = f /\ time = Ok(Meaning(w).time)
  <2>1. fields = ParseFields(f)
    BY <1>17 DEF fields
  <2>2. time.is = "ok" /\ time.value = Meaning(w).time
    BY <1>17, Verdicts
  <2>3. CASE \E j \in 1..Len(e) : e[j] = Comma
    <3>1. fields.is # "ok" /\ fields \in {Err, Panic}
      BY <1>10, <1>11, <2>1, <2>3
    <3>2. verdict \in {Err, Panic} /\ Comma \in ToSet(w.text)
      BY <1>14, <1>15, <2>3, <3>1
    <3> QED
      BY <3>2 DEF verdict, line
  <2>4. CASE \A j \in 1..Len(e) : e[j] # Comma
    <3>1. fields = Ok(Meaning(w).fields)
      BY <1>11, <2>1, <2>4
    <3>2. fields.is = "ok" /\ fields.value = Meaning(w).fields
      BY <3>1, Verdicts
    <3>3. all = Meaning(w)
      BY <1>5, <1>7, <1>12, <2>2, <3>2
    <3>4. verdict = Ok(Meaning(w))
      BY <1>15, <2>2, <3>2, <3>3
    <3>5. verdict.is = "ok"
      BY <3>4, Verdicts
    <3> QED
      BY <3>4, <3>5 DEF verdict, line
  <2> QED
    BY <2>3, <2>4
<1> QED
  BY <1>8, <1>16, <1>17

\* A line that the parser takes is the line that the client means: of every
\* line with a string of any length and any of the characters that the format
\* gives a meaning, parse returns what was meant, an error, or does not return;
\* and it returns what was meant unless the string has a comma, or a space with
\* no timestamp behind the fields.
THEOREM LinesAreNotMistaken == LinesSpec => []LineNotMistaken
<1> DEFINE Inv == IsWritten(written) /\ LineNotMistaken
<1>1. LinesInit => Inv
  <2> SUFFICES ASSUME LinesInit PROVE Inv
    OBVIOUS
  <2>1. parsed.is = "unparsed"
    BY DEF LinesInit
  <2>2. IsWritten(written)
    BY LinesAssumption DEF LinesInit, IsWritten
  <2> QED
    BY <2>1, <2>2 DEF LineNotMistaken
<1>2. Inv /\ [LinesNext]_lineVars => Inv'
  <2> SUFFICES ASSUME Inv, [LinesNext]_lineVars PROVE Inv'
    OBVIOUS
  <2>1. CASE ParseWritten
    <3>1. IsWritten(written) /\ written' = written /\ parsed' = ParseLine(LineOf(written))
      BY <2>1 DEF ParseWritten
    <3>2. /\ ParseLine(LineOf(written)) \in {Ok(Meaning(written)), Err, Panic}
          /\ Comma \notin ToSet(written.text) /\ (written.timed \/ Space \notin ToSet(written.text))
               => ParseLine(LineOf(written)).is = "ok"
      BY <3>1, LineParsed
    <3> QED
      BY <3>1, <3>2 DEF LineNotMistaken, Occurs
  <2>2. CASE UNCHANGED lineVars
    BY <2>2 DEF lineVars, LineNotMistaken, Occurs
  <2> QED
    BY <2>1, <2>2 DEF LinesNext
<1>3. Inv => LineNotMistaken
  OBVIOUS
<1> QED
  BY <1>1, <1>2, <1>3, PTL DEF LinesSpec

-----------------------------------------------------------------------------
(* Remote: what the decoders make of the bytes that arrive. *)

\* What is left of a number is shifted seven bits a round.
LEMMA ShiftedRounds ==
  ASSUME NEW n \in Nat
  PROVE  /\ Shifted(n) \in [0..9 -> Nat] /\ Shifted(n)[0] = n
         /\ \A i \in 1..9 : Shifted(n)[i] = Shifted(n)[i - 1] \div 128
<1> DEFINE nine == 9
           N == Nat
           step == [i \in 1..nine |-> [x \in N |-> x \div 128]]
           Rounds(p) == [i \in 0..nine |-> IF i = 0 THEN n ELSE p[i - 1] \div 128]
           f == CHOOSE p : p = Rounds(p)
<1>1. nine \in Nat /\ n \in N /\ \A x \in N : x \div 128 \in N
  OBVIOUS
<1>2. step \in [1..nine -> [N -> N]] /\ \A i \in 1..nine, x \in N : step[i][x] = x \div 128
  BY <1>1
<1>3. Shifted(n) = f
  BY DEF Shifted
<1> HIDE DEF step, N
<1>4. PICK g : IsLoop(g, nine, N, n, step)
  <2> HIDE DEF nine
  <2> QED
    BY ONLY <1>1, <1>2, LoopExists
<1>5. g \in [0..nine -> N] /\ g[0] = n /\ \A i \in 1..nine : g[i] = g[i - 1] \div 128
  <2>1. \A i \in 1..nine : i - 1 \in 0..nine
    BY <1>1
  <2> QED
    BY <1>2, <1>4, <2>1 DEF IsLoop
<1>6. g = Rounds(g)
  <2>1. \A i \in 0..nine : g[i] = Rounds(g)[i]
    BY <1>1, <1>5
  <2> QED
    BY <1>5, <2>1
<1>7. f = Rounds(f)
  <2> HIDE DEF Rounds
  <2> QED
    BY <1>6
<1> HIDE DEF f
<1>8. /\ f[0] = n /\ \A i \in 1..nine : f[i] = f[i - 1] \div 128
      /\ DOMAIN f = 0..nine /\ f = [i \in 0..nine |-> f[i]]
  BY <1>1, <1>7
<1>9. \A i \in 0..nine : f[i] = g[i]
  <2>1. f[0] = n /\ \A i \in 1..nine : f[i - 1] \in N => f[i] = step[i][f[i - 1]]
    BY <1>2, <1>8
  <2> HIDE DEF nine
  <2> QED
    BY ONLY <1>1, <1>4, <2>1, LoopUnique
<1>10. \A i \in 0..nine : f[i] \in N
  BY <1>5, <1>9
<1>11. f \in [0..nine -> N]
  BY <1>8, <1>10
<1> QED
  BY <1>3, <1>8, <1>11 DEF N

\* The smaller of two numbers is left with no more.
LEMMA ShortBelow ==
  ASSUME NEW m \in Nat, NEW n \in Nat, m <= n, IsShort(n)
  PROVE  IsShort(m)
<1> DEFINE Good == {i \in 0..9 : Shifted(m)[i] <= Shifted(n)[i]}
           nine == 9
           zero == 0
<1>1. \A x, y \in Nat : x <= y => x \div 128 <= y \div 128
  OBVIOUS
<1>2. zero \in Good
  BY ShiftedRounds
<1>3. ASSUME NEW i \in (zero + 1)..nine, i - 1 \in Good PROVE i \in Good
  <2>1. i \in 1..9 /\ i \in 0..9 /\ i - 1 \in 0..9 /\ Shifted(m)[i - 1] <= Shifted(n)[i - 1]
    BY <1>3
  <2>2. Shifted(m)[i - 1] \in Nat /\ Shifted(n)[i - 1] \in Nat
    BY <2>1, ShiftedRounds
  <2>3. Shifted(m)[i] = Shifted(m)[i - 1] \div 128 /\ Shifted(n)[i] = Shifted(n)[i - 1] \div 128
    BY <2>1, ShiftedRounds
  <2> QED
    BY <1>1, <2>1, <2>2, <2>3
<1>4. zero..nine \subseteq Good
  <2>1. zero \in Nat /\ nine \in Nat
    OBVIOUS
  <2> HIDE DEF Good, nine, zero
  <2> QED
    BY ONLY <1>2, <1>3, <2>1, RoundInduction
<1>5. 6 \in Good
  BY <1>4
<1>6. Shifted(m)[6] \in Nat /\ Shifted(n)[6] \in Nat
  BY ShiftedRounds
<1> QED
  BY <1>5, <1>6 DEF IsShort

\* A number has groups up to the first that is small enough to be the last.
LEMMA GroupsFacts ==
  ASSUME NEW n \in Nat
  PROVE  /\ Groups(n) \in 1..10
         /\ \A i \in 1..(Groups(n) - 1) : Shifted(n)[i - 1] >= 128
         /\ IsShort(n) => Groups(n) <= 7 /\ Shifted(n)[Groups(n) - 1] < 128
<1> DEFINE S == {k \in 1..10 : k = 10 \/ Shifted(n)[k - 1] < 128}
<1>1. S \subseteq Nat /\ 10 \in S
  OBVIOUS
<1>2. PICK x \in S : \A y \in S : x <= y
  <2> HIDE DEF S
  <2> QED
    BY <1>1, LeastExists
<1>3. Groups(n) \in S /\ \A y \in S : Groups(n) <= y
  <2>1. Groups(n) = Least(S)
    BY DEF Groups
  <2>2. S \subseteq Int
    BY <1>1
  <2> HIDE DEF S
  <2>3. Least(S) \in S /\ \A y \in S : Least(S) <= y
    BY <1>2, <2>2, LeastIs
  <2> QED
    BY <2>1, <2>3
<1>4. \A i \in 1..(Groups(n) - 1) : Shifted(n)[i - 1] >= 128
  <2> SUFFICES ASSUME NEW i \in 1..(Groups(n) - 1) PROVE Shifted(n)[i - 1] >= 128
    OBVIOUS
  <2>1. i \in 1..10 /\ i - 1 \in 0..9 /\ i \notin S
    BY <1>3
  <2>2. Shifted(n) \in [0..9 -> Nat]
    BY ShiftedRounds
  <2>3. Shifted(n)[i - 1] \in Nat
    BY ONLY <2>1, <2>2
  <2> QED
    BY <2>1, <2>3
<1>5. ASSUME IsShort(n) PROVE Groups(n) <= 7 /\ Shifted(n)[Groups(n) - 1] < 128
  <2>1. 7 \in S
    BY <1>5 DEF IsShort
  <2> QED
    BY <1>3, <2>1
<1> QED
  BY <1>3, <1>4, <1>5

LEMMA EncodedVarint ==
  ASSUME NEW n \in Nat
  PROVE  /\ EncodeVarint(n) \in Seq(Nat) /\ Len(EncodeVarint(n)) = Groups(n)
         /\ \A i \in 1..(Groups(n) - 1) : EncodeVarint(n)[i] = 128 + (Shifted(n)[i - 1] % 128)
         /\ EncodeVarint(n)[Groups(n)] = Shifted(n)[Groups(n) - 1]
<1> DEFINE g == Groups(n)
           e == EncodeVarint(n)
<1>1. g \in 1..10
  BY GroupsFacts
<1>2. \A i \in 1..g : Shifted(n)[i - 1] \in Nat
  <2> HIDE DEF g
  <2>1. Shifted(n) \in [0..9 -> Nat]
    BY ShiftedRounds
  <2>2. \A i \in 1..g : i - 1 \in 0..9
    BY <1>1
  <2> QED
    BY <2>1, <2>2
<1>3. e = [i \in 1..g |-> IF i < g THEN 128 + (Shifted(n)[i - 1] % 128) ELSE Shifted(n)[i - 1]]
  BY DEF EncodeVarint
<1> HIDE DEF g, e
<1>4. \A i \in 1..g : (IF i < g THEN 128 + (Shifted(n)[i - 1] % 128) ELSE Shifted(n)[i - 1]) \in Nat
  BY <1>2
<1>5. e \in [1..g -> Nat]
  BY <1>3, <1>4
<1>6. e \in Seq(Nat) /\ Len(e) = g
  BY <1>1, <1>5
<1>7. \A i \in 1..(g - 1) : e[i] = 128 + (Shifted(n)[i - 1] % 128)
  <2>1. \A i \in 1..(g - 1) : i \in 1..g /\ i < g
    BY <1>1
  <2> QED
    BY <1>3, <2>1
<1>8. e[g] = Shifted(n)[g - 1]
  BY <1>1, <1>3
<1> QED
  BY <1>6, <1>7, <1>8 DEF g, e

\* Data that has a piece at some place.
Holds(data, at, piece) ==
  at + Len(piece) <= Len(data) /\ \A k \in 1..Len(piece) : data[at + k] = piece[k]

LEMMA BytesOfVarintIs ==
  ASSUME NEW data \in Seq(Nat), NEW at \in Nat, NEW n \in Nat, IsShort(n), Holds(data, at, EncodeVarint(n))
  PROVE  BytesOfVarint(data, at) = Groups(n)
<1> DEFINE g == Groups(n)
           ends == {k \in 1..10 : at + k <= Len(data) /\ data[at + k] < 128}
           e == EncodeVarint(n)
           left == Shifted(n)
<1>10. /\ Groups(n) \in 1..10
       /\ \A i \in 1..(Groups(n) - 1) : Shifted(n)[i - 1] >= 128
       /\ IsShort(n) => Groups(n) <= 7 /\ Shifted(n)[Groups(n) - 1] < 128
  BY GroupsFacts
<1>1. g \in 1..7 /\ left[g - 1] < 128
  BY <1>10
<1>20. Len(e) = g /\ e[g] = left[g - 1] /\ \A i \in 1..(g - 1) : e[i] = 128 + (left[i - 1] % 128)
  BY EncodedVarint
<1>21. \A i \in 0..9 : left[i] \in Nat
  BY ShiftedRounds
<1>22. at + Len(e) <= Len(data) /\ \A k \in 1..Len(e) : data[at + k] = e[k]
  BY DEF Holds
<1>23. g = Groups(n)
  OBVIOUS
<1> HIDE DEF g, e, left
<1>2. at + g <= Len(data) /\ \A k \in 1..g : data[at + k] = e[k]
  BY <1>20, <1>22
<1>3. g \in ends
  <2>1. data[at + g] = left[g - 1]
    BY <1>1, <1>2, <1>20
  <2> QED
    BY <1>1, <1>2, <2>1
<1>4. \A k \in ends : g <= k
  <2> SUFFICES ASSUME NEW k \in ends, k < g PROVE FALSE
    BY <1>1
  <2>1. k \in 1..(g - 1) /\ k \in 1..g /\ k - 1 \in 0..9
    BY <1>1
  <2>2. data[at + k] = 128 + (left[k - 1] % 128) /\ left[k - 1] \in Nat
    BY <1>2, <1>20, <1>21, <2>1
  <2>3. data[at + k] >= 128
    BY <2>2
  <2> QED
    BY <2>3
<1>5. BytesOfVarint(data, at) = IF ends = {} THEN 0 ELSE Least(ends)
  BY DEF BytesOfVarint
<1>6. ends \subseteq Int
  OBVIOUS
<1> HIDE DEF ends
<1>7. Least(ends) \in ends /\ \A y \in ends : Least(ends) <= y
  BY ONLY <1>3, <1>4, <1>6, LeastIs
<1>8. Least(ends) = g
  <2>1. Least(ends) <= g /\ g <= Least(ends) /\ Least(ends) \in Int
    BY ONLY <1>3, <1>4, <1>6, <1>7
  <2> QED
    BY <1>1, <2>1
<1> QED
  BY <1>3, <1>5, <1>8, <1>23

\* The bytes of a number are read back to it.
LEMMA VarintIs ==
  ASSUME NEW data \in Seq(Nat), NEW at \in Nat, NEW n \in Nat, IsShort(n), Holds(data, at, EncodeVarint(n))
  PROVE  Varint(data, at) = [ok |-> TRUE, next |-> at + Groups(n), value |-> n]
<1> DEFINE g == Groups(n)
           N == Nat
           zero == 0
           low(j) == data[at + g + 1 - j] % 128
           step == [j \in 1..g |-> [x \in N |-> x * 128 + low(j)]]
           Rounds(p) == [j \in 0..g |-> IF j = 0 THEN 0 ELSE p[j - 1] * 128 + low(j)]
           f == CHOOSE p : p = Rounds(p)
           e == EncodeVarint(n)
           left == Shifted(n)
<1>1. g \in 1..7 /\ g \in Nat /\ left[g - 1] < 128
  BY GroupsFacts
<1> HIDE DEF low
<1>20. Len(e) = g /\ e[g] = left[g - 1] /\ \A i \in 1..(g - 1) : e[i] = 128 + (left[i - 1] % 128)
  BY EncodedVarint
<1>21. left[0] = n /\ (\A i \in 0..9 : left[i] \in Nat) /\ \A i \in 1..9 : left[i] = left[i - 1] \div 128
  BY ShiftedRounds
<1>22. at + Len(e) <= Len(data) /\ \A k \in 1..Len(e) : data[at + k] = e[k]
  BY DEF Holds
<1>23. g = Groups(n)
  OBVIOUS
<1>4. BytesOfVarint(data, at) = g
  BY BytesOfVarintIs
<1>5. Varint(data, at) = [ok |-> g > 0, next |-> at + g, value |-> f[g]]
  <2>1. Varint(data, at) = [ok |-> BytesOfVarint(data, at) > 0, next |-> at + BytesOfVarint(data, at),
          value |-> (CHOOSE total : total = [j \in 0..BytesOfVarint(data, at) |->
                       IF j = 0 THEN 0
                       ELSE total[j - 1] * 128 + (data[at + BytesOfVarint(data, at) + 1 - j] % 128)])[BytesOfVarint(data, at)]]
    BY DEF Varint
  <2> QED
    BY <1>4, <2>1 DEF f, low, g
<1> HIDE DEF g, e, left, f
<1>2. at + g <= Len(data) /\ \A k \in 1..g : data[at + k] = e[k]
  BY <1>20, <1>22
<1>24. \A j \in 1..g : low(j) = data[at + g + 1 - j] % 128
  BY DEF low
<1>3. \A j \in 1..g : low(j) = left[g - j] % 128 /\ low(j) \in 0..127
  <2> SUFFICES ASSUME NEW j \in 1..g PROVE low(j) = left[g - j] % 128 /\ low(j) \in 0..127
    OBVIOUS
  <2> DEFINE i == g + (1 - j)
  <2>1. i \in 1..g /\ at + g + 1 - j = at + i /\ i - 1 = g - j /\ i - 1 \in 0..9
    BY <1>1
  <2>2. left[i - 1] \in Nat
    BY <2>1, <1>21
  <2> HIDE DEF i
  <2>3. low(j) = e[i] % 128
    <3>1. low(j) = data[at + i] % 128
      BY <1>24, <2>1
    <3>2. data[at + i] = e[i]
      BY <1>2, <2>1
    <3> QED
      BY <3>1, <3>2
  <2>6. \A x \in Nat : x % 128 \in 0..127 /\ (x < 128 => x % 128 = x)
    OBVIOUS
  <2>4. CASE i = g
    <3>1. e[i] = left[i - 1]
      BY <2>4, <1>20
    <3>2. low(j) = left[i - 1] % 128
      BY <2>3, <3>1
    <3>3. low(j) \in 0..127
      BY <2>2, <2>6, <3>2
    <3> QED
      BY ONLY <2>1, <3>2, <3>3
  <2>5. CASE i # g
    <3>1. e[i] = 128 + (left[i - 1] % 128)
      BY <1>1, <2>1, <2>5, <1>20
    <3>2. \A x \in Nat : (128 + (x % 128)) % 128 = x % 128
      OBVIOUS
    <3>3. low(j) = left[i - 1] % 128
      BY <2>2, <2>3, <3>1, <3>2
    <3>4. low(j) \in 0..127
      BY <2>2, <2>6, <3>3
    <3> QED
      BY ONLY <2>1, <3>3, <3>4
  <2> QED
    BY <2>4, <2>5
<1>6. \A j \in 1..g, x \in N : x * 128 + low(j) \in N
  <2>1. \A x \in Nat, y \in 0..127 : x * 128 + y \in Nat
    OBVIOUS
  <2> QED
    BY <1>3, <2>1
<1>7. zero \in N /\ step \in [1..g -> [N -> N]] /\ \A j \in 1..g, x \in N : step[j][x] = x * 128 + low(j)
  BY <1>6
<1> HIDE DEF step, N
<1>8. PICK h : IsLoop(h, g, N, zero, step)
  <2> HIDE DEF zero
  <2> QED
    BY ONLY <1>1, <1>7, LoopExists
<1>9. h \in [0..g -> N] /\ h[0] = 0 /\ \A j \in 1..g : h[j] = h[j - 1] * 128 + low(j)
  <2>1. \A j \in 1..g : j - 1 \in 0..g
    BY <1>1
  <2> QED
    BY <1>7, <1>8, <2>1 DEF IsLoop
<1>10. h = Rounds(h)
  <2>1. \A j \in 0..g : h[j] = Rounds(h)[j]
    BY <1>1, <1>9
  <2> QED
    BY <1>9, <2>1
<1>11. f = Rounds(f)
  <2> HIDE DEF Rounds
  <2> QED
    BY <1>10 DEF f
<1>12. f[0] = 0 /\ \A j \in 1..g : f[j] = f[j - 1] * 128 + low(j)
  <2> HIDE DEF f
  <2>1. f = [j \in 0..g |-> IF j = 0 THEN 0 ELSE f[j - 1] * 128 + low(j)]
    BY <1>11
  <2>2. 0 \in 0..g /\ \A j \in 1..g : j \in 0..g /\ j # 0
    BY <1>1
  <2> HIDE DEF Rounds
  <2> QED
    BY ONLY <2>1, <2>2
<1>13. g \in {j \in 1..g : f[j] = left[g - j]}
  <2> DEFINE Good == {j \in 1..g : f[j] = left[g - j]}
             one == 1
  <2>1. one \in Good
    <3>1. f[1] = 0 * 128 + low(1) /\ low(1) = left[g - 1] % 128 /\ left[g - 1] \in Nat
      <4>1. 1 \in 1..g /\ g - 1 \in 0..9
        BY <1>1
      <4>2. f[1] = f[1 - 1] * 128 + low(1) /\ f[1 - 1] = 0
        BY <1>12, <4>1
      <4>3. low(1) = left[g - 1] % 128 /\ left[g - 1] \in Nat
        BY <1>3, <1>21, <4>1
      <4> QED
        BY <4>2, <4>3
    <3>2. f[1] = left[g - 1]
      <4>1. \A x \in Nat : x < 128 => 0 * 128 + (x % 128) = x
        OBVIOUS
      <4>2. left[g - 1] < 128
        BY <1>1
      <4> QED
        BY ONLY <3>1, <4>1, <4>2
    <3> QED
      BY <1>1, <3>2
  <2>2. ASSUME NEW j \in (one + 1)..g, j - 1 \in Good PROVE j \in Good
    <3>1. j \in 1..g /\ f[j - 1] = left[g - (j - 1)] /\ g - (j - 1) \in 1..9 /\ g - j \in 0..9
      BY <1>1, <2>2
    <3>2. g - (j - 1) - 1 = g - j
      BY <1>1, <3>1
    <3>3. left[g - (j - 1)] = left[g - j] \div 128 /\ left[g - j] \in Nat
      BY <3>1, <3>2, <1>21
    <3>4. f[j] = f[j - 1] * 128 + (left[g - j] % 128)
      BY <1>3, <1>12, <3>1
    <3>5. \A x \in Nat : (x \div 128) * 128 + (x % 128) = x
      OBVIOUS
    <3> QED
      BY <3>1, <3>3, <3>4, <3>5
  <2>3. one..g \subseteq Good
    <3>1. one \in Nat /\ g \in Nat
      BY <1>1
    <3> HIDE DEF one, Good
    <3> QED
      BY ONLY <2>1, <2>2, <3>1, RoundInduction
  <2> QED
    BY <1>1, <2>3
<1>14. f[g] = n
  <2>1. f[g] = left[g - g] /\ g - g = 0
    BY <1>1, <1>13
  <2> QED
    BY <1>21, <2>1
<1>15. (g > 0) = TRUE
  BY <1>1
<1> QED
  BY <1>5, <1>14, <1>15, <1>23

\* The places of two sequences in the one they make.
IsBehind(all, s, t) ==
  /\ Len(all) = Len(s) + Len(t)
  /\ \A k \in 1..Len(s) : all[k] = s[k]
  /\ \A k \in 1..Len(t) : all[Len(s) + k] = t[k]

LEMMA BehindFacts ==
  ASSUME NEW S, NEW s \in Seq(S), NEW t \in Seq(S)
  PROVE  s \o t \in Seq(S) /\ IsBehind(s \o t, s, t)
<1>1. Len(s) \in Nat /\ Len(t) \in Nat
  OBVIOUS
<1>2. /\ s \o t \in Seq(S) /\ Len(s \o t) = Len(s) + Len(t)
      /\ \A i \in 1..(Len(s) + Len(t)) : (s \o t)[i] = IF i <= Len(s) THEN s[i] ELSE t[i - Len(s)]
  BY ConcatProperties
<1>3. \A k \in 1..Len(s) : (s \o t)[k] = s[k]
  BY <1>1, <1>2
<1>4. \A k \in 1..Len(t) : (s \o t)[Len(s) + k] = t[k]
  <2>1. \A k \in 1..Len(t) : Len(s) + k \in 1..(Len(s) + Len(t)) /\ ~(Len(s) + k <= Len(s)) /\ (Len(s) + k) - Len(s) = k
    BY <1>1
  <2> QED
    BY <1>2, <2>1
<1> QED
  BY <1>2, <1>3, <1>4 DEF IsBehind

Numbers == Seq(Nat)
PartSet == [field : Nat, wire : {1, 2}, bytes : Numbers]

\* The bytes in front of the content of a part: its tag and its length, if it has one.
HeadOf(part) == IF part.wire = 2 THEN 1 + Groups(Len(part.bytes)) ELSE 1

IsFrame(f, part) ==
  /\ f \in Numbers /\ Len(f) = HeadOf(part) + Len(part.bytes)
  /\ f[1] = 8 * part.field + part.wire
  /\ part.wire = 2 =>
       \A k \in 1..Groups(Len(part.bytes)) : f[1 + k] = EncodeVarint(Len(part.bytes))[k]
  /\ \A k \in 1..Len(part.bytes) : f[HeadOf(part) + k] = part.bytes[k]

LEMMA FramesAre ==
  ASSUME NEW part \in PartSet
  PROVE  IsFrame(Framed(part), part) /\ HeadOf(part) \in Nat \ {0}
<1> DEFINE bytes == part.bytes
           n == Len(bytes)
           prefix == IF part.wire = 2 THEN EncodeVarint(n) ELSE <<>>
           tag == <<8 * part.field + part.wire>>
           rest == prefix \o bytes
           f == Framed(part)
           h == Len(prefix)
<1>1. bytes \in Seq(Nat) /\ n \in Nat /\ part.field \in Nat /\ part.wire \in {1, 2}
  BY DEF PartSet, Numbers
<1>2. tag \in Seq(Nat) /\ Len(tag) = 1 /\ tag[1] = 8 * part.field + part.wire
  <2>1. 8 * part.field + part.wire \in Nat
    BY <1>1
  <2> QED
    BY <2>1
<1>3. prefix \in Seq(Nat) /\ h \in Nat /\ HeadOf(part) = 1 + h
  <2>1. CASE part.wire = 2
    <3>1. prefix = EncodeVarint(n) /\ HeadOf(part) = 1 + Groups(n)
      BY <2>1 DEF HeadOf
    <3>2. EncodeVarint(n) \in Seq(Nat) /\ Len(EncodeVarint(n)) = Groups(n)
      BY <1>1, EncodedVarint
    <3> QED
      BY <3>1, <3>2, LenProperties
  <2>2. CASE part.wire # 2
    <3>1. prefix = <<>> /\ HeadOf(part) = 1
      BY <2>2 DEF HeadOf
    <3>2. <<>> \in Seq(Nat) /\ Len(<<>>) = 0 /\ h = Len(prefix)
      OBVIOUS
    <3> HIDE DEF prefix, h
    <3>3. h = 0 /\ prefix \in Seq(Nat)
      BY <3>1, <3>2
    <3> QED
      BY <3>1, <3>3
  <2> QED
    BY <2>1, <2>2
<1>4. f = tag \o rest
  BY DEF Framed
<1>5. part.wire = 2 => prefix = EncodeVarint(n) /\ h = Groups(n)
  BY <1>1, EncodedVarint
<1> HIDE DEF prefix, tag, f, h, n, bytes
<1>6. /\ rest \in Seq(Nat) /\ Len(rest) = h + n
      /\ \A k \in 1..h : rest[k] = prefix[k]
      /\ \A k \in 1..n : rest[h + k] = bytes[k]
  BY <1>1, <1>3, BehindFacts DEF h, n, IsBehind
<1> HIDE DEF rest
<1>7. /\ f \in Seq(Nat) /\ Len(f) = 1 + (h + n) /\ f[1] = tag[1]
      /\ \A k \in 1..(h + n) : f[1 + k] = rest[k]
  <2>1. tag \o rest \in Seq(Nat) /\ IsBehind(tag \o rest, tag, rest)
    BY ONLY <1>2, <1>6, BehindFacts
  <2> QED
    BY <1>2, <1>4, <1>6, <2>1 DEF IsBehind
<1>8. \A k \in 1..h : f[1 + k] = prefix[k]
  <2>1. \A k \in 1..h : k \in 1..(h + n)
    BY <1>1, <1>3
  <2> QED
    BY <1>6, <1>7, <2>1
<1>9. \A k \in 1..n : f[(1 + h) + k] = bytes[k]
  <2>1. \A k \in 1..n : h + k \in 1..(h + n) /\ 1 + (h + k) = (1 + h) + k
    BY <1>1, <1>3
  <2> QED
    BY <1>6, <1>7, <2>1
<1>10. Len(f) = HeadOf(part) + n /\ HeadOf(part) \in Nat \ {0}
  BY <1>1, <1>3, <1>7
<1> QED
  BY <1>2, <1>3, <1>5, <1>7, <1>8, <1>9, <1>10 DEF IsFrame, Numbers, f, n, bytes

\* Lists one behind the other are where the ones before them end.
IsPlaced(g, lists, all) ==
  \A i \in 1..Len(lists) :
    /\ Len(g[i]) = Len(g[i - 1]) + Len(lists[i])
    /\ \A k \in 1..Len(lists[i]) : all[Len(g[i - 1]) + k] = lists[i][k]

LEMMA JoinedPlaces ==
  ASSUME NEW S, NEW lists \in Seq(Seq(S)), NEW g, IsJoined(g, S, lists)
  PROVE  /\ Joined(lists) \in Seq(S) /\ g[Len(lists)] = Joined(lists)
         /\ IsPlaced(g, lists, Joined(lists))
         /\ \A i, j \in 0..Len(lists) : i <= j => Len(g[i]) <= Len(g[j])
<1> DEFINE n == Len(lists)
           T == Seq(S)
           Good == {j \in 0..n : \A i \in 0..j : /\ Len(g[i]) <= Len(g[j])
                                                 /\ \A k \in 1..Len(g[i]) : g[j][k] = g[i][k]}
           zero == 0
<1>1. n \in Nat /\ \A i \in 1..n : lists[i] \in T /\ i - 1 \in 0..n /\ i \in 0..n
  OBVIOUS
<1>2. /\ g \in [0..n -> T] /\ Joined(lists) = g[n]
      /\ \A i \in 1..n : g[i] = g[i - 1] \o lists[i]
  BY DEF IsJoined
<1>3. \A s \in T : Len(s) \in Nat
  BY LenProperties
<1>4. ASSUME NEW i \in 1..n
      PROVE  /\ Len(g[i]) = Len(g[i - 1]) + Len(lists[i])
             /\ \A k \in 1..Len(g[i - 1]) : g[i][k] = g[i - 1][k]
             /\ \A k \in 1..Len(lists[i]) : g[i][Len(g[i - 1]) + k] = lists[i][k]
  <2>1. g[i - 1] \in Seq(S) /\ lists[i] \in Seq(S) /\ g[i] = g[i - 1] \o lists[i]
    BY <1>1, <1>2
  <2>2. IsBehind(g[i - 1] \o lists[i], g[i - 1], lists[i])
    BY ONLY <2>1, BehindFacts
  <2> QED
    BY ONLY <2>1, <2>2 DEF IsBehind
<1> HIDE DEF T, n
<1>5. \A i \in 0..n : g[i] \in T /\ Len(g[i]) \in Nat
  BY <1>2, <1>3
<1>6. zero \in Good
  BY <1>1, <1>5
<1>7. ASSUME NEW j \in (zero + 1)..n, j - 1 \in Good PROVE j \in Good
  <2>1. j \in 1..n /\ j \in 0..n /\ j - 1 \in 0..n
    BY <1>1, <1>7
  <2>2. Len(lists[j]) \in Nat
    BY <1>1, <1>3, <2>1
  <2> SUFFICES ASSUME NEW i \in 0..j
               PROVE  Len(g[i]) <= Len(g[j]) /\ \A k \in 1..Len(g[i]) : g[j][k] = g[i][k]
    BY <2>1
  <2>3. i \in 0..n /\ Len(g[i]) \in Nat /\ Len(g[j - 1]) \in Nat
    BY <1>1, <1>5, <2>1
  <2>4. CASE i = j
    BY <1>5, <2>1, <2>4
  <2>5. CASE i # j
    <3>1. i \in 0..(j - 1)
      BY <2>1, <2>5
    <3>2. Len(g[i]) <= Len(g[j - 1]) /\ \A k \in 1..Len(g[i]) : g[j - 1][k] = g[i][k]
      BY <1>7, <3>1
    <3>3. /\ Len(g[j]) = Len(g[j - 1]) + Len(lists[j])
          /\ \A k \in 1..Len(g[j - 1]) : g[j][k] = g[j - 1][k]
      BY <1>4, <2>1
    <3>4. Len(g[i]) <= Len(g[j])
      <4>1. Len(g[i]) <= Len(g[j - 1])
        BY <3>2
      <4>2. Len(g[j]) = Len(g[j - 1]) + Len(lists[j])
        BY <3>3
      <4>3. Len(g[j]) \in Nat
        BY <1>5, <2>1
      <4>4. \A a, b, c, d \in Nat : a <= b /\ d = b + c => a <= d
        OBVIOUS
      <4> QED
        BY ONLY <2>2, <2>3, <4>1, <4>2, <4>3, <4>4
    <3>5. \A k \in 1..Len(g[i]) : k \in 1..Len(g[j - 1])
      BY <2>3, <3>2
    <3> QED
      BY <3>2, <3>3, <3>4, <3>5
  <2> QED
    BY <2>4, <2>5
<1>8. \A j \in 0..n : \A i \in 0..j : Len(g[i]) <= Len(g[j]) /\ \A k \in 1..Len(g[i]) : g[j][k] = g[i][k]
  <2>1. zero..n \subseteq Good
    <3>1. zero \in Nat
      OBVIOUS
    <3> HIDE DEF zero, Good
    <3> QED
      BY ONLY <1>1, <1>6, <1>7, <3>1, RoundInduction
  <2> QED
    BY <2>1
<1>9. n \in 0..n
  BY <1>1
<1>10. Joined(lists) \in T
  BY <1>2, <1>5, <1>9
<1>11. \A i, j \in 0..n : i <= j => Len(g[i]) <= Len(g[j])
  <2>1. \A i, j \in 0..n : i <= j => i \in 0..j
    OBVIOUS
  <2> QED
    BY <1>8, <2>1
<1>12. ASSUME NEW i \in 1..n, NEW k \in 1..Len(lists[i])
       PROVE  Joined(lists)[Len(g[i - 1]) + k] = lists[i][k]
  <2>1. i \in 0..n /\ Len(g[i - 1]) \in Nat /\ Len(lists[i]) \in Nat
    BY <1>1, <1>3, <1>5
  <2>2. Len(g[i]) = Len(g[i - 1]) + Len(lists[i])
    BY <1>4
  <2>3. Len(g[i - 1]) + k \in 1..Len(g[i])
    <3>1. \A a, b \in Nat : \A m \in 1..b : a + m \in 1..(a + b)
      OBVIOUS
    <3>2. Len(g[i - 1]) + k \in 1..(Len(g[i - 1]) + Len(lists[i]))
      BY ONLY <1>12, <2>1, <3>1
    <3> QED
      BY ONLY <2>2, <3>2
  <2>4. Joined(lists)[Len(g[i - 1]) + k] = g[i][Len(g[i - 1]) + k]
    BY <1>2, <1>8, <1>9, <2>1, <2>3
  <2>5. g[i][Len(g[i - 1]) + k] = lists[i][k]
    BY <1>4
  <2> QED
    BY <2>4, <2>5
<1>13. IsPlaced(g, lists, Joined(lists))
  BY <1>4, <1>12 DEF IsPlaced, n
<1> QED
  BY <1>2, <1>10, <1>11, <1>13 DEF T, n

\* The first lists are put together in the same way whatever comes behind them.
LEMMA JoinedPrefix ==
  ASSUME NEW S, NEW lists \in Seq(Seq(S)), NEW g, IsJoined(g, S, lists),
         NEW more \in Seq(Seq(S)), NEW h, IsJoined(h, S, more), Len(lists) <= Len(more),
         \A i \in 1..Len(lists) : lists[i] = more[i]
  PROVE  Joined(lists) = h[Len(lists)]
<1> DEFINE n == Len(lists)
           Good == {i \in 0..n : g[i] = h[i]}
           zero == 0
<1>1. n \in Nat /\ Len(more) \in Nat
  OBVIOUS
<1>2. zero \in Good
  BY <1>1 DEF IsJoined
<1>3. ASSUME NEW i \in (zero + 1)..n, i - 1 \in Good PROVE i \in Good
  <2>1. i \in 1..Len(lists) /\ i \in 1..Len(more) /\ i \in 0..n /\ g[i - 1] = h[i - 1]
    BY <1>1, <1>3
  <2>2. g[i] = g[i - 1] \o lists[i] /\ h[i] = h[i - 1] \o more[i] /\ lists[i] = more[i]
    BY <2>1 DEF IsJoined
  <2> QED
    BY <2>1, <2>2
<1>4. zero..n \subseteq Good
  <2>1. zero \in Nat
    OBVIOUS
  <2> HIDE DEF zero, Good, n
  <2> QED
    BY ONLY <1>1, <1>2, <1>3, <2>1, RoundInduction
<1>5. n \in zero..n
  BY <1>1
<1>6. g[n] = h[n]
  BY <1>4, <1>5
<1>7. Joined(lists) = g[n]
  BY DEF IsJoined
<1> QED
  BY <1>6, <1>7

\* Where the frames of a message end, round by round.
IsLaid(e, parts, data) ==
  /\ e \in [0..Len(parts) -> Nat] /\ e[0] = 0 /\ e[Len(parts)] = Len(data)
  /\ \A i \in 1..Len(parts) :
       /\ e[i] = e[i - 1] + Len(Framed(parts[i]))
       /\ \A k \in 1..Len(Framed(parts[i])) : data[e[i - 1] + k] = Framed(parts[i])[k]
  /\ \A i, j \in 0..Len(parts) : i <= j => e[i] <= e[j]
  /\ \A n \in 0..Len(parts) : e[n] = Len(Message(SubSeq(parts, 1, n)))

FramesOf(parts) == [i \in DOMAIN parts |-> Framed(parts[i])]

LEMMA FramesTyped ==
  ASSUME NEW parts \in Seq(PartSet)
  PROVE  /\ FramesOf(parts) \in Seq(Seq(Nat)) /\ Len(FramesOf(parts)) = Len(parts)
         /\ \A i \in 1..Len(parts) : FramesOf(parts)[i] = Framed(parts[i])
<1>1. DOMAIN parts = 1..Len(parts) /\ Len(parts) \in Nat /\ \A i \in 1..Len(parts) : parts[i] \in PartSet
  OBVIOUS
<1> DEFINE n == Len(parts)
           T == Seq(Nat)
<1>2. \A i \in 1..n : Framed(parts[i]) \in T
  BY <1>1, FramesAre DEF IsFrame, Numbers
<1>3. FramesOf(parts) = [i \in 1..n |-> Framed(parts[i])]
  BY <1>1 DEF FramesOf
<1> HIDE DEF n, T
<1>4. FramesOf(parts) \in [1..n -> T]
  BY <1>2, <1>3
<1>5. n \in Nat
  BY <1>1 DEF n
<1>6. FramesOf(parts) \in Seq(T) /\ Len(FramesOf(parts)) = n
  BY <1>4, <1>5
<1> QED
  BY <1>3, <1>6 DEF n, T

LEMMA MessageLaid ==
  ASSUME NEW parts \in Seq(PartSet)
  PROVE  Message(parts) \in Numbers /\ \E e : IsLaid(e, parts, Message(parts))
<1> DEFINE F == FramesOf(parts)
           n == Len(parts)
           T == Seq(Nat)
<1>1. /\ F \in Seq(T) /\ Len(F) = n /\ n \in Nat /\ Message(parts) = Joined(F)
      /\ \A i \in 1..n : F[i] = Framed(parts[i])
  <2>1. Message(parts) = Joined(F)
    BY DEF Message, FramesOf
  <2> QED
    BY <2>1, FramesTyped, LenProperties
<1> HIDE DEF F
<1>2. PICK g : IsJoined(g, Nat, F)
  BY <1>1, JoinedRounds
<1>3. /\ Joined(F) \in T /\ g[Len(F)] = Joined(F) /\ IsPlaced(g, F, Joined(F))
      /\ \A i, j \in 0..Len(F) : i <= j => Len(g[i]) <= Len(g[j])
  BY <1>1, <1>2, JoinedPlaces
<1> DEFINE e == [i \in 0..n |-> Len(g[i])]
<1>4. g \in [0..n -> T] /\ g[0] = <<>>
  BY <1>1, <1>2 DEF IsJoined
<1>5. \A s \in T : Len(s) \in Nat
  BY LenProperties
<1>6. \A i \in 0..n : e[i] = Len(g[i]) /\ e[i] \in Nat
  <2> HIDE DEF T, n
  <2> QED
    BY <1>4, <1>5
<1>7. e[0] = 0 /\ e[n] = Len(Joined(F)) /\ e \in [0..n -> Nat]
  <2>1. 0 \in 0..n /\ n \in 0..n /\ Len(<<>>) = 0
    BY <1>1
  <2>2. e[0] = Len(g[0])
    BY <1>6, <2>1
  <2>3. e[n] = Len(g[n])
    BY <1>6, <2>1
  <2> QED
    BY <1>1, <1>3, <1>4, <1>6, <2>1, <2>2, <2>3
<1>8. \A i \in 1..n :
        /\ e[i] = e[i - 1] + Len(Framed(parts[i]))
        /\ \A k \in 1..Len(Framed(parts[i])) : Joined(F)[e[i - 1] + k] = Framed(parts[i])[k]
  <2> SUFFICES ASSUME NEW i \in 1..n
      PROVE  /\ e[i] = e[i - 1] + Len(Framed(parts[i]))
             /\ \A k \in 1..Len(Framed(parts[i])) : Joined(F)[e[i - 1] + k] = Framed(parts[i])[k]
    OBVIOUS
  <2>1. i \in 0..n /\ i - 1 \in 0..n /\ i \in 1..Len(F)
    BY <1>1
  <2>2. /\ Len(g[i]) = Len(g[i - 1]) + Len(F[i])
        /\ \A k \in 1..Len(F[i]) : Joined(F)[Len(g[i - 1]) + k] = F[i][k]
    BY <1>3, <2>1 DEF IsPlaced
  <2>3. F[i] = Framed(parts[i]) /\ e[i] = Len(g[i]) /\ e[i - 1] = Len(g[i - 1])
    BY <1>1, <1>6, <2>1
  <2> QED
    BY ONLY <2>2, <2>3
<1>9. \A i, j \in 0..n : i <= j => e[i] <= e[j]
  BY <1>1, <1>3, <1>6
<1>10. \A m \in 0..n : e[m] = Len(Message(SubSeq(parts, 1, m)))
  <2> SUFFICES ASSUME NEW m \in 0..n PROVE e[m] = Len(Message(SubSeq(parts, 1, m)))
    OBVIOUS
  <2> DEFINE first == SubSeq(parts, 1, m)
             G == FramesOf(first)
  <2>1. /\ first \in Seq(PartSet) /\ Len(first) = m
        /\ \A k \in 1..m : first[k] = parts[k]
    <3> DEFINE one == 1
    <3>1. m \in Nat /\ one \in Nat /\ 1 <= one /\ one <= m + 1 /\ m <= Len(parts)
      BY <1>1
    <3>2. /\ SubSeq(parts, one, m) \in Seq(PartSet)
          /\ Len(SubSeq(parts, one, m)) = m - one + 1
          /\ \A k \in 1..(m - one + 1) : SubSeq(parts, one, m)[k] = parts[one + k - 1]
      <4> HIDE DEF one
      <4> QED
        BY <3>1, SubSeqFacts
    <3>3. m - one + 1 = m /\ \A k \in 1..m : one + k - 1 = k
      BY <3>1
    <3> QED
      BY <3>2, <3>3
  <2>2. G \in Seq(T) /\ Len(G) = m /\ Message(first) = Joined(G) /\ \A k \in 1..m : G[k] = Framed(first[k])
    <3>1. Message(first) = Joined(G)
      BY DEF Message, FramesOf
    <3> HIDE DEF first
    <3> QED
      BY <2>1, <3>1, FramesTyped
  <2> HIDE DEF first, G
  <2>3. PICK h : IsJoined(h, Nat, G)
    BY <2>2, JoinedRounds
  <2>4. Len(G) <= Len(F) /\ \A k \in 1..Len(G) : G[k] = F[k]
    <3>1. \A k \in 1..m : k \in 1..n
      BY <1>1
    <3> QED
      BY <1>1, <2>1, <2>2, <3>1
  <2>5. Joined(G) = g[Len(G)]
    BY ONLY <1>1, <1>2, <2>2, <2>3, <2>4, JoinedPrefix
  <2> QED
    BY <1>6, <2>2, <2>5 DEF first
<1>11. IsLaid(e, parts, Message(parts))
  <2> HIDE DEF e
  <2> QED
    BY <1>1, <1>7, <1>8, <1>9, <1>10 DEF IsLaid
<1> QED
  BY <1>1, <1>3, <1>11 DEF Numbers

\* A part that a decoder knows.
IsKnown(part, lengths, eights) ==
  /\ part \in PartSet
  /\ part.wire = 1 => part.field \in eights /\ Len(part.bytes) = 8
  /\ part.wire = 2 => part.field \in lengths /\ IsShort(Len(part.bytes))

\* The tag of a part gives its field and its wire type, and the bytes behind it its length.
HeadRead(data, at, part) ==
  /\ data[at + 1] \div 8 = part.field /\ data[at + 1] % 8 = part.wire
  /\ part.wire = 2 =>
       Varint(data, at + 1) = [ok |-> TRUE, next |-> at + HeadOf(part), value |-> Len(part.bytes)]

LEMMA HeadIsRead ==
  ASSUME NEW data \in Numbers, NEW at \in Nat, NEW part \in PartSet, NEW lengths, NEW eights,
         IsKnown(part, lengths, eights), at + HeadOf(part) <= Len(data),
         \A k \in 1..HeadOf(part) : data[at + k] = Framed(part)[k]
  PROVE  HeadRead(data, at, part)
<1> DEFINE n == Len(part.bytes)
           f == Framed(part)
<1>1. /\ f[1] = 8 * part.field + part.wire /\ HeadOf(part) \in Nat \ {0}
      /\ part.wire = 2 => \A k \in 1..Groups(n) : f[1 + k] = EncodeVarint(n)[k]
  BY FramesAre DEF IsFrame
<1>2. part.field \in Nat /\ part.wire \in {1, 2} /\ n \in Nat
  BY DEF PartSet, Numbers
<1>3. part.wire = 2 => HeadOf(part) = 1 + Groups(n) /\ IsShort(n)
  BY DEF HeadOf, IsKnown
<1>4. data[at + 1] = 8 * part.field + part.wire
  BY <1>1
<1>5. data[at + 1] \div 8 = part.field /\ data[at + 1] % 8 = part.wire
  <2>1. \A x \in Nat, y \in {1, 2} : (8 * x + y) \div 8 = x /\ (8 * x + y) % 8 = y
    OBVIOUS
  <2> QED
    BY <1>2, <1>4, <2>1
<1>6. ASSUME part.wire = 2
      PROVE  Varint(data, at + 1) = [ok |-> TRUE, next |-> at + HeadOf(part), value |-> n]
  <2> DEFINE next == at + 1
  <2>1. Groups(n) \in Nat /\ Len(EncodeVarint(n)) = Groups(n)
    <3>1. n \in Nat
      BY <1>2
    <3> HIDE DEF n
    <3>2. Groups(n) \in 1..10
      BY <3>1, GroupsFacts
    <3>3. Len(EncodeVarint(n)) = Groups(n)
      BY <3>1, EncodedVarint
    <3> QED
      BY <3>2, <3>3
  <2>2. HeadOf(part) = 1 + Groups(n)
    BY <1>3, <1>6
  <2>3. next + Groups(n) <= Len(data)
    BY <2>1, <2>2, LenProperties DEF Numbers
  <2>4. ASSUME NEW k \in 1..Groups(n) PROVE data[next + k] = EncodeVarint(n)[k]
    <3>1. 1 + k \in 1..HeadOf(part) /\ at + (1 + k) = next + k
      BY <2>1, <2>2
    <3>2. f[1 + k] = EncodeVarint(n)[k]
      BY <1>1, <1>6
    <3> QED
      BY <3>1, <3>2
  <2>5. Holds(data, next, EncodeVarint(n)) /\ next \in Nat /\ data \in Seq(Nat) /\ IsShort(n)
    BY <1>3, <1>6, <2>1, <2>3, <2>4 DEF Holds, Numbers
  <2> HIDE DEF n, next
  <2>6. Varint(data, next) = [ok |-> TRUE, next |-> next + Groups(n), value |-> n]
    BY <1>2, <2>5, VarintIs
  <2>7. next + Groups(n) = at + HeadOf(part)
    BY <2>1, <2>2 DEF next
  <2> QED
    BY <2>6, <2>7 DEF next
<1> QED
  BY <1>5, <1>6 DEF HeadRead

\* A round of a decoder that finds a whole part it knows.
LEMMA TakesPart ==
  ASSUME NEW data \in Numbers, NEW part \in PartSet, NEW lengths, NEW eights, NEW ends,
         IsKnown(part, lengths, eights), NEW least \in Nat,
         NEW state, state.at \in Nat, state.at + least <= Len(data),
         Holds(data, state.at, Framed(part))
  PROVE  Scanned(data, lengths, eights, least, ends, state) =
           [at |-> state.at + Len(Framed(part)), ok |-> state.ok, parts |-> Append(state.parts, part)]
<1> DEFINE at == state.at
           f == Framed(part)
           n == Len(part.bytes)
           h == HeadOf(part)
           S == Scanned(data, lengths, eights, least, ends, state)
<1>1. /\ Len(f) = h + n /\ h \in Nat \ {0} /\ n \in Nat /\ part.wire \in {1, 2}
      /\ part.bytes \in Seq(Nat)
      /\ \A k \in 1..n : f[h + k] = part.bytes[k]
  <2>1. IsFrame(f, part) /\ h \in Nat \ {0}
    BY FramesAre
  <2>2. part.bytes \in Seq(Nat) /\ part.wire \in {1, 2}
    BY DEF PartSet, Numbers
  <2>3. n \in Nat
    BY <2>2, LenProperties
  <2> HIDE DEF f
  <2>4. Len(f) = h + n /\ \A k \in 1..n : f[h + k] = part.bytes[k]
    BY ONLY <2>1 DEF IsFrame
  <2> QED
    BY ONLY <2>1, <2>2, <2>3, <2>4
<1>2. at + Len(f) <= Len(data) /\ \A k \in 1..Len(f) : data[at + k] = f[k]
  BY DEF Holds
<1>3. Len(data) \in Nat /\ at \in Nat /\ data \in Seq(Nat)
  BY LenProperties DEF Numbers
<1> HIDE DEF at, f, n, h
<1>4. \A k \in 1..n : data[(at + h) + k] = part.bytes[k]
  <2>1. \A k \in 1..n : h + k \in 1..Len(f) /\ at + (h + k) = (at + h) + k
    BY <1>1, <1>3
  <2> QED
    BY <1>1, <1>2, <2>1
<1>5. HeadRead(data, at, part)
  <2>1. at + h <= Len(data) /\ \A k \in 1..h : k \in 1..Len(f)
    BY <1>1, <1>2, <1>3
  <2>2. at + HeadOf(part) <= Len(data) /\ \A k \in 1..HeadOf(part) : data[at + k] = Framed(part)[k]
    BY <1>2, <2>1 DEF h, f
  <2> QED
    BY <1>3, <2>2, HeadIsRead
<1>6. SubSeq(data, (at + h) + 1, (at + h) + n) = part.bytes
  <2> DEFINE m == (at + h) + 1
             l == (at + h) + n
  <2>1. m \in Nat /\ l \in Nat /\ 1 <= m /\ m <= l + 1 /\ l <= Len(data) /\ l - m + 1 = n
    BY <1>1, <1>2, <1>3
  <2>2. \A k \in 1..n : m + k - 1 = (at + h) + k
    BY <1>1, <1>3
  <2> HIDE DEF m, l
  <2>3. /\ SubSeq(data, m, l) \in Seq(Nat)
        /\ Len(SubSeq(data, m, l)) = l - m + 1
        /\ \A k \in 1..(l - m + 1) : SubSeq(data, m, l)[k] = data[m + k - 1]
    BY <1>3, <2>1, SubSeqFacts
  <2>4. Len(SubSeq(data, m, l)) = Len(part.bytes) /\ \A k \in 1..Len(part.bytes) : SubSeq(data, m, l)[k] = part.bytes[k]
    BY <1>4, <2>1, <2>2, <2>3 DEF n
  <2>5. SubSeq(data, m, l) = part.bytes
    BY ONLY <1>1, <2>3, <2>4, SeqEqual
  <2> QED
    BY <2>5 DEF m, l
<1>7. part = [field |-> part.field, wire |-> part.wire, bytes |-> part.bytes]
  BY DEF PartSet
<1>8. ~(at + least > Len(data))
  BY <1>3 DEF at
<1>9. CASE part.wire = 1
  <2>1. h = 1 /\ n = 8 /\ part.field \in eights
    BY <1>9 DEF IsKnown, HeadOf, h, n
  <2>2. at + 9 <= Len(data) /\ at + Len(f) = at + 9 /\ (at + h) + 1 = at + 2 /\ (at + h) + n = at + 9
    <3>1. Len(f) = h + n
      BY <1>1
    <3>2. at + Len(f) <= Len(data)
      BY <1>2
    <3>3. Len(data) \in Nat /\ at \in Nat
      BY <1>3
    <3>4. h = 1 /\ n = 8
      BY <2>1
    <3> QED
      BY ONLY <3>1, <3>2, <3>3, <3>4
  <2>3. data[at + 1] \div 8 = part.field /\ data[at + 1] % 8 = 1
    BY <1>5, <1>9 DEF HeadRead
  <2>4. Eight(part.field, SubSeq(data, at + 2, at + 9)) = part
    BY <1>6, <1>7, <1>9, <2>2 DEF Eight
  <2>5. S = [at |-> at + 9, ok |-> state.ok, parts |-> Append(state.parts, Eight(part.field, SubSeq(data, at + 2, at + 9)))]
    BY <1>8, <2>1, <2>2, <2>3 DEF Scanned, at
  <2> QED
    BY <2>2, <2>4, <2>5 DEF at, f
<1>10. CASE part.wire = 2
  <2> DEFINE length == Varint(data, at + 1)
             after == length.next + length.value
  <2>1. part.field \in lengths
    BY <1>10 DEF IsKnown
  <2>2. data[at + 1] \div 8 = part.field /\ data[at + 1] % 8 = 2
    BY <1>5, <1>10 DEF HeadRead
  <2>3. length.ok = TRUE /\ length.next = at + h /\ length.value = n
    BY <1>5, <1>10 DEF HeadRead, h, n
  <2>4. after <= Len(data) /\ after = at + Len(f) /\ after = (at + h) + n
    BY <1>1, <1>2, <1>3, <2>3
  <2>5. Sized(part.field, SubSeq(data, length.next + 1, after)) = part
    BY <1>6, <1>7, <1>10, <2>3, <2>4 DEF Sized
  <2>6. S = [at |-> after, ok |-> state.ok, parts |-> Append(state.parts, Sized(part.field, SubSeq(data, length.next + 1, after)))]
    <3>1. length.ok
      BY <2>3
    <3>2. ~(data[at + 1] % 8 = 1)
      BY <2>2
    <3>3. S = IF ~length.ok THEN [at |-> Len(data), ok |-> FALSE, parts |-> <<>>]
              ELSE IF after <= Len(data)
              THEN [at |-> after, ok |-> state.ok,
                    parts |-> Append(state.parts, Sized(part.field, SubSeq(data, length.next + 1, after)))]
              ELSE [at |-> IF "long" \in ends THEN Len(data) ELSE length.next, ok |-> state.ok, parts |-> state.parts]
      BY ONLY <1>8, <2>1, <2>2, <3>2 DEF Scanned, at
    <3> QED
      BY ONLY <2>4, <3>1, <3>3
  <2> QED
    BY <2>4, <2>5, <2>6 DEF at, f
<1> QED
  BY <1>1, <1>9, <1>10

\* A decoder stops at a part that goes on behind the end, if it knows its length.
LEMMA StopsAtLongPart ==
  ASSUME NEW data \in Numbers, NEW part \in PartSet, NEW lengths, NEW eights, NEW ends,
         IsKnown(part, lengths, eights), NEW least \in Nat,
         NEW state, state.at \in Nat, state.at + least <= Len(data),
         part.wire = 2, "long" \in ends, state.at + HeadOf(part) <= Len(data),
         \A k \in 1..HeadOf(part) : data[state.at + k] = Framed(part)[k],
         state.at + Len(Framed(part)) > Len(data)
  PROVE  Scanned(data, lengths, eights, least, ends, state) =
           [at |-> Len(data), ok |-> state.ok, parts |-> state.parts]
<1> DEFINE at == state.at
           length == Varint(data, at + 1)
           after == length.next + length.value
<1>1. at \in Nat /\ Len(data) \in Nat
  BY LenProperties DEF Numbers
<1>2. HeadRead(data, at, part)
  BY HeadIsRead
<1>3. part.field \in lengths
  BY DEF IsKnown
<1>4. data[at + 1] \div 8 = part.field /\ data[at + 1] % 8 = 2
  BY <1>2 DEF HeadRead
<1>5. length.ok = TRUE /\ length.next = at + HeadOf(part) /\ length.value = Len(part.bytes)
  BY <1>2 DEF HeadRead
<1>6. ~(after <= Len(data))
  <2>1. Len(Framed(part)) = HeadOf(part) + Len(part.bytes) /\ HeadOf(part) \in Nat /\ Len(part.bytes) \in Nat
    BY FramesAre DEF IsFrame, PartSet, Numbers
  <2> QED
    BY <1>1, <1>5, <2>1
<1>7. ~(at + least > Len(data))
  BY <1>1
<1>8. length.ok
  BY <1>5
<1> QED
  BY <1>3, <1>4, <1>6, <1>7, <1>8 DEF Scanned

LEMMA StopsAtEnd ==
  ASSUME NEW data, NEW lengths, NEW eights, NEW ends, NEW least, NEW state, state.at + least > Len(data)
  PROVE  Scanned(data, lengths, eights, least, ends, state) =
           [at |-> Len(data), ok |-> state.ok, parts |-> state.parts]
  BY DEF Scanned

\* A decoder that has taken the first parts, and one that is done with them.
StateAt(e, parts, i) == [at |-> e[i], ok |-> TRUE, parts |-> SubSeq(parts, 1, i)]
StateEnd(data, parts, n) == [at |-> Len(data), ok |-> TRUE, parts |-> SubSeq(parts, 1, n)]

TakesFirst(data, lengths, eights, least, ends, e, parts, n) ==
  /\ \A i \in 1..n : Scanned(data, lengths, eights, least, ends, StateAt(e, parts, i - 1)) = StateAt(e, parts, i)
  /\ Scanned(data, lengths, eights, least, ends, StateAt(e, parts, n)) = StateEnd(data, parts, n)
Scans(data, lengths, eights, least, ends, parts) ==
  /\ Scan(data, lengths, eights, least, ends).ok = TRUE
  /\ Scan(data, lengths, eights, least, ends).parts = parts

\* What a decoder has in the end if it takes a part in each of some rounds and then stops.
LEMMA ScanIs ==
  ASSUME NEW data \in Numbers, NEW parts \in Seq(PartSet), NEW e, e[0] = 0,
         NEW n \in 0..Len(parts), n <= Len(data), n = Len(data) => e[n] = n,
         NEW lengths, NEW eights, NEW least \in Nat \ {0}, NEW ends,
         TakesFirst(data, lengths, eights, least, ends, e, parts, n)
  PROVE  Scans(data, lengths, eights, least, ends, SubSeq(parts, 1, n))
<1> DEFINE L == Len(data)
           Step(x) == Scanned(data, lengths, eights, least, ends, x)
           start == [at |-> 0, ok |-> TRUE, parts |-> <<>>]
           Rounds(p) == [r \in 0..L |-> IF r = 0 THEN start ELSE Step(p[r - 1])]
           f == CHOOSE p : p = Rounds(p)
           g == [r \in 0..L |-> IF r <= n THEN StateAt(e, parts, r) ELSE StateEnd(data, parts, n)]
           zero == 0
           q == CHOOSE r \in 0..L : f[r].at = L
<1>1. L \in Nat /\ n \in Nat /\ n <= L
  BY LenProperties DEF Numbers
<1>2. Scan(data, lengths, eights, least, ends) = f[q]
  BY DEF Scan
<1>3. /\ \A i \in 1..n : Step(StateAt(e, parts, i - 1)) = StateAt(e, parts, i)
      /\ Step(StateAt(e, parts, n)) = StateEnd(data, parts, n)
  BY DEF TakesFirst
<1>4. Step(StateEnd(data, parts, n)) = StateEnd(data, parts, n)
  <2> DEFINE s == StateEnd(data, parts, n)
  <2>1. s.at = L /\ s.ok = TRUE /\ s.parts = SubSeq(parts, 1, n)
    BY DEF StateEnd
  <2>2. s.at + least > Len(data)
    BY <1>1, <2>1
  <2> HIDE DEF s
  <2>3. Scanned(data, lengths, eights, least, ends, s) = [at |-> Len(data), ok |-> s.ok, parts |-> s.parts]
    BY <2>2, StopsAtEnd
  <2> QED
    BY <2>1, <2>3 DEF s, StateEnd
<1>5. StateAt(e, parts, 0) = start
  <2>1. SubSeq(parts, 1, 0) = <<>>
    OBVIOUS
  <2> QED
    BY <2>1 DEF StateAt
<1> HIDE DEF Step, start, L
<1>6. g = Rounds(g)
  <2>1. ASSUME NEW r \in 0..L PROVE g[r] = IF r = 0 THEN start ELSE Step(g[r - 1])
    <3>1. CASE r = 0
      BY <1>1, <1>5, <3>1
    <3>2. CASE r # 0 /\ r <= n
      <4>1. r - 1 \in 0..L /\ r - 1 <= n /\ r \in 1..n
        BY <1>1, <3>2
      <4>2. g[r] = StateAt(e, parts, r) /\ g[r - 1] = StateAt(e, parts, r - 1)
        BY <3>2, <4>1
      <4> HIDE DEF g
      <4> QED
        BY <1>3, <3>2, <4>1, <4>2
    <3>3. CASE r = n + 1
      <4>1. n \in 0..L /\ r - 1 = n /\ ~(r <= n) /\ n <= n /\ r # 0
        BY <1>1, <3>3
      <4>2. g[r] = StateEnd(data, parts, n) /\ g[r - 1] = StateAt(e, parts, n)
        BY <4>1
      <4> HIDE DEF g
      <4> QED
        BY <1>3, <4>1, <4>2
    <3>4. CASE r > n + 1
      <4>1. r - 1 \in 0..L /\ ~(r - 1 <= n) /\ ~(r <= n) /\ r # 0
        BY <1>1, <3>4
      <4>2. g[r] = StateEnd(data, parts, n) /\ g[r - 1] = StateEnd(data, parts, n)
        BY <4>1
      <4> HIDE DEF g
      <4> QED
        BY <1>4, <4>1, <4>2
    <3> QED
      BY <1>1, <3>1, <3>2, <3>3, <3>4
  <2>2. \A r \in 0..L : g[r] = Rounds(g)[r]
    BY <2>1
  <2>3. DOMAIN g = 0..L /\ DOMAIN Rounds(g) = 0..L
    OBVIOUS
  <2>4. g = [r \in 0..L |-> g[r]] /\ Rounds(g) = [r \in 0..L |-> Rounds(g)[r]]
    OBVIOUS
  <2> HIDE DEF g, Rounds
  <2> QED
    BY <2>2, <2>4
<1>7. f = Rounds(f)
  <2> HIDE DEF Rounds, g
  <2> QED
    BY <1>6
<1> HIDE DEF f, q
<1>8. \A r \in 0..L : f[r] = IF r = 0 THEN start ELSE Step(f[r - 1])
  BY <1>7
<1>9. \A r \in 0..L : g[r] = IF r = 0 THEN start ELSE Step(g[r - 1])
  <2> HIDE DEF g
  <2> QED
    BY <1>6
<1>10. g[L] = IF L <= n THEN StateAt(e, parts, L) ELSE StateEnd(data, parts, n)
  BY <1>1
<1> HIDE DEF g
<1> DEFINE Good == {r \in 0..L : f[r] = g[r]}
<1>11. zero \in Good
  BY <1>1, <1>8, <1>9
<1>12. ASSUME NEW r \in (zero + 1)..L, r - 1 \in Good PROVE r \in Good
  <2>1. r \in 0..L /\ r # 0 /\ f[r - 1] = g[r - 1]
    BY <1>1, <1>12
  <2> QED
    BY <1>8, <1>9, <2>1
<1>13. zero..L \subseteq Good
  <2>1. zero \in Nat
    OBVIOUS
  <2> HIDE DEF Good, zero
  <2> QED
    BY ONLY <1>1, <1>11, <1>12, <2>1, RoundInduction
<1>14. f[L] = g[L]
  <2>1. L \in zero..L
    BY <1>1
  <2> QED
    BY <1>13, <2>1
<1>15. g[L].at = L /\ g[L].ok = TRUE /\ g[L].parts = SubSeq(parts, 1, n)
  <2>1. CASE L <= n
    <3>1. L = n
      BY <1>1, <2>1
    <3> QED
      BY <1>10, <2>1, <3>1 DEF StateAt, L
  <2>2. CASE ~(L <= n)
    BY <1>10, <2>2 DEF StateEnd, L
  <2> QED
    BY <2>1, <2>2
<1>16. q \in 0..L /\ f[q].at = L
  <2>1. L \in 0..L /\ f[L].at = L
    BY <1>1, <1>14, <1>15
  <2> QED
    BY ONLY <2>1 DEF q
<1>17. ASSUME NEW x, x.at = L PROVE Step(x) = [at |-> L, ok |-> x.ok, parts |-> x.parts]
  <2>1. x.at + least > Len(data)
    BY <1>1, <1>17 DEF L
  <2> QED
    BY <2>1, StopsAtEnd DEF Step, L
<1> DEFINE Idle == {r \in q..L : f[r].at = L /\ f[r].ok = f[q].ok /\ f[r].parts = f[q].parts}
<1>18. q \in Idle
  BY <1>1, <1>16
<1>19. ASSUME NEW r \in (q + 1)..L, r - 1 \in Idle PROVE r \in Idle
  <2>1. r \in q..L /\ r \in 0..L /\ r # 0
    BY <1>1, <1>16
  <2>2. f[r] = Step(f[r - 1]) /\ f[r - 1].at = L /\ f[r - 1].ok = f[q].ok /\ f[r - 1].parts = f[q].parts
    BY <1>8, <1>19, <2>1
  <2>3. f[r] = [at |-> L, ok |-> f[r - 1].ok, parts |-> f[r - 1].parts]
    BY <1>17, <2>2
  <2> QED
    BY <2>1, <2>2, <2>3
<1>20. q..L \subseteq Idle
  <2>1. q \in Nat /\ L \in Nat /\ q <= L
    BY <1>1, <1>16
  <2> HIDE DEF Idle
  <2> QED
    BY ONLY <1>18, <1>19, <2>1, RoundInduction
<1>21. f[q].ok = f[L].ok /\ f[q].parts = f[L].parts
  <2>1. L \in q..L
    BY <1>1, <1>16
  <2> QED
    BY <1>20, <2>1
<1> QED
  BY <1>2, <1>14, <1>15, <1>21 DEF Scans

\* Parts up to one that is the last or that a decoder does not get.
UpTo(n, e, parts, data, least, ends) ==
  /\ n \in 0..Len(parts)
  /\ \A i \in 1..n : e[i] <= Len(data) /\ e[i - 1] + least <= Len(data)
  /\ n < Len(parts) =>
       \/ e[n] + least > Len(data)
       \/ /\ e[n + 1] > Len(data) /\ "long" \in ends
          /\ parts[n + 1].wire = 2 /\ HeadOf(parts[n + 1]) <= least

BeginsWith(whole, data) == Len(data) <= Len(whole) /\ \A k \in 1..Len(data) : data[k] = whole[k]
AllKnown(parts, lengths, eights) == \A i \in 1..Len(parts) : IsKnown(parts[i], lengths, eights)

\* The first parts of a list, one at a time.
LEMMA FirstParts ==
  ASSUME NEW S, NEW s \in Seq(S)
  PROVE  /\ SubSeq(s, 1, Len(s)) = s
         /\ \A i \in 1..Len(s) : SubSeq(s, 1, i) = Append(SubSeq(s, 1, i - 1), s[i])
<1>1. Len(s) \in Nat
  OBVIOUS
<1>2. SubSeq(s, 1, Len(s)) = s
  OBVIOUS
<1>3. ASSUME NEW i \in 1..Len(s) PROVE SubSeq(s, 1, i) = Append(SubSeq(s, 1, i - 1), s[i])
  BY <1>1
<1> QED
  BY <1>2, <1>3

LEMMA ScanUpTo ==
  ASSUME NEW parts \in Seq(PartSet), NEW e, IsLaid(e, parts, Message(parts)),
         NEW data \in Numbers, BeginsWith(Message(parts), data),
         NEW lengths, NEW eights, NEW least \in Nat \ {0}, NEW ends, AllKnown(parts, lengths, eights),
         NEW n, UpTo(n, e, parts, data, least, ends)
  PROVE  Scans(data, lengths, eights, least, ends, SubSeq(parts, 1, n))
<1> DEFINE m == Len(parts)
           L == Len(data)
           whole == Message(parts)
           size(i) == Len(Framed(parts[i]))
<1>1. /\ m \in Nat /\ L \in Nat /\ n \in 0..m /\ n \in Nat /\ L <= Len(whole)
      /\ \A i \in 1..m : parts[i] \in PartSet /\ i \in 0..m /\ i - 1 \in 0..m
  BY LenProperties DEF Numbers, UpTo, BeginsWith
<1>2. /\ e \in [0..m -> Nat] /\ e[0] = 0 /\ e[m] = Len(whole)
      /\ \A i \in 1..m : /\ e[i] = e[i - 1] + size(i)
                         /\ \A k \in 1..size(i) : whole[e[i - 1] + k] = Framed(parts[i])[k]
  BY DEF IsLaid
<1>3. \A i \in 1..m : size(i) \in Nat /\ size(i) >= HeadOf(parts[i]) /\ HeadOf(parts[i]) \in Nat \ {0}
  <2> SUFFICES ASSUME NEW i \in 1..m
      PROVE size(i) \in Nat /\ size(i) >= HeadOf(parts[i]) /\ HeadOf(parts[i]) \in Nat \ {0}
    OBVIOUS
  <2> DEFINE part == parts[i]
  <2>1. part \in PartSet
    BY <1>1
  <2> HIDE DEF part
  <2>2. IsFrame(Framed(part), part) /\ HeadOf(part) \in Nat \ {0} /\ Len(part.bytes) \in Nat
    BY <2>1, FramesAre DEF PartSet, Numbers
  <2>3. Len(Framed(part)) = HeadOf(part) + Len(part.bytes)
    BY <2>2 DEF IsFrame
  <2>4. Len(Framed(part)) \in Nat /\ Len(Framed(part)) >= HeadOf(part)
    BY <2>2, <2>3
  <2> QED
    BY <2>2, <2>4 DEF part
<1>4. \A i \in 0..m : e[i] \in Nat
  BY <1>2
<1>5. \A i \in 1..n : e[i] <= L /\ e[i - 1] + least <= L
  BY DEF UpTo
<1> HIDE DEF size, m, L, whole
<1>6. \A i \in 1..m : \A k \in 1..size(i) : e[i - 1] + k <= L => data[e[i - 1] + k] = Framed(parts[i])[k]
  <2>1. \A k \in 1..L : data[k] = whole[k]
    BY DEF BeginsWith, L, whole
  <2>2. \A i \in 1..m : \A k \in 1..size(i) : e[i - 1] + k <= L => e[i - 1] + k \in 1..L
    BY <1>1, <1>3, <1>4
  <2> QED
    BY <1>2, <2>1, <2>2
<1>7. \A i \in 1..n : i \in 1..m
  BY <1>1
<1>8. ASSUME NEW i \in 1..n
      PROVE  Scanned(data, lengths, eights, least, ends, StateAt(e, parts, i - 1)) = StateAt(e, parts, i)
  <2> DEFINE s == StateAt(e, parts, i - 1)
             part == parts[i]
  <2>1. i \in 1..m /\ part \in PartSet /\ IsKnown(part, lengths, eights)
    BY <1>1, <1>7 DEF AllKnown, m
  <2>2. s.at = e[i - 1] /\ s.ok = TRUE /\ s.parts = SubSeq(parts, 1, i - 1)
    BY DEF StateAt
  <2>3. e[i - 1] \in Nat /\ e[i - 1] + least <= L /\ e[i] <= L /\ e[i] = e[i - 1] + Len(Framed(part))
    BY <1>1, <1>2, <1>4, <1>5, <2>1 DEF size
  <2>4. Holds(data, e[i - 1], Framed(part))
    <3>1. \A k \in 1..size(i) : e[i - 1] + k <= L
      BY <1>1, <1>3, <1>4, <2>1, <2>3 DEF size
    <3>2. \A k \in 1..size(i) : data[e[i - 1] + k] = Framed(part)[k]
      BY <1>6, <2>1, <3>1
    <3> QED
      BY <2>3, <3>2 DEF Holds, size, L
  <2>5. SubSeq(parts, 1, i) = Append(SubSeq(parts, 1, i - 1), part)
    BY <2>1, FirstParts DEF m
  <2> HIDE DEF s, part
  <2>6. s.at \in Nat /\ s.at + least <= Len(data) /\ Holds(data, s.at, Framed(part)) /\ least \in Nat
    BY <2>2, <2>3, <2>4 DEF L
  <2>7. Scanned(data, lengths, eights, least, ends, s) =
          [at |-> s.at + Len(Framed(part)), ok |-> s.ok, parts |-> Append(s.parts, part)]
    BY <2>1, <2>6, TakesPart
  <2>8. [at |-> s.at + Len(Framed(part)), ok |-> s.ok, parts |-> Append(s.parts, part)] = StateAt(e, parts, i)
    BY <2>2, <2>3, <2>5 DEF StateAt
  <2> QED
    BY <2>7, <2>8 DEF s
<1>9. Scanned(data, lengths, eights, least, ends, StateAt(e, parts, n)) = StateEnd(data, parts, n)
  <2> DEFINE s == StateAt(e, parts, n)
  <2>1. s.at = e[n] /\ s.ok = TRUE /\ s.parts = SubSeq(parts, 1, n) /\ e[n] \in Nat
    BY <1>1, <1>4 DEF StateAt
  <2>2. [at |-> Len(data), ok |-> s.ok, parts |-> s.parts] = StateEnd(data, parts, n)
    BY <2>1 DEF StateEnd
  <2> HIDE DEF s
  <2>3. CASE e[n] + least > L
    <3>1. s.at + least > Len(data)
      BY <2>1, <2>3 DEF L
    <3>2. Scanned(data, lengths, eights, least, ends, s) = [at |-> Len(data), ok |-> s.ok, parts |-> s.parts]
      BY <3>1, StopsAtEnd
    <3> QED
      BY <2>2, <3>2 DEF s
  <2>4. CASE ~(e[n] + least > L)
    <3>1. n # m
      BY <1>1, <1>2, <2>1, <2>4
    <3> DEFINE i == n + 1
               part == parts[i]
    <3>2. i \in 1..m /\ i - 1 = n
      BY <1>1, <3>1
    <3>3. e[i] > L /\ "long" \in ends /\ part.wire = 2 /\ HeadOf(part) <= least
      BY <1>1, <2>4, <3>1 DEF UpTo, m, L
    <3>4. part \in PartSet /\ IsKnown(part, lengths, eights)
      BY <1>1, <3>2 DEF AllKnown, m
    <3>5. e[i] = e[n] + Len(Framed(part)) /\ HeadOf(part) \in Nat /\ size(i) >= HeadOf(part) /\ size(i) \in Nat
      BY <1>2, <1>3, <3>2 DEF size
    <3>6. s.at \in Nat /\ s.at + least <= Len(data) /\ s.at + HeadOf(part) <= Len(data)
      <4> HIDE DEF part, i
      <4>1. \A x, h, l, y \in Nat : ~(x + h > l) /\ y <= h => x + h <= l /\ x + y <= l
        OBVIOUS
      <4>2. e[n] \in Nat /\ least \in Nat /\ L \in Nat /\ HeadOf(part) \in Nat
        BY <1>1, <2>1, <3>5
      <4>3. HeadOf(part) <= least
        BY <3>3
      <4>4. e[n] + least <= L /\ e[n] + HeadOf(part) <= L
        BY ONLY <2>4, <4>1, <4>2, <4>3
      <4> QED
        BY <2>1, <4>2, <4>4 DEF L
    <3>7. \A k \in 1..HeadOf(part) : data[s.at + k] = Framed(part)[k]
      <4> SUFFICES ASSUME NEW k \in 1..HeadOf(part) PROVE data[s.at + k] = Framed(part)[k]
        OBVIOUS
      <4> HIDE DEF part, i
      <4>1. k \in 1..size(i)
        BY <3>5
      <4>2. e[n] + k <= L
        BY <1>1, <2>1, <3>5, <3>6 DEF L
      <4>3. data[e[i - 1] + k] = Framed(parts[i])[k]
        BY <1>6, <3>2, <4>1, <4>2
      <4> QED
        BY <2>1, <3>2, <4>3 DEF part
    <3>8. s.at + Len(Framed(part)) > Len(data)
      BY <2>1, <3>3, <3>5 DEF L
    <3> HIDE DEF part
    <3>9. part.wire = 2 /\ "long" \in ends /\ least \in Nat
      BY <3>3
    <3>10. Scanned(data, lengths, eights, least, ends, s) = [at |-> Len(data), ok |-> s.ok, parts |-> s.parts]
      BY <3>4, <3>6, <3>7, <3>8, <3>9, StopsAtLongPart
    <3> QED
      BY <2>2, <3>10 DEF s
  <2> QED
    BY <2>3, <2>4
<1>10. n <= L /\ (n = L => e[n] = n)
  <2> DEFINE Good == {i \in 0..n : i <= e[i]}
             zero == 0
  <2>1. zero \in Good
    BY <1>1, <1>2
  <2>2. ASSUME NEW i \in (zero + 1)..n, i - 1 \in Good PROVE i \in Good
    <3>1. i \in 1..m /\ i \in 0..n /\ i - 1 \in 0..m /\ i - 1 <= e[i - 1]
      BY <1>1, <2>2
    <3>2. e[i] = e[i - 1] + size(i) /\ size(i) \in Nat /\ size(i) >= 1 /\ e[i - 1] \in Nat
      BY <1>2, <1>3, <1>4, <3>1
    <3> QED
      BY <3>1, <3>2
  <2>3. zero..n \subseteq Good
    <3>1. zero \in Nat
      OBVIOUS
    <3> HIDE DEF Good, zero
    <3> QED
      BY ONLY <1>1, <2>1, <2>2, <3>1, RoundInduction
  <2>4. n <= e[n]
    <3>1. n \in zero..n
      BY <1>1
    <3> QED
      BY <2>3, <3>1
  <2>5. CASE n = 0
    BY <1>1, <1>2, <2>5
  <2>6. CASE n # 0
    <3>1. n \in 1..n /\ e[n] \in Nat
      BY <1>1, <1>4, <2>6
    <3>2. e[n] <= L
      BY <1>5, <3>1
    <3> QED
      BY <1>1, <2>4, <3>1, <3>2
  <2> QED
    BY <2>5, <2>6
<1>11. n \in 0..Len(parts) /\ n <= Len(data) /\ e[0] = 0 /\ (n = Len(data) => e[n] = n)
  BY <1>1, <1>2, <1>10 DEF m, L
<1>12. data \in Numbers /\ parts \in Seq(PartSet) /\ least \in Nat \ {0}
  OBVIOUS
<1>13. TakesFirst(data, lengths, eights, least, ends, e, parts, n)
  BY <1>8, <1>9 DEF TakesFirst
<1> QED
  BY ONLY <1>11, <1>12, <1>13, ScanIs

\* A message that is complete is scanned to its parts.
LEMMA ScanWhole ==
  ASSUME NEW parts \in Seq(PartSet), NEW lengths, NEW eights, NEW ends, AllKnown(parts, lengths, eights)
  PROVE  Scans(Message(parts), lengths, eights, 1, ends, parts)
<1> DEFINE n == Len(parts)
           data == Message(parts)
           one == 1
<1>1. PICK e : IsLaid(e, parts, data)
  BY MessageLaid
<1>2. /\ n \in Nat /\ data \in Numbers /\ Len(data) \in Nat
      /\ \A i \in 1..n : i \in 0..n /\ i - 1 \in 0..n /\ parts[i] \in PartSet
  BY MessageLaid, LenProperties DEF Numbers
<1>3. /\ e \in [0..n -> Nat] /\ e[n] = Len(data)
      /\ \A i \in 1..n : e[i] = e[i - 1] + Len(Framed(parts[i]))
      /\ \A i, j \in 0..n : i <= j => e[i] <= e[j]
  BY <1>1 DEF IsLaid
<1>4. ASSUME NEW i \in 1..n PROVE e[i] <= Len(data) /\ e[i - 1] + one <= Len(data)
  <2>1. i \in 0..n /\ i - 1 \in 0..n /\ n \in 0..n /\ i <= n
    BY <1>2
  <2>2. e[i] <= e[n] /\ e[i - 1] \in Nat /\ e[i] \in Nat
    BY <1>3, <2>1
  <2> DEFINE part == parts[i]
  <2>3. part \in PartSet
    BY <1>2
  <2> HIDE DEF part
  <2>4. Len(Framed(part)) = HeadOf(part) + Len(part.bytes) /\ HeadOf(part) \in Nat \ {0} /\ Len(part.bytes) \in Nat
    BY <2>3, FramesAre DEF IsFrame, PartSet, Numbers
  <2>5. Len(Framed(part)) >= 1 /\ Len(Framed(part)) \in Nat
    BY <2>4
  <2>6. e[i] = e[i - 1] + Len(Framed(part))
    BY <1>3 DEF part
  <2> QED
    BY <1>3, <2>2, <2>5, <2>6
<1>5. UpTo(n, e, parts, data, one, ends)
  <2>1. n \in 0..n /\ ~(n < n)
    BY <1>2
  <2> HIDE DEF data
  <2> QED
    BY <1>4, <2>1 DEF UpTo
<1>6. BeginsWith(data, data) /\ SubSeq(parts, 1, n) = parts /\ one \in Nat \ {0}
  <2>1. SubSeq(parts, 1, n) = parts
    BY FirstParts
  <2> QED
    BY <1>2, <2>1 DEF BeginsWith
<1> HIDE DEF one
<1>7. Scans(data, lengths, eights, one, ends, SubSeq(parts, 1, n))
  <2>1. parts \in Seq(PartSet) /\ AllKnown(parts, lengths, eights) /\ IsLaid(e, parts, Message(parts)) /\ BeginsWith(Message(parts), data)
    BY <1>1, <1>6
  <2> HIDE DEF data
  <2> QED
    BY ONLY <1>2, <1>5, <1>6, <2>1, ScanUpTo
<1> QED
  BY <1>6, <1>7 DEF one

\* The i-th part is the last one of a field.
IsLast(parts, field, i) ==
  /\ parts \in Seq(PartSet) /\ i \in 1..Len(parts) /\ parts[i].field = field
  /\ \A j \in (i + 1)..Len(parts) : parts[j].field # field

\* The last part of a field is the one that counts.
LEMMA LastOfIs ==
  ASSUME NEW parts, NEW field, NEW default, NEW i, IsLast(parts, field, i)
  PROVE  LastOf(parts, field, default) = parts[i].bytes
<1> SUFFICES ASSUME parts \in Seq(PartSet), i \in 1..Len(parts), parts[i].field = field,
                    \A j \in (i + 1)..Len(parts) : parts[j].field # field
             PROVE  LastOf(parts, field, default) = parts[i].bytes
  BY DEF IsLast
<1> DEFINE keep == {j \in DOMAIN parts : parts[j].field = field}
           found == Kept(parts, keep)
           P == keep \cap (1..Len(parts))
<1>1. LastOf(parts, field, default) = IF found = <<>> THEN default ELSE found[Len(found)].bytes
  BY DEF LastOf, OfField
<1>2. i \in P /\ \A j \in P : j \in 1..Len(parts) /\ j <= i
  <2>1. DOMAIN parts = 1..Len(parts) /\ Len(parts) \in Nat
    OBVIOUS
  <2>2. \A j \in P : j \in (i + 1)..Len(parts) \/ j <= i
    BY <2>1
  <2> QED
    BY <2>1, <2>2
<1> HIDE DEF keep
<1>3. found \in Seq(PartSet) /\ \E at : Picks(at, found, parts, P)
  BY KeptPicks
<1>4. PICK at : Picks(at, found, parts, P)
  BY <1>3
<1> HIDE DEF found, P
<1>5. Len(found) \in Nat
  BY <1>3, LenProperties
<1>6. /\ at \in [1..Len(found) -> P]
      /\ \A k, l \in 1..Len(found) : k < l => at[k] < at[l]
      /\ \A j \in P : \E k \in 1..Len(found) : at[k] = j
      /\ \A k \in 1..Len(found) : found[k] = parts[at[k]]
  BY <1>4 DEF Picks
<1>7. PICK k \in 1..Len(found) : at[k] = i
  BY <1>2, <1>6
<1>8. Len(found) \in 1..Len(found) /\ k <= Len(found)
  BY <1>5, <1>7
<1>9. at[Len(found)] = i
  <2>1. at[Len(found)] \in P /\ at[Len(found)] <= i /\ at[Len(found)] \in Nat
    <3>1. at[Len(found)] \in P
      BY <1>6, <1>8
    <3>2. \A j \in P : j \in Nat /\ j <= i
      BY <1>2
    <3> QED
      BY ONLY <3>1, <3>2
  <2>2. CASE k = Len(found)
    BY <1>7, <2>2
  <2>3. CASE k # Len(found)
    <3>1. at[k] < at[Len(found)]
      BY <1>5, <1>6, <1>8, <2>3
    <3> QED
      BY <1>7, <2>1, <3>1
  <2> QED
    BY <2>2, <2>3
<1>10. found # <<>>
  <2>1. Len(found) # 0
    BY <1>8
  <2>2. Len(found) # Len(<<>>)
    BY <2>1
  <2> QED
    BY ONLY <2>2
<1> QED
  BY <1>1, <1>6, <1>8, <1>9, <1>10

\* A field whose parts stand together.
LEMMA OfFieldIs ==
  ASSUME NEW parts \in Seq(PartSet), NEW field, NEW from \in Nat, NEW other \in Seq(PartSet),
         from + Len(other) <= Len(parts),
         \A k \in 1..Len(other) : parts[from + k] = other[k] /\ other[k].field = field,
         \A i \in 1..Len(parts) : parts[i].field = field => i \in (from + 1)..(from + Len(other))
  PROVE  OfField(parts, field) = other
<1> DEFINE keep == {j \in DOMAIN parts : parts[j].field = field}
           P == keep \cap (1..Len(parts))
           at == [k \in 1..Len(other) |-> from + k]
<1>1. DOMAIN parts = 1..Len(parts) /\ Len(parts) \in Nat /\ Len(other) \in Nat
  OBVIOUS
<1>2. \A k \in 1..Len(other) : from + k \in 1..Len(parts)
  BY <1>1
<1>3. \A k \in 1..Len(other) : from + k \in P
  BY <1>1, <1>2
<1>4. \A j \in P : j - from \in 1..Len(other) /\ from + (j - from) = j
  <2>1. \A j \in P : j \in (from + 1)..(from + Len(other))
    BY <1>1
  <2> QED
    BY <1>1, <2>1
<1> HIDE DEF P
<1>5. Picks(at, other, parts, P)
  <2>1. at \in [1..Len(other) -> P]
    BY <1>3
  <2>2. \A j \in P : \E k \in 1..Len(other) : at[k] = j
    BY <1>4
  <2>3. \A k, l \in 1..Len(other) : k < l => at[k] < at[l]
    BY <1>1
  <2>4. \A k \in 1..Len(other) : other[k] = parts[at[k]]
    OBVIOUS
  <2> HIDE DEF at
  <2> QED
    BY <2>1, <2>2, <2>3, <2>4 DEF Picks
<1>6. other = Kept(parts, keep)
  <2>1. Picks(at, other, parts, keep \cap (1..Len(parts)))
    BY <1>5 DEF P
  <2> HIDE DEF keep, at
  <2> QED
    BY <2>1, KeptIs
<1> QED
  BY <1>6 DEF OfField

\* Results that are all good.
AllGood(results, values) ==
  /\ DOMAIN results = 1..Len(values)
  /\ \A i \in 1..Len(values) : results[i] = [ok |-> TRUE, value |-> values[i]]

LEMMA SucceededAll ==
  ASSUME NEW V, NEW values \in Seq(V), NEW results, results = [i \in DOMAIN results |-> results[i]],
         AllGood(results, values)
  PROVE  Succeeded(results) = values
<1> DEFINE R == [ok : BOOLEAN, value : V]
           n == Len(values)
           keep == {i \in DOMAIN results : results[i].ok}
           good == Kept(results, keep)
<1>1. n \in Nat /\ DOMAIN results = 1..n /\ \A i \in 1..n : values[i] \in V
  BY DEF AllGood
<1>2. \A i \in 1..n : results[i] \in R /\ results[i].ok = TRUE /\ results[i].value = values[i]
  <2> SUFFICES ASSUME NEW i \in 1..n
               PROVE  results[i] \in R /\ results[i].ok = TRUE /\ results[i].value = values[i]
    OBVIOUS
  <2>1. results[i] = [ok |-> TRUE, value |-> values[i]]
    BY DEF AllGood
  <2>2. [ok |-> TRUE, value |-> values[i]] \in R
    BY <1>1
  <2> QED
    BY <2>1, <2>2
<1>3. results \in Seq(R) /\ Len(results) = n
  <2> HIDE DEF R, n
  <2>1. results \in [1..n -> R]
    BY <1>1, <1>2
  <2> QED
    BY <1>1, <2>1
<1>4. 1..Len(results) \subseteq keep
  BY <1>1, <1>2, <1>3
<1>5. good = results
  <2> HIDE DEF keep, R
  <2> QED
    BY <1>3, <1>4, KeptAll
<1>6. Succeeded(results) = [i \in DOMAIN good |-> good[i].value]
  BY DEF Succeeded
<1> HIDE DEF good
<1>7. Succeeded(results) = [i \in 1..n |-> values[i]]
  BY <1>1, <1>2, <1>5, <1>6
<1>8. values = [i \in 1..n |-> values[i]]
  OBVIOUS
<1> QED
  BY ONLY <1>7, <1>8

LEMMA DecodedLabels ==
  ASSUME NEW parts, NEW field, NEW V, NEW values \in Seq(V), NEW found, OfField(parts, field) = found,
         DOMAIN found = 1..Len(values),
         \A i \in 1..Len(values) : DecodeLabel(found[i].bytes) = [ok |-> TRUE, value |-> values[i]]
  PROVE  DecodedParts(parts, field, DecodeLabel) = values
<1> DEFINE results == [i \in DOMAIN found |-> DecodeLabel(found[i].bytes)]
<1>1. DecodedParts(parts, field, DecodeLabel) = Succeeded(results)
  BY DEF DecodedParts
<1>2. AllGood(results, values) /\ results = [i \in DOMAIN results |-> results[i]]
  BY DEF AllGood
<1> HIDE DEF results
<1> QED
  BY <1>1, <1>2, SucceededAll

\* A part is no longer than the message it is in.
LEMMA PartShort ==
  ASSUME NEW parts \in Seq(PartSet), NEW i \in 1..Len(parts), IsShort(Len(Message(parts)))
  PROVE  IsShort(Len(parts[i].bytes))
<1> DEFINE n == Len(parts)
           data == Message(parts)
           part == parts[i]
<1>1. PICK e : IsLaid(e, parts, data)
  BY MessageLaid
<1>2. n \in Nat /\ Len(data) \in Nat /\ part \in PartSet /\ i \in 0..n /\ i - 1 \in 0..n /\ n \in 0..n /\ i <= n
  BY MessageLaid, LenProperties DEF Numbers
<1>3. /\ e \in [0..n -> Nat] /\ e[n] = Len(data)
      /\ e[i] = e[i - 1] + Len(Framed(part))
      /\ \A k, l \in 0..n : k <= l => e[k] <= e[l]
  BY <1>1 DEF IsLaid
<1> HIDE DEF n, part, data
<1>4. Len(Framed(part)) = HeadOf(part) + Len(part.bytes) /\ HeadOf(part) \in Nat /\ Len(part.bytes) \in Nat
  BY <1>2, FramesAre DEF IsFrame, PartSet, Numbers
<1>5. e[i] <= e[n] /\ e[i] \in Nat /\ e[i - 1] \in Nat /\ e[n] \in Nat
  BY <1>2, <1>3
<1>6. Len(part.bytes) <= Len(data)
  <2>1. \A a, b, c, d, x \in Nat : a = b + (c + d) /\ a <= x => d <= x
    OBVIOUS
  <2> QED
    BY <1>3, <1>4, <1>5, <2>1
<1>7. IsShort(Len(data))
  BY DEF data
<1>8. IsShort(Len(part.bytes))
  BY <1>2, <1>4, <1>6, <1>7, ShortBelow
<1> QED
  BY <1>8 DEF part

LEMMA TextFacts ==
  /\ \A s \in Text : s \in Numbers /\ Len(s) \in Nat
  /\ \A s \in Octets : s \in Numbers /\ Len(s) = 8
<1>1. ASSUME NEW s \in Text PROVE s \in Numbers /\ Len(s) \in Nat
  <2> DEFINE n == Len(s)
  <2>1. s \in Seq(Byte) /\ Byte \subseteq Nat
    BY DEF Text, Byte
  <2>2. n \in Nat /\ s \in [1..n -> Byte]
    BY <2>1
  <2> HIDE DEF n
  <2>3. s \in [1..n -> Nat]
    BY <2>1, <2>2
  <2>4. s \in Seq(Nat)
    BY <2>2, <2>3
  <2> QED
    BY <2>2, <2>4 DEF Numbers, n
<1>2. ASSUME NEW s \in Octets PROVE s \in Numbers /\ Len(s) = 8
  <2> DEFINE n == 8
  <2>1. s \in [1..n -> Byte] /\ n \in Nat
    BY DEF Octets
  <2>4. Byte \subseteq Nat
    BY DEF Byte
  <2> HIDE DEF n
  <2>3. s \in [1..n -> Nat]
    BY ONLY <2>1, <2>4
  <2>2. s \in Seq(Nat) /\ Len(s) = n
    BY ONLY <2>1, <2>3
  <2> QED
    BY <2>2 DEF Numbers, n
<1> QED
  BY <1>1, <1>2

\* The two parts of a label or a sample.
IsPair(parts, a, b) == Len(parts) = 2 /\ parts[1] = a /\ parts[2] = b

LEMMA PairIsParts ==
  ASSUME NEW a \in PartSet, NEW b \in PartSet
  PROVE  <<a, b>> \in Seq(PartSet) /\ IsPair(<<a, b>>, a, b)
  BY DEF IsPair

LEMMA LastOfPair ==
  ASSUME NEW parts \in Seq(PartSet), NEW a, NEW b, IsPair(parts, a, b), a.field = 1, b.field = 2, NEW default
  PROVE  LastOf(parts, 1, default) = a.bytes /\ LastOf(parts, 2, default) = b.bytes
<1> DEFINE f == 1
           g == 2
<1>1. /\ f \in 1..Len(parts) /\ parts[f].field = f
      /\ \A j \in (f + 1)..Len(parts) : parts[j].field # f
  BY DEF IsPair
<1>2. /\ g \in 1..Len(parts) /\ parts[g].field = g
      /\ \A j \in (g + 1)..Len(parts) : parts[j].field # g
  BY DEF IsPair
<1> HIDE DEF f, g
<1>3. LastOf(parts, f, default) = parts[f].bytes
  <2>1. IsLast(parts, f, f)
    BY <1>1 DEF IsLast
  <2> QED
    BY ONLY <2>1, LastOfIs
<1>4. LastOf(parts, g, default) = parts[g].bytes
  <2>1. IsLast(parts, g, g)
    BY <1>2 DEF IsLast
  <2> QED
    BY ONLY <2>1, LastOfIs
<1> QED
  BY <1>3, <1>4 DEF IsPair, f, g

LEMMA LabelDecoded ==
  ASSUME NEW label \in Text \X Text, IsShort(Len(EncodeLabel(label)))
  PROVE  DecodeLabel(EncodeLabel(label)) = [ok |-> TRUE, value |-> label]
<1> DEFINE a == Sized(1, label[1])
           b == Sized(2, label[2])
           parts == <<a, b>>
           lengths == {1, 2}
           eights == {}
           ends == {}
           data == Message(parts)
           nothing == <<>>
<1>1. /\ a \in PartSet /\ a.field = 1 /\ a.wire = 2 /\ a.bytes = label[1]
      /\ b \in PartSet /\ b.field = 2 /\ b.wire = 2 /\ b.bytes = label[2]
      /\ label = <<label[1], label[2]>>
  BY TextFacts DEF Sized, PartSet
<1>2. EncodeLabel(label) = data
  BY DEF EncodeLabel
<1> HIDE DEF a, b
<1>3. parts \in Seq(PartSet) /\ IsPair(parts, a, b)
  BY <1>1, PairIsParts
<1> HIDE DEF parts
<1>4. AllKnown(parts, lengths, eights)
  <2> SUFFICES ASSUME NEW i \in 1..Len(parts) PROVE IsKnown(parts[i], lengths, eights)
    BY DEF AllKnown
  <2>1. IsShort(Len(parts[i].bytes))
    BY <1>2, <1>3, PartShort
  <2>2. parts[i] = a \/ parts[i] = b
    BY <1>3 DEF IsPair
  <2> QED
    BY <1>1, <2>1, <2>2 DEF IsKnown
<1>5. Scans(data, lengths, eights, 1, ends, parts)
  <2> HIDE DEF lengths, eights, ends
  <2> QED
    BY <1>3, <1>4, ScanWhole
<1>6. LastOf(parts, 1, nothing) = label[1] /\ LastOf(parts, 2, nothing) = label[2]
  <2> HIDE DEF nothing
  <2> QED
    BY <1>1, <1>3, LastOfPair
<1> HIDE DEF data
<1>7. DecodeLabel(data) =
        [ok |-> Scan(data, {1, 2}, {}, 1, {}).ok,
         value |-> <<LastOf(Scan(data, {1, 2}, {}, 1, {}).parts, 1, <<>>), LastOf(Scan(data, {1, 2}, {}, 1, {}).parts, 2, <<>>)>>]
  BY DEF DecodeLabel
<1> QED
  BY <1>1, <1>2, <1>5, <1>6, <1>7 DEF Scans

LEMMA SampleDecoded ==
  ASSUME NEW sample \in Octets \X Octets
  PROVE  DecodeSample(EncodeSample(sample)) = [ok |-> TRUE, value |-> sample]
<1> DEFINE a == Eight(1, sample[1])
           b == Eight(2, sample[2])
           parts == <<a, b>>
           lengths == {}
           eights == {1, 2}
           ends == {}
           data == Message(parts)
<1>1. /\ a \in PartSet /\ a.field = 1 /\ a.wire = 1 /\ a.bytes = sample[1] /\ Len(a.bytes) = 8
      /\ b \in PartSet /\ b.field = 2 /\ b.wire = 1 /\ b.bytes = sample[2] /\ Len(b.bytes) = 8
      /\ sample = <<sample[1], sample[2]>>
  BY TextFacts DEF Eight, PartSet
<1>2. EncodeSample(sample) = data
  BY DEF EncodeSample
<1> HIDE DEF a, b
<1>3. parts \in Seq(PartSet) /\ IsPair(parts, a, b)
  BY <1>1, PairIsParts
<1> HIDE DEF parts
<1>4. AllKnown(parts, lengths, eights)
  <2> SUFFICES ASSUME NEW i \in 1..Len(parts) PROVE IsKnown(parts[i], lengths, eights)
    BY DEF AllKnown
  <2>1. parts[i] = a \/ parts[i] = b
    BY <1>3 DEF IsPair
  <2> QED
    BY <1>1, <2>1 DEF IsKnown
<1>5. Scans(data, lengths, eights, 1, ends, parts)
  <2> HIDE DEF lengths, eights, ends
  <2> QED
    BY <1>3, <1>4, ScanWhole
<1>6. LastOf(parts, 1, Zero) = sample[1] /\ LastOf(parts, 2, Zero) = sample[2]
  BY <1>1, <1>3, LastOfPair
<1> HIDE DEF data
<1>7. DecodeSample(data) =
        [ok |-> Scan(data, {}, {1, 2}, 1, {}).ok,
         value |-> <<LastOf(Scan(data, {}, {1, 2}, 1, {}).parts, 1, Zero), LastOf(Scan(data, {}, {1, 2}, 1, {}).parts, 2, Zero)>>]
  BY DEF DecodeSample
<1> QED
  BY <1>1, <1>2, <1>5, <1>6, <1>7 DEF Scans

LEMMA MatcherDecoded ==
  ASSUME NEW name \in Text, IsShort(Len(EncodeMatcher(name)))
  PROVE  DecodeMatcher(EncodeMatcher(name)) = [ok |-> TRUE, value |-> name]
<1> DEFINE a == Sized(1, name)
           parts == <<a>>
           one == 1
           lengths == {1}
           eights == {}
           ends == {}
           data == Message(parts)
           nothing == <<>>
<1>1. a \in PartSet /\ a.field = 1 /\ a.wire = 2 /\ a.bytes = name
  BY TextFacts DEF Sized, PartSet
<1>2. EncodeMatcher(name) = data
  BY DEF EncodeMatcher
<1> HIDE DEF a
<1>3. parts \in Seq(PartSet) /\ Len(parts) = 1 /\ parts[1] = a
  BY <1>1
<1> HIDE DEF parts
<1>4. AllKnown(parts, lengths, eights)
  <2> SUFFICES ASSUME NEW i \in 1..Len(parts) PROVE IsKnown(parts[i], lengths, eights)
    BY DEF AllKnown
  <2>1. IsShort(Len(parts[i].bytes))
    BY <1>2, <1>3, PartShort
  <2>2. parts[i] = a
    BY <1>3
  <2> QED
    BY <1>1, <2>1, <2>2 DEF IsKnown
<1>5. Scans(data, lengths, eights, 1, ends, parts)
  <2> HIDE DEF lengths, eights, ends
  <2> QED
    BY <1>3, <1>4, ScanWhole
<1>6. LastOf(parts, one, nothing) = name
  <2>1. one \in 1..Len(parts) /\ parts[one].field = one /\ \A j \in (one + 1)..Len(parts) : parts[j].field # one
    BY <1>1, <1>3
  <2>2. parts[one].bytes = name
    BY <1>1, <1>3
  <2> HIDE DEF one, nothing
  <2>3. IsLast(parts, one, one)
    BY <1>3, <2>1 DEF IsLast
  <2>4. LastOf(parts, one, nothing) = parts[one].bytes
    BY ONLY <2>3, LastOfIs
  <2> QED
    BY <2>2, <2>4
<1> HIDE DEF data
<1>7. DecodeMatcher(data) =
        [ok |-> Scan(data, {1}, {}, 1, {}).ok, value |-> LastOf(Scan(data, {1}, {}, 1, {}).parts, 1, <<>>)]
  BY DEF DecodeMatcher
<1> QED
  BY <1>2, <1>5, <1>6, <1>7 DEF Scans

LEMMA DecodedSamples ==
  ASSUME NEW parts, NEW field, NEW V, NEW values \in Seq(V), NEW found, OfField(parts, field) = found,
         DOMAIN found = 1..Len(values),
         \A i \in 1..Len(values) : DecodeSample(found[i].bytes) = [ok |-> TRUE, value |-> values[i]]
  PROVE  DecodedParts(parts, field, DecodeSample) = values
<1> DEFINE results == [i \in DOMAIN found |-> DecodeSample(found[i].bytes)]
<1>1. DecodedParts(parts, field, DecodeSample) = Succeeded(results)
  BY DEF DecodedParts
<1>2. AllGood(results, values) /\ results = [i \in DOMAIN results |-> results[i]]
  BY DEF AllGood
<1> HIDE DEF results
<1> QED
  BY <1>1, <1>2, SucceededAll

LEMMA DecodedMatchers ==
  ASSUME NEW parts, NEW field, NEW V, NEW values \in Seq(V), NEW found, OfField(parts, field) = found,
         DOMAIN found = 1..Len(values),
         \A i \in 1..Len(values) : DecodeMatcher(found[i].bytes) = [ok |-> TRUE, value |-> values[i]]
  PROVE  DecodedParts(parts, field, DecodeMatcher) = values
<1> DEFINE results == [i \in DOMAIN found |-> DecodeMatcher(found[i].bytes)]
<1>1. DecodedParts(parts, field, DecodeMatcher) = Succeeded(results)
  BY DEF DecodedParts
<1>2. AllGood(results, values) /\ results = [i \in DOMAIN results |-> results[i]]
  BY DEF AllGood
<1> HIDE DEF results
<1> QED
  BY <1>1, <1>2, SucceededAll

LEMMA DecodedSeries ==
  ASSUME NEW parts, NEW field, NEW V, NEW values \in Seq(V), NEW found, OfField(parts, field) = found,
         DOMAIN found = 1..Len(values),
         \A i \in 1..Len(values) : DecodeTimeseries(found[i].bytes) = [ok |-> TRUE, value |-> values[i]]
  PROVE  DecodedParts(parts, field, DecodeTimeseries) = values
<1> DEFINE results == [i \in DOMAIN found |-> DecodeTimeseries(found[i].bytes)]
<1>1. DecodedParts(parts, field, DecodeTimeseries) = Succeeded(results)
  BY DEF DecodedParts
<1>2. AllGood(results, values) /\ results = [i \in DOMAIN results |-> results[i]]
  BY DEF AllGood
<1> HIDE DEF results
<1> QED
  BY <1>1, <1>2, SucceededAll

LEMMA DecodedQueries ==
  ASSUME NEW parts, NEW field, NEW V, NEW values \in Seq(V), NEW found, OfField(parts, field) = found,
         DOMAIN found = 1..Len(values),
         \A i \in 1..Len(values) : DecodeQuery(found[i].bytes) = [ok |-> TRUE, value |-> values[i]]
  PROVE  DecodedParts(parts, field, DecodeQuery) = values
<1> DEFINE results == [i \in DOMAIN found |-> DecodeQuery(found[i].bytes)]
<1>1. DecodedParts(parts, field, DecodeQuery) = Succeeded(results)
  BY DEF DecodedParts
<1>2. AllGood(results, values) /\ results = [i \in DOMAIN results |-> results[i]]
  BY DEF AllGood
<1> HIDE DEF results
<1> QED
  BY <1>1, <1>2, SucceededAll

LEMMA SmallMessages ==
  /\ \A label \in Text \X Text : EncodeLabel(label) \in Numbers
  /\ \A sample \in Octets \X Octets : EncodeSample(sample) \in Numbers
  /\ \A name \in Text : EncodeMatcher(name) \in Numbers
<1>1. ASSUME NEW label \in Text \X Text PROVE EncodeLabel(label) \in Numbers
  <2>1. Sized(1, label[1]) \in PartSet /\ Sized(2, label[2]) \in PartSet
    BY TextFacts DEF Sized, PartSet
  <2>2. <<Sized(1, label[1]), Sized(2, label[2])>> \in Seq(PartSet)
    BY <2>1
  <2> QED
    BY <2>2, MessageLaid DEF EncodeLabel
<1>2. ASSUME NEW sample \in Octets \X Octets PROVE EncodeSample(sample) \in Numbers
  <2>1. Eight(1, sample[1]) \in PartSet /\ Eight(2, sample[2]) \in PartSet
    BY TextFacts DEF Eight, PartSet
  <2>2. <<Eight(1, sample[1]), Eight(2, sample[2])>> \in Seq(PartSet)
    BY <2>1
  <2> QED
    BY <2>2, MessageLaid DEF EncodeSample
<1>3. ASSUME NEW name \in Text PROVE EncodeMatcher(name) \in Numbers
  <2>1. Sized(1, name) \in PartSet
    BY TextFacts DEF Sized, PartSet
  <2>2. <<Sized(1, name)>> \in Seq(PartSet)
    BY <2>1
  <2> QED
    BY <2>2, MessageLaid DEF EncodeMatcher
<1> QED
  BY <1>1, <1>2, <1>3

LabelParts(series) == [j \in DOMAIN series.labels |-> Sized(1, EncodeLabel(series.labels[j]))]
SampleParts(series) == [j \in DOMAIN series.samples |-> Sized(2, EncodeSample(series.samples[j]))]
NameParts(query) == [j \in DOMAIN query.names |-> Sized(3, EncodeMatcher(query.names[j]))]

\* Parts of a field, one for each message of a list.
ArePartsOf(parts, n, field) ==
  /\ parts \in Seq(PartSet) /\ Len(parts) = n /\ DOMAIN parts = 1..n
  /\ \A j \in 1..n : parts[j].field = field /\ parts[j].wire = 2

LEMMA SeriesPartsAre ==
  ASSUME NEW series \in TimeSeries
  PROVE  /\ ArePartsOf(LabelParts(series), Len(series.labels), 1)
         /\ \A j \in 1..Len(series.labels) : LabelParts(series)[j].bytes = EncodeLabel(series.labels[j])
         /\ ArePartsOf(SampleParts(series), Len(series.samples), 2)
         /\ \A j \in 1..Len(series.samples) : SampleParts(series)[j].bytes = EncodeSample(series.samples[j])
<1>1. /\ series.labels \in Seq(Text \X Text) /\ series.samples \in Seq(Octets \X Octets)
  BY DEF TimeSeries
<1> DEFINE labels == series.labels
           samples == series.samples
           m == Len(labels)
           n == Len(samples)
           A == LabelParts(series)
           B == SampleParts(series)
<1>2. m \in Nat /\ n \in Nat /\ DOMAIN labels = 1..m /\ DOMAIN samples = 1..n
  BY <1>1
<1>3. \A j \in 1..m : Sized(1, EncodeLabel(labels[j])) \in PartSet
  BY <1>1, SmallMessages DEF Sized, PartSet
<1>4. \A j \in 1..n : Sized(2, EncodeSample(samples[j])) \in PartSet
  BY <1>1, SmallMessages DEF Sized, PartSet
<1>5. A = [j \in 1..m |-> Sized(1, EncodeLabel(labels[j]))] /\ B = [j \in 1..n |-> Sized(2, EncodeSample(samples[j]))]
  BY <1>2 DEF LabelParts, SampleParts
<1> HIDE DEF A, B, m, n
<1>6. A \in [1..m -> PartSet] /\ B \in [1..n -> PartSet]
  BY <1>3, <1>4, <1>5
<1>7. A \in Seq(PartSet) /\ Len(A) = m /\ B \in Seq(PartSet) /\ Len(B) = n
  BY <1>2, <1>6
<1>8. \A j \in 1..m : A[j].field = 1 /\ A[j].wire = 2 /\ A[j].bytes = EncodeLabel(labels[j])
  BY <1>5 DEF Sized
<1>9. \A j \in 1..n : B[j].field = 2 /\ B[j].wire = 2 /\ B[j].bytes = EncodeSample(samples[j])
  BY <1>5 DEF Sized
<1>10. DOMAIN A = 1..m /\ DOMAIN B = 1..n
  BY <1>5
<1> QED
  BY <1>7, <1>8, <1>9, <1>10 DEF ArePartsOf, A, B, m, n

LEMMA NamePartsAre ==
  ASSUME NEW query \in RemoteQuery
  PROVE  /\ ArePartsOf(NameParts(query), Len(query.names), 3)
         /\ \A j \in 1..Len(query.names) : NameParts(query)[j].bytes = EncodeMatcher(query.names[j])
<1>1. query.names \in Seq(Text)
  BY DEF RemoteQuery
<1> DEFINE names == query.names
           n == Len(names)
           A == NameParts(query)
<1>2. n \in Nat /\ DOMAIN names = 1..n
  BY <1>1
<1>3. \A j \in 1..n : Sized(3, EncodeMatcher(names[j])) \in PartSet
  BY <1>1, SmallMessages DEF Sized, PartSet
<1>5. A = [j \in 1..n |-> Sized(3, EncodeMatcher(names[j]))]
  BY <1>2 DEF NameParts
<1> HIDE DEF A, n
<1>6. A \in [1..n -> PartSet]
  BY <1>3, <1>5
<1>7. A \in Seq(PartSet) /\ Len(A) = n
  BY <1>2, <1>6
<1>8. \A j \in 1..n : A[j].field = 3 /\ A[j].wire = 2 /\ A[j].bytes = EncodeMatcher(names[j])
  BY <1>5 DEF Sized
<1>9. DOMAIN A = 1..n
  BY <1>5
<1> QED
  BY <1>7, <1>8, <1>9 DEF ArePartsOf, A, n

\* Two lists of parts, of different fields, one behind the other.
IsBoth(all, A, B, m, n, f, g) ==
  /\ OfField(all, f) = A /\ OfField(all, g) = B
  /\ \A i \in 1..Len(all) : all[i].wire = 2 /\ all[i].field \in {f, g}
  /\ \A i \in 1..m : i \in 1..Len(all) /\ all[i] = A[i]
  /\ \A i \in 1..n : m + i \in 1..Len(all) /\ all[m + i] = B[i]

LEMMA BothFields ==
  ASSUME NEW A, NEW B, NEW m, NEW n, NEW f, NEW g, f # g, ArePartsOf(A, m, f), ArePartsOf(B, n, g)
  PROVE  A \o B \in Seq(PartSet) /\ IsBoth(A \o B, A, B, m, n, f, g)
<1> DEFINE all == A \o B
           zero == 0
<1>1. /\ A \in Seq(PartSet) /\ Len(A) = m /\ B \in Seq(PartSet) /\ Len(B) = n /\ m \in Nat /\ n \in Nat
      /\ \A j \in 1..m : A[j].field = f /\ A[j].wire = 2
      /\ \A j \in 1..n : B[j].field = g /\ B[j].wire = 2
  BY LenProperties DEF ArePartsOf
<1>2. all \in Seq(PartSet) /\ IsBehind(all, A, B)
  BY <1>1, BehindFacts
<1> HIDE DEF all
<1>3. /\ Len(all) = m + n
      /\ \A k \in 1..m : all[k] = A[k]
      /\ \A k \in 1..n : all[m + k] = B[k]
  BY <1>1, <1>2 DEF IsBehind
<1>4. \A i \in 1..Len(all) : i \in 1..m \/ (i \in (m + 1)..(m + n) /\ i - m \in 1..n /\ m + (i - m) = i)
  BY <1>1, <1>3
<1>5. \A i \in 1..m : all[i].field = f /\ all[i].wire = 2
  BY <1>1, <1>3
<1>6. \A i \in (m + 1)..(m + n) : i - m \in 1..n => all[i].field = g /\ all[i].wire = 2
  <2> SUFFICES ASSUME NEW i \in (m + 1)..(m + n), i - m \in 1..n PROVE all[i].field = g /\ all[i].wire = 2
    OBVIOUS
  <2>1. all[m + (i - m)] = B[i - m] /\ m + (i - m) = i
    BY <1>1, <1>3
  <2> QED
    BY <1>1, <2>1
<1>7. \A i \in 1..Len(all) : all[i].wire = 2 /\ all[i].field \in {f, g}
  BY <1>4, <1>5, <1>6
<1>8. OfField(all, f) = A
  <2>1. zero \in Nat /\ zero + Len(A) <= Len(all)
    BY <1>1, <1>3
  <2>2. \A k \in 1..Len(A) : all[zero + k] = A[k] /\ A[k].field = f
    BY <1>1, <1>3
  <2>3. \A i \in 1..Len(all) : all[i].field = f => i \in (zero + 1)..(zero + Len(A))
    BY <1>1, <1>4, <1>6
  <2> HIDE DEF zero
  <2> QED
    BY ONLY <1>1, <1>2, <2>1, <2>2, <2>3, OfFieldIs
<1>9. OfField(all, g) = B
  <2>1. m + Len(B) <= Len(all)
    BY <1>1, <1>3
  <2>2. \A k \in 1..Len(B) : all[m + k] = B[k] /\ B[k].field = g
    BY <1>1, <1>3
  <2>3. \A i \in 1..Len(all) : all[i].field = g => i \in (m + 1)..(m + Len(B))
    BY <1>1, <1>4, <1>5
  <2> QED
    BY ONLY <1>1, <1>2, <2>1, <2>2, <2>3, OfFieldIs
<1>10. \A i \in 1..m : i \in 1..Len(all)
  BY <1>1, <1>3
<1>11. \A i \in 1..n : m + i \in 1..Len(all)
  BY <1>1, <1>3
<1> QED
  BY <1>2, <1>3, <1>7, <1>8, <1>9, <1>10, <1>11 DEF all, IsBoth

LEMMA SeriesDecoded ==
  ASSUME NEW series \in TimeSeries, IsShort(Len(EncodeTimeseries(series)))
  PROVE  DecodeTimeseries(EncodeTimeseries(series)) = [ok |-> TRUE, value |-> series]
<1> DEFINE labels == series.labels
           samples == series.samples
           m == Len(labels)
           n == Len(samples)
           A == LabelParts(series)
           B == SampleParts(series)
           f == 1
           g == 2
           parts == A \o B
           data == Message(parts)
           lengths == {1, 2}
           eights == {}
           ends == {"long"}
<1>1. /\ labels \in Seq(Text \X Text) /\ samples \in Seq(Octets \X Octets)
      /\ series = [labels |-> labels, samples |-> samples]
  BY DEF TimeSeries
<1>2. EncodeTimeseries(series) = data
  BY DEF EncodeTimeseries, SeriesParts, LabelParts, SampleParts
<1>3. /\ ArePartsOf(A, m, f) /\ \A j \in 1..m : A[j].bytes = EncodeLabel(labels[j])
      /\ ArePartsOf(B, n, g) /\ \A j \in 1..n : B[j].bytes = EncodeSample(samples[j])
  BY SeriesPartsAre
<1>4. f # g /\ {f, g} = lengths
  OBVIOUS
<1> HIDE DEF A, B, f, g
<1>5. /\ parts \in Seq(PartSet) /\ OfField(parts, f) = A /\ OfField(parts, g) = B
      /\ \A i \in 1..Len(parts) : parts[i].wire = 2 /\ parts[i].field \in {f, g}
      /\ \A i \in 1..m : i \in 1..Len(parts) /\ parts[i] = A[i]
      /\ \A i \in 1..n : m + i \in 1..Len(parts) /\ parts[m + i] = B[i]
  <2>1. parts \in Seq(PartSet) /\ IsBoth(parts, A, B, m, n, f, g)
    <3> HIDE DEF m, n
    <3> QED
      BY ONLY <1>3, <1>4, BothFields
  <2> HIDE DEF parts, m, n
  <2> QED
    BY ONLY <2>1 DEF IsBoth
<1> HIDE DEF parts, m, n
<1>6. \A i \in 1..Len(parts) : IsShort(Len(parts[i].bytes))
  BY <1>2, <1>5, PartShort
<1>7. AllKnown(parts, lengths, eights)
  <2> SUFFICES ASSUME NEW i \in 1..Len(parts) PROVE IsKnown(parts[i], lengths, eights)
    BY DEF AllKnown
  <2>1. parts[i] \in PartSet /\ parts[i].wire = 2 /\ parts[i].field \in lengths
    <3>1. parts[i] \in PartSet
      BY <1>5
    <3>2. parts[i].wire = 2 /\ parts[i].field \in {f, g}
      BY <1>5
    <3> QED
      BY ONLY <1>4, <3>1, <3>2
  <2> QED
    BY <1>6, <2>1 DEF IsKnown
<1>8. Scans(data, lengths, eights, 1, ends, parts)
  <2> HIDE DEF lengths, eights, ends
  <2> QED
    BY <1>5, <1>7, ScanWhole
<1>9. DOMAIN A = 1..m /\ DOMAIN B = 1..n
  BY <1>3 DEF ArePartsOf
<1>10. DecodedParts(parts, f, DecodeLabel) = labels
  <2>1. \A i \in 1..m : DecodeLabel(A[i].bytes) = [ok |-> TRUE, value |-> labels[i]]
    <3> SUFFICES ASSUME NEW i \in 1..m PROVE DecodeLabel(A[i].bytes) = [ok |-> TRUE, value |-> labels[i]]
      OBVIOUS
    <3>1. labels[i] \in Text \X Text
      BY <1>1 DEF m
    <3>2. IsShort(Len(EncodeLabel(labels[i]))) /\ A[i].bytes = EncodeLabel(labels[i])
      BY <1>3, <1>5, <1>6
    <3> HIDE DEF labels
    <3> QED
      BY <3>1, <3>2, LabelDecoded
  <2> DEFINE V == Text \X Text
  <2>2. labels \in Seq(V) /\ DOMAIN A = 1..Len(labels) /\ OfField(parts, f) = A
    BY <1>1, <1>5, <1>9 DEF m
  <2>3. \A i \in 1..Len(labels) : DecodeLabel(A[i].bytes) = [ok |-> TRUE, value |-> labels[i]]
    BY <2>1 DEF m
  <2> HIDE DEF labels, V
  <2> QED
    BY ONLY <2>2, <2>3, DecodedLabels
<1>11. DecodedParts(parts, g, DecodeSample) = samples
  <2>1. \A i \in 1..n : DecodeSample(B[i].bytes) = [ok |-> TRUE, value |-> samples[i]]
    <3> SUFFICES ASSUME NEW i \in 1..n PROVE DecodeSample(B[i].bytes) = [ok |-> TRUE, value |-> samples[i]]
      OBVIOUS
    <3>1. samples[i] \in Octets \X Octets
      BY <1>1 DEF n
    <3> HIDE DEF samples
    <3> QED
      BY <1>3, <3>1, SampleDecoded
  <2> DEFINE V == Octets \X Octets
  <2>2. samples \in Seq(V) /\ DOMAIN B = 1..Len(samples) /\ OfField(parts, g) = B
    BY <1>1, <1>5, <1>9 DEF n
  <2>3. \A i \in 1..Len(samples) : DecodeSample(B[i].bytes) = [ok |-> TRUE, value |-> samples[i]]
    BY <2>1 DEF n
  <2> HIDE DEF samples, V
  <2> QED
    BY ONLY <2>2, <2>3, DecodedSamples
<1> HIDE DEF data, labels, samples
<1>12. DecodeTimeseries(data) =
        [ok |-> Scan(data, {1, 2}, {}, 1, {"long"}).ok,
         value |-> [labels |-> DecodedParts(Scan(data, {1, 2}, {}, 1, {"long"}).parts, 1, DecodeLabel),
                    samples |-> DecodedParts(Scan(data, {1, 2}, {}, 1, {"long"}).parts, 2, DecodeSample)]]
  BY DEF DecodeTimeseries
<1>13. DecodeTimeseries(data) =
        [ok |-> TRUE, value |-> [labels |-> DecodedParts(parts, 1, DecodeLabel), samples |-> DecodedParts(parts, 2, DecodeSample)]]
  BY <1>8, <1>12 DEF Scans
<1> QED
  BY <1>1, <1>2, <1>10, <1>11, <1>13 DEF f, g

LEMMA QueryDecoded ==
  ASSUME NEW query \in RemoteQuery, IsShort(Len(EncodeQuery(query)))
  PROVE  DecodeQuery(EncodeQuery(query)) = [ok |-> TRUE, value |-> query]
<1> DEFINE names == query.names
           n == Len(names)
           a == Eight(1, query.start)
           b == Eight(2, query.end)
           A == <<a, b>>
           B == NameParts(query)
           f == 1
           g == 2
           h == 3
           parts == A \o B
           data == Message(parts)
           lengths == {3}
           eights == {1, 2}
           ends == {}
           two == 2
<1>1. /\ names \in Seq(Text) /\ query.start \in Octets /\ query.end \in Octets
      /\ query = [start |-> query.start, end |-> query.end, names |-> names]
  BY DEF RemoteQuery
<1>2. EncodeQuery(query) = data
  BY DEF EncodeQuery, QueryParts, NameParts
<1>3. /\ a \in PartSet /\ a.field = 1 /\ a.wire = 1 /\ a.bytes = query.start /\ Len(a.bytes) = 8
      /\ b \in PartSet /\ b.field = 2 /\ b.wire = 1 /\ b.bytes = query.end /\ Len(b.bytes) = 8
  BY <1>1, TextFacts DEF Eight, PartSet
<1> HIDE DEF a, b
<1>4. A \in Seq(PartSet) /\ Len(A) = 2 /\ A[1] = a /\ A[2] = b
  BY <1>3, PairIsParts DEF IsPair
<1>5. ArePartsOf(B, n, h) /\ \A j \in 1..n : B[j].bytes = EncodeMatcher(names[j])
  BY NamePartsAre
<1> HIDE DEF A, B
<1>6. /\ B \in Seq(PartSet) /\ Len(B) = n /\ n \in Nat /\ DOMAIN B = 1..n
      /\ \A j \in 1..n : B[j].field = 3 /\ B[j].wire = 2
  BY <1>5, LenProperties DEF ArePartsOf
<1>7. parts \in Seq(PartSet) /\ IsBehind(parts, A, B)
  BY <1>4, <1>6, BehindFacts
<1> HIDE DEF parts, n
<1>8. /\ Len(parts) = 2 + n /\ parts[1] = a /\ parts[2] = b
      /\ \A k \in 1..n : parts[2 + k] = B[k]
  BY <1>4, <1>6, <1>7 DEF IsBehind
<1>9. ASSUME NEW i \in 1..Len(parts), i # 1, i # 2 PROVE parts[i].field = 3 /\ parts[i].wire = 2 /\ i \in 3..(2 + n)
  <2>1. i - 2 \in 1..n /\ 2 + (i - 2) = i /\ i \in 3..(2 + n)
    BY <1>6, <1>8, <1>9
  <2>2. parts[2 + (i - 2)] = B[i - 2]
    BY <1>8, <2>1
  <2> QED
    BY <1>6, <2>1, <2>2
<1>10. AllKnown(parts, lengths, eights)
  <2> SUFFICES ASSUME NEW i \in 1..Len(parts) PROVE IsKnown(parts[i], lengths, eights)
    BY DEF AllKnown
  <2>1. parts[i] \in PartSet /\ IsShort(Len(parts[i].bytes))
    BY <1>2, <1>7, PartShort
  <2>2. CASE i = 1
    BY <1>3, <1>8, <2>1, <2>2 DEF IsKnown
  <2>3. CASE i = 2
    BY <1>3, <1>8, <2>1, <2>3 DEF IsKnown
  <2>4. CASE i # 1 /\ i # 2
    BY <1>9, <2>1, <2>4 DEF IsKnown
  <2> QED
    BY <2>2, <2>3, <2>4
<1>11. Scans(data, lengths, eights, 1, ends, parts)
  <2> HIDE DEF lengths, eights, ends
  <2> QED
    BY <1>7, <1>10, ScanWhole
<1>12. LastOf(parts, f, Zero) = query.start
  <2>1. f \in 1..Len(parts) /\ parts[f].field = f /\ parts[f].bytes = query.start
    BY <1>3, <1>6, <1>8
  <2>2. \A j \in (f + 1)..Len(parts) : parts[j].field # f
    <3> SUFFICES ASSUME NEW j \in (f + 1)..Len(parts) PROVE parts[j].field # f
      OBVIOUS
    <3>1. j \in 1..Len(parts) /\ j # 1
      BY <1>6, <1>8
    <3>2. CASE j = 2
      BY <1>3, <1>8, <3>2
    <3>3. CASE j # 2
      BY <1>9, <3>1, <3>3
    <3> QED
      BY <3>2, <3>3
  <2> HIDE DEF f
  <2>3. IsLast(parts, f, f)
    BY <1>7, <2>1, <2>2 DEF IsLast
  <2>4. LastOf(parts, f, Zero) = parts[f].bytes
    BY ONLY <2>3, LastOfIs
  <2> QED
    BY <2>1, <2>4
<1>13. LastOf(parts, g, Zero) = query.end
  <2>1. g \in 1..Len(parts) /\ parts[g].field = g /\ parts[g].bytes = query.end
    BY <1>3, <1>6, <1>8
  <2>2. \A j \in (g + 1)..Len(parts) : parts[j].field # g
    <3> SUFFICES ASSUME NEW j \in (g + 1)..Len(parts) PROVE parts[j].field # g
      OBVIOUS
    <3>1. j \in 1..Len(parts) /\ j # 1 /\ j # 2
      BY <1>6, <1>8
    <3> QED
      BY <1>9, <3>1
  <2> HIDE DEF g
  <2>3. IsLast(parts, g, g)
    BY <1>7, <2>1, <2>2 DEF IsLast
  <2>4. LastOf(parts, g, Zero) = parts[g].bytes
    BY ONLY <2>3, LastOfIs
  <2> QED
    BY <2>1, <2>4
<1>14. OfField(parts, h) = B
  <2>1. two \in Nat /\ two + Len(B) <= Len(parts)
    BY <1>6, <1>8
  <2>2. \A k \in 1..Len(B) : parts[two + k] = B[k] /\ B[k].field = h
    BY <1>6, <1>8
  <2>3. \A i \in 1..Len(parts) : parts[i].field = h => i \in (two + 1)..(two + Len(B))
    <3> SUFFICES ASSUME NEW i \in 1..Len(parts), parts[i].field = h PROVE i \in (two + 1)..(two + Len(B))
      OBVIOUS
    <3>1. i # 1 /\ i # 2
      BY <1>3, <1>8
    <3> QED
      BY <1>6, <1>9, <3>1
  <2> HIDE DEF two, h
  <2> QED
    BY ONLY <1>6, <1>7, <2>1, <2>2, <2>3, OfFieldIs
<1>15. DecodedParts(parts, h, DecodeMatcher) = names
  <2>1. \A i \in 1..n : DecodeMatcher(B[i].bytes) = [ok |-> TRUE, value |-> names[i]]
    <3> SUFFICES ASSUME NEW i \in 1..n PROVE DecodeMatcher(B[i].bytes) = [ok |-> TRUE, value |-> names[i]]
      OBVIOUS
    <3>1. names[i] \in Text
      BY <1>1 DEF n
    <3>2. 2 + i \in 1..Len(parts) /\ parts[2 + i] = B[i]
      BY <1>6, <1>8
    <3>3. IsShort(Len(parts[2 + i].bytes))
      BY <1>2, <1>7, <3>2, PartShort
    <3>4. IsShort(Len(EncodeMatcher(names[i]))) /\ B[i].bytes = EncodeMatcher(names[i])
      BY <1>5, <3>2, <3>3
    <3> HIDE DEF names
    <3> QED
      BY <3>1, <3>4, MatcherDecoded
  <2> HIDE DEF names, h
  <2> QED
    BY <1>1, <1>6, <1>14, <2>1, DecodedMatchers DEF n
<1> HIDE DEF data, names
<1>16. DecodeQuery(data) =
        [ok |-> Scan(data, {3}, {1, 2}, 1, {}).ok,
         value |-> [start |-> LastOf(Scan(data, {3}, {1, 2}, 1, {}).parts, 1, Zero),
                    end |-> LastOf(Scan(data, {3}, {1, 2}, 1, {}).parts, 2, Zero),
                    names |-> DecodedParts(Scan(data, {3}, {1, 2}, 1, {}).parts, 3, DecodeMatcher)]]
  BY DEF DecodeQuery
<1>17. DecodeQuery(data) =
        [ok |-> TRUE, value |-> [start |-> LastOf(parts, 1, Zero), end |-> LastOf(parts, 2, Zero),
                                 names |-> DecodedParts(parts, 3, DecodeMatcher)]]
  BY <1>11, <1>16 DEF Scans
<1> QED
  BY <1>1, <1>2, <1>12, <1>13, <1>15, <1>17

LEMMA RequestMessages ==
  /\ \A series \in TimeSeries : EncodeTimeseries(series) \in Numbers
  /\ \A query \in RemoteQuery : EncodeQuery(query) \in Numbers
<1>1. ASSUME NEW series \in TimeSeries PROVE EncodeTimeseries(series) \in Numbers
  <2> DEFINE A == LabelParts(series)
             B == SampleParts(series)
  <2>1. A \in Seq(PartSet) /\ B \in Seq(PartSet)
    BY SeriesPartsAre DEF ArePartsOf
  <2>2. EncodeTimeseries(series) = Message(A \o B)
    BY DEF EncodeTimeseries, SeriesParts, LabelParts, SampleParts
  <2> HIDE DEF A, B
  <2>3. A \o B \in Seq(PartSet)
    BY <2>1, BehindFacts
  <2> QED
    BY <2>2, <2>3, MessageLaid
<1>2. ASSUME NEW query \in RemoteQuery PROVE EncodeQuery(query) \in Numbers
  <2> DEFINE A == <<Eight(1, query.start), Eight(2, query.end)>>
             B == NameParts(query)
  <2>1. B \in Seq(PartSet)
    BY NamePartsAre DEF ArePartsOf
  <2>2. EncodeQuery(query) = Message(A \o B)
    BY DEF EncodeQuery, QueryParts, NameParts
  <2>3. A \in Seq(PartSet)
    <3>1. Eight(1, query.start) \in PartSet /\ Eight(2, query.end) \in PartSet
      BY TextFacts DEF Eight, PartSet, RemoteQuery
    <3> QED
      BY <3>1
  <2> HIDE DEF A, B
  <2>4. A \o B \in Seq(PartSet)
    BY <2>1, <2>3, BehindFacts
  <2> QED
    BY <2>2, <2>4, MessageLaid
<1> QED
  BY <1>1, <1>2

LEMMA WritePartsAre ==
  ASSUME NEW list \in Seq(TimeSeries)
  PROVE  /\ ArePartsOf(WriteParts(list), Len(list), 1)
         /\ \A j \in 1..Len(list) : WriteParts(list)[j] = Sized(1, EncodeTimeseries(list[j]))
<1> DEFINE n == Len(list)
           A == WriteParts(list)
<1>1. n \in Nat /\ DOMAIN list = 1..n
  OBVIOUS
<1>2. \A j \in 1..n : Sized(1, EncodeTimeseries(list[j])) \in PartSet
  BY RequestMessages DEF Sized, PartSet
<1>3. A = [j \in 1..n |-> Sized(1, EncodeTimeseries(list[j]))]
  BY <1>1 DEF WriteParts
<1> HIDE DEF A, n
<1>4. A \in [1..n -> PartSet]
  BY <1>2, <1>3
<1>5. A \in Seq(PartSet) /\ Len(A) = n
  BY <1>1, <1>4
<1>6. \A j \in 1..n : A[j].field = 1 /\ A[j].wire = 2
  BY <1>3 DEF Sized
<1>7. DOMAIN A = 1..n
  BY <1>3
<1> QED
  BY <1>3, <1>5, <1>6, <1>7 DEF ArePartsOf, A, n

LEMMA ReadPartsAre ==
  ASSUME NEW list \in Seq(RemoteQuery)
  PROVE  /\ ArePartsOf(ReadParts(list), Len(list), 1)
         /\ \A j \in 1..Len(list) : ReadParts(list)[j] = Sized(1, EncodeQuery(list[j]))
<1> DEFINE n == Len(list)
           A == ReadParts(list)
<1>1. n \in Nat /\ DOMAIN list = 1..n
  OBVIOUS
<1>2. \A j \in 1..n : Sized(1, EncodeQuery(list[j])) \in PartSet
  BY RequestMessages DEF Sized, PartSet
<1>3. A = [j \in 1..n |-> Sized(1, EncodeQuery(list[j]))]
  BY <1>1 DEF ReadParts
<1> HIDE DEF A, n
<1>4. A \in [1..n -> PartSet]
  BY <1>2, <1>3
<1>5. A \in Seq(PartSet) /\ Len(A) = n
  BY <1>1, <1>4
<1>6. \A j \in 1..n : A[j].field = 1 /\ A[j].wire = 2
  BY <1>3 DEF Sized
<1>7. DOMAIN A = 1..n
  BY <1>3
<1> QED
  BY <1>3, <1>5, <1>6, <1>7 DEF ArePartsOf, A, n

\* A field that all parts have.
LEMMA OneField ==
  ASSUME NEW parts, NEW n, NEW f, ArePartsOf(parts, n, f)
  PROVE  OfField(parts, f) = parts
<1> DEFINE zero == 0
<1>1. parts \in Seq(PartSet) /\ n = Len(parts) /\ n \in Nat /\ \A j \in 1..n : parts[j].field = f
  BY LenProperties DEF ArePartsOf
<1>2. zero \in Nat /\ zero + Len(parts) <= Len(parts)
  BY <1>1
<1>3. \A k \in 1..Len(parts) : parts[zero + k] = parts[k] /\ parts[k].field = f
  BY <1>1
<1>4. \A i \in 1..Len(parts) : parts[i].field = f => i \in (zero + 1)..(zero + Len(parts))
  BY <1>1
<1> HIDE DEF zero
<1> QED
  BY ONLY <1>1, <1>2, <1>3, <1>4, OfFieldIs

\* The first parts are those of the first requests.
LEMMA FirstWriteParts ==
  ASSUME NEW list \in Seq(TimeSeries), NEW n \in 0..Len(list)
  PROVE  /\ SubSeq(list, 1, n) \in Seq(TimeSeries) /\ Len(SubSeq(list, 1, n)) = n
         /\ \A k \in 1..n : SubSeq(list, 1, n)[k] = list[k]
         /\ WriteParts(SubSeq(list, 1, n)) = SubSeq(WriteParts(list), 1, n)
<1> DEFINE first == SubSeq(list, 1, n)
           P == WriteParts(list)
           Q == WriteParts(first)
           R == SubSeq(P, 1, n)
           one == 1
<1>1. n \in Nat /\ Len(list) \in Nat /\ one \in Nat /\ 1 <= one /\ one <= n + 1 /\ n <= Len(list)
  OBVIOUS
<1>2. n - one + 1 = n /\ \A k \in 1..n : one + k - 1 = k
  BY <1>1
<1>3. first \in Seq(TimeSeries) /\ Len(first) = n /\ \A k \in 1..n : first[k] = list[k]
  <2>1. /\ SubSeq(list, one, n) \in Seq(TimeSeries)
        /\ Len(SubSeq(list, one, n)) = n - one + 1
        /\ \A k \in 1..(n - one + 1) : SubSeq(list, one, n)[k] = list[one + k - 1]
    <3> HIDE DEF one
    <3> QED
      BY <1>1, SubSeqFacts
  <2> QED
    BY <1>2, <2>1
<1>4. P \in Seq(PartSet) /\ Len(P) = Len(list) /\ \A j \in 1..Len(list) : P[j] = Sized(1, EncodeTimeseries(list[j]))
  BY WritePartsAre DEF ArePartsOf
<1>5. Q \in Seq(PartSet) /\ Len(Q) = n /\ \A j \in 1..n : Q[j] = Sized(1, EncodeTimeseries(first[j]))
  <2> HIDE DEF first
  <2> QED
    BY <1>3, WritePartsAre DEF ArePartsOf
<1>6. R \in Seq(PartSet) /\ Len(R) = n /\ \A k \in 1..n : R[k] = P[k]
  <2> HIDE DEF P
  <2>1. n <= Len(P)
    BY <1>1, <1>4
  <2>2. /\ SubSeq(P, one, n) \in Seq(PartSet)
        /\ Len(SubSeq(P, one, n)) = n - one + 1
        /\ \A k \in 1..(n - one + 1) : SubSeq(P, one, n)[k] = P[one + k - 1]
    <3> HIDE DEF one
    <3> QED
      BY <1>1, <1>4, <2>1, SubSeqFacts
  <2> QED
    BY <1>2, <2>2
<1> HIDE DEF first, P, Q, R
<1>7. Len(Q) = Len(R) /\ \A k \in 1..Len(Q) : Q[k] = R[k]
  <2>1. \A k \in 1..n : k \in 1..Len(list)
    BY <1>1
  <2> QED
    BY <1>3, <1>4, <1>5, <1>6, <2>1
<1>8. Q = R
  BY ONLY <1>5, <1>6, <1>7, SeqEqual
<1> QED
  BY <1>3, <1>8 DEF first, P, Q, R

\* The first bytes of a message.
LEMMA FirstBytes ==
  ASSUME NEW whole \in Numbers, NEW n \in 0..Len(whole)
  PROVE  /\ SubSeq(whole, 1, n) \in Numbers /\ Len(SubSeq(whole, 1, n)) = n
         /\ BeginsWith(whole, SubSeq(whole, 1, n))
<1> DEFINE one == 1
           s == SubSeq(whole, one, n)
<1>1. /\ whole \in Seq(Nat) /\ n \in Nat /\ Len(whole) \in Nat /\ one \in Nat
      /\ 1 <= one /\ one <= n + 1 /\ n <= Len(whole) /\ n - one + 1 = n /\ \A k \in 1..n : one + k - 1 = k
  BY LenProperties DEF Numbers
<1>2. s \in Seq(Nat) /\ Len(s) = n - one + 1 /\ \A k \in 1..(n - one + 1) : s[k] = whole[one + k - 1]
  <2> HIDE DEF one
  <2> QED
    BY ONLY <1>1, SubSeqFacts
<1>3. Len(s) = n /\ \A k \in 1..n : s[k] = whole[k]
  BY <1>1, <1>2
<1>4. s \in Numbers /\ BeginsWith(whole, s)
  BY <1>1, <1>2, <1>3 DEF BeginsWith, Numbers
<1> QED
  BY <1>3, <1>4

\* The series that are decoded from the first bytes of a request to write.
DecodesTo(data, list, n) == DecodeWriteRequest(data) = [ok |-> TRUE, value |-> SubSeq(list, 1, n)]
EndAfter(list, n) == Len(Message(WriteParts(SubSeq(list, 1, n))))
Comes(list, n, size) == EndAfter(list, n) <= size /\ EndAfter(list, n - 1) + 8 <= size

LEMMA WriteDecoded ==
  ASSUME NEW list \in Seq(TimeSeries), IsShort(Len(Message(WriteParts(list)))),
         NEW size \in 0..Len(Message(WriteParts(list)))
  PROVE  \E n \in 0..Len(list) : /\ DecodesTo(SubSeq(Message(WriteParts(list)), 1, size), list, n)
                                 /\ \A i \in 1..Len(list) : i <= n <=> Comes(list, i, size)
<1> DEFINE parts == WriteParts(list)
           m == Len(list)
           whole == Message(parts)
           data == SubSeq(whole, 1, size)
           eight == 8
           f == 1
           lengths == {f}
           eights == {}
           ends == {"long", "wire"}
<1>1. /\ parts \in Seq(PartSet) /\ Len(parts) = m /\ m \in Nat
      /\ \A j \in 1..m : parts[j] = Sized(1, EncodeTimeseries(list[j]))
      /\ \A j \in 1..m : parts[j].field = 1 /\ parts[j].wire = 2
      /\ \A j \in 1..m : list[j] \in TimeSeries
  BY WritePartsAre, LenProperties DEF ArePartsOf
<1>2. \A j \in 1..m : parts[j].bytes = EncodeTimeseries(list[j]) /\ parts[j] \in PartSet
  <2> HIDE DEF parts
  <2>1. \A j \in 1..m : parts[j].bytes = EncodeTimeseries(list[j])
    <3>1. \A j \in 1..m : parts[j] = Sized(1, EncodeTimeseries(list[j]))
      BY <1>1
    <3>2. \A b : Sized(1, b).bytes = b
      BY DEF Sized
    <3> HIDE DEF m
    <3> QED
      BY ONLY <3>1, <3>2
  <2>2. \A j \in 1..m : parts[j] \in PartSet
    BY <1>1
  <2> QED
    BY <2>1, <2>2
<1>3. PICK e : IsLaid(e, parts, whole)
  <2> HIDE DEF parts
  <2> QED
    BY <1>1, MessageLaid
<1>4. whole \in Numbers /\ size \in 0..Len(whole) /\ size \in Nat
  <2>1. size \in Nat
    OBVIOUS
  <2>2. whole \in Numbers
    <3> HIDE DEF parts
    <3> QED
      BY <1>1, MessageLaid
  <2> QED
    BY <2>1, <2>2
<1>5. data \in Numbers /\ Len(data) = size /\ BeginsWith(whole, data)
  <2> HIDE DEF whole
  <2> QED
    BY <1>4, FirstBytes
<1>6. \A j \in 1..m : IsShort(Len(parts[j].bytes))
  <2> SUFFICES ASSUME NEW j \in 1..m PROVE IsShort(Len(parts[j].bytes))
    OBVIOUS
  <2>1. j \in 1..Len(parts) /\ IsShort(Len(Message(parts)))
    BY <1>1
  <2> HIDE DEF parts
  <2> QED
    BY <1>1, <2>1, PartShort
<1>7. \A i \in 0..m : e[i] = EndAfter(list, i) /\ e[i] \in Nat
  <2>1. \A i \in 0..m : e[i] = Len(Message(SubSeq(parts, 1, i))) /\ e[i] \in Nat
    BY <1>1, <1>3 DEF IsLaid
  <2>2. \A i \in 0..m : WriteParts(SubSeq(list, 1, i)) = SubSeq(parts, 1, i)
    BY FirstWriteParts
  <2> QED
    BY <2>1, <2>2 DEF EndAfter
<1>8. \A i, j \in 0..m : i <= j => e[i] <= e[j]
  BY <1>1, <1>3 DEF IsLaid
<1>9. \A i \in 1..m : Comes(list, i, size) <=> e[i] <= size /\ e[i - 1] + eight <= size
  <2>1. \A i \in 1..m : i \in 0..m /\ i - 1 \in 0..m
    BY <1>1
  <2> QED
    BY <1>7, <2>1 DEF Comes
<1> HIDE DEF data, whole, parts, m
<1> DEFINE S == {i \in 0..m : \A j \in 1..i : Comes(list, j, size)}
<1>10. PICK n \in S : \A i \in S : i <= n
  <2>1. 0 \in S /\ S \subseteq 0..m
    BY <1>1
  <2> HIDE DEF S
  <2> QED
    BY <1>1, <2>1, GreatestExists
<1>11. n \in 0..m /\ n \in Nat /\ \A j \in 1..n : Comes(list, j, size)
  BY <1>1, <1>10
<1>12. n < m => ~Comes(list, n + 1, size)
  <2> SUFFICES ASSUME n < m, Comes(list, n + 1, size) PROVE FALSE
    OBVIOUS
  <2>1. \A j \in 1..(n + 1) : j \in 1..n \/ j = n + 1
    BY <1>11
  <2>2. \A j \in 1..(n + 1) : Comes(list, j, size)
    BY <1>11, <2>1
  <2>3. n + 1 \in S
    BY <1>1, <1>11, <2>2
  <2> QED
    BY <1>10, <1>11, <2>3
<1>13. \A i \in 1..m : i <= n <=> Comes(list, i, size)
  <2> SUFFICES ASSUME NEW i \in 1..m PROVE i <= n <=> Comes(list, i, size)
    OBVIOUS
  <2>1. CASE i <= n
    BY <1>11, <2>1
  <2>2. CASE ~(i <= n)
    <3>1. n < m /\ n + 1 \in 1..m /\ n + 1 \in 0..m /\ n \in 0..m /\ i \in 0..m /\ i - 1 \in 0..m /\ n + 1 <= i /\ n <= i - 1 /\ (n + 1) - 1 = n
      BY <1>1, <1>11, <2>2
    <3>2. ~(e[n + 1] <= size /\ e[n] + eight <= size)
      BY <1>9, <1>12, <3>1
    <3>3. e[n + 1] <= e[i] /\ e[n] <= e[i - 1]
      BY <1>8, <3>1
    <3>4. e[n + 1] \in Nat /\ e[i] \in Nat /\ e[n] \in Nat /\ e[i - 1] \in Nat
      BY <1>7, <3>1
    <3>5. \A a, b, c, d \in Nat :
            a <= b /\ c <= d /\ ~(a <= size /\ c + eight <= size) => ~(b <= size /\ d + eight <= size)
      BY <1>4
    <3>6. ~(e[i] <= size /\ e[i - 1] + eight <= size)
      BY ONLY <3>2, <3>3, <3>4, <3>5
    <3> QED
      BY <1>9, <2>2, <3>6
  <2> QED
    BY <2>1, <2>2
<1>14. UpTo(n, e, parts, data, eight, ends)
  <2>1. \A i \in 1..n : e[i] <= Len(data) /\ e[i - 1] + eight <= Len(data)
    <3>1. \A i \in 1..n : i \in 1..m
      BY <1>1, <1>11
    <3> QED
      BY <1>5, <1>9, <1>11, <3>1
  <2>2. ASSUME n < Len(parts)
        PROVE  \/ e[n] + eight > Len(data)
               \/ /\ e[n + 1] > Len(data) /\ "long" \in ends
                  /\ parts[n + 1].wire = 2 /\ HeadOf(parts[n + 1]) <= eight
    <3>1. n < m /\ n + 1 \in 1..m /\ (n + 1) - 1 = n /\ n + 1 \in 0..m
      BY <1>1, <1>11, <2>2
    <3>2. ~(e[n + 1] <= size /\ e[n] + eight <= size) /\ e[n + 1] \in Nat /\ e[n] \in Nat
      BY <1>7, <1>9, <1>11, <1>12, <3>1
    <3> DEFINE part == parts[n + 1]
               k == Len(part.bytes)
    <3>3. part \in PartSet /\ part.wire = 2 /\ IsShort(k)
      BY <1>1, <1>2, <1>6, <3>1
    <3>4. k \in Nat
      BY <3>3, LenProperties DEF PartSet, Numbers
    <3> HIDE DEF k
    <3>5. Groups(k) \in 1..10 /\ Groups(k) <= 7
      BY <3>3, <3>4, GroupsFacts
    <3>6. HeadOf(part) = 1 + Groups(k)
      BY <3>3 DEF HeadOf, k
    <3>7. HeadOf(part) <= eight
      BY <3>5, <3>6
    <3> QED
      BY <1>4, <1>5, <3>2, <3>3, <3>7
  <2>3. n \in 0..Len(parts)
    BY <1>1, <1>11
  <2> HIDE DEF eight, ends
  <2> QED
    BY ONLY <2>1, <2>2, <2>3 DEF UpTo
<1> DEFINE first == SubSeq(parts, 1, n)
           got == SubSeq(list, 1, n)
<1>15. AllKnown(parts, lengths, eights)
  <2> SUFFICES ASSUME NEW i \in 1..Len(parts) PROVE IsKnown(parts[i], lengths, eights)
    BY DEF AllKnown
  <2>1. parts[i] \in PartSet /\ parts[i].wire = 2 /\ parts[i].field = 1 /\ IsShort(Len(parts[i].bytes))
    BY <1>1, <1>2, <1>6
  <2> QED
    BY <2>1 DEF IsKnown
<1>16. Scans(data, lengths, eights, eight, ends, first)
  <2>1. eight \in Nat \ {0} /\ IsLaid(e, parts, Message(parts)) /\ BeginsWith(Message(parts), data)
    BY <1>3, <1>5 DEF whole
  <2> HIDE DEF eight, ends, lengths, eights
  <2> QED
    BY ONLY <1>1, <1>5, <1>14, <1>15, <2>1, ScanUpTo
<1>17. /\ got \in Seq(TimeSeries) /\ Len(got) = n /\ \A k \in 1..n : got[k] = list[k]
       /\ first = WriteParts(got)
  BY <1>11, FirstWriteParts DEF parts, m
<1> HIDE DEF first, got
<1>18. /\ ArePartsOf(first, n, 1)
       /\ \A j \in 1..n : first[j] = Sized(1, EncodeTimeseries(got[j]))
  BY <1>17, WritePartsAre
<1>19. OfField(first, f) = first /\ DOMAIN first = 1..Len(got)
  <2>1. ArePartsOf(first, n, f)
    BY <1>18
  <2>2. DOMAIN first = 1..n
    BY <1>18 DEF ArePartsOf
  <2> HIDE DEF f
  <2> QED
    BY <1>17, <2>1, <2>2, OneField
<1>20. DecodedParts(first, f, DecodeTimeseries) = got
  <2>1. ASSUME NEW i \in 1..Len(got) PROVE DecodeTimeseries(first[i].bytes) = [ok |-> TRUE, value |-> got[i]]
    <3>1. i \in 1..n /\ i \in 1..m
      BY <1>1, <1>11, <1>17
    <3>2. first[i].bytes = EncodeTimeseries(list[i]) /\ got[i] = list[i] /\ list[i] \in TimeSeries
      BY <1>1, <1>17, <1>18, <3>1 DEF Sized
    <3>3. IsShort(Len(EncodeTimeseries(list[i])))
      BY <1>2, <1>6, <3>1
    <3>4. DecodeTimeseries(EncodeTimeseries(list[i])) = [ok |-> TRUE, value |-> list[i]]
      BY <3>2, <3>3, SeriesDecoded
    <3> QED
      BY <3>2, <3>4
  <2>2. got \in Seq(TimeSeries) /\ OfField(first, f) = first /\ DOMAIN first = 1..Len(got)
    BY <1>17, <1>19
  <2>3. \A i \in 1..Len(got) : DecodeTimeseries(first[i].bytes) = [ok |-> TRUE, value |-> got[i]]
    BY <2>1
  <2> HIDE DEF f
  <2> QED
    BY ONLY <2>2, <2>3, DecodedSeries
<1>21. DecodeWriteRequest(data) =
         [ok |-> Scan(data, {1}, {}, 8, {"long", "wire"}).ok,
          value |-> DecodedParts(Scan(data, {1}, {}, 8, {"long", "wire"}).parts, 1, DecodeTimeseries)]
  BY DEF DecodeWriteRequest
<1>22. DecodeWriteRequest(data) = [ok |-> TRUE, value |-> DecodedParts(first, 1, DecodeTimeseries)]
  BY <1>16, <1>21 DEF Scans
<1>23. DecodesTo(data, list, n)
  BY <1>20, <1>22 DEF DecodesTo, got
<1> QED
  BY <1>11, <1>13, <1>23 DEF data, whole, parts, m

LEMMA ReadDecoded ==
  ASSUME NEW list \in Seq(RemoteQuery), list # <<>>, IsShort(Len(Message(ReadParts(list))))
  PROVE  DecodeReadRequest(Message(ReadParts(list))) = [ok |-> TRUE, value |-> list[Len(list)]]
<1> DEFINE parts == ReadParts(list)
           m == Len(list)
           data == Message(parts)
           f == 1
           lengths == {f}
           eights == {}
           ends == {}
<1>1. /\ parts \in Seq(PartSet) /\ Len(parts) = m /\ m \in Nat /\ DOMAIN parts = 1..m
      /\ \A j \in 1..m : parts[j] = Sized(1, EncodeQuery(list[j]))
      /\ \A j \in 1..m : parts[j].field = 1 /\ parts[j].wire = 2
      /\ \A j \in 1..m : list[j] \in RemoteQuery
      /\ ArePartsOf(parts, m, 1)
  BY ReadPartsAre, LenProperties DEF ArePartsOf
<1>2. IsShort(Len(Message(parts)))
  OBVIOUS
<1> HIDE DEF parts, m
<1>3. \A j \in 1..m : parts[j].bytes = EncodeQuery(list[j])
  <2>1. \A j \in 1..m : parts[j] = Sized(1, EncodeQuery(list[j]))
    BY <1>1
  <2>2. \A b : Sized(1, b).bytes = b
    BY DEF Sized
  <2> QED
    BY ONLY <2>1, <2>2
<1>4. \A j \in 1..m : IsShort(Len(parts[j].bytes))
  BY <1>1, <1>2, PartShort
<1>5. AllKnown(parts, lengths, eights)
  <2> SUFFICES ASSUME NEW i \in 1..Len(parts) PROVE IsKnown(parts[i], lengths, eights)
    BY DEF AllKnown
  <2>1. parts[i] \in PartSet
    BY <1>1
  <2>2. parts[i].wire = 2 /\ parts[i].field = 1 /\ IsShort(Len(parts[i].bytes))
    BY <1>1, <1>4
  <2> QED
    BY <2>1, <2>2 DEF IsKnown
<1>6. Scans(data, lengths, eights, 1, ends, parts)
  <2> HIDE DEF lengths, eights, ends
  <2> QED
    BY <1>1, <1>5, ScanWhole
<1>7. OfField(parts, f) = parts
  <2>1. ArePartsOf(parts, m, f)
    BY <1>1
  <2> HIDE DEF f
  <2> QED
    BY <2>1, OneField
<1>8. DecodedParts(parts, f, DecodeQuery) = list
  <2>1. \A i \in 1..m : DecodeQuery(parts[i].bytes) = [ok |-> TRUE, value |-> list[i]]
    <3> SUFFICES ASSUME NEW i \in 1..m PROVE DecodeQuery(parts[i].bytes) = [ok |-> TRUE, value |-> list[i]]
      OBVIOUS
    <3>1. parts[i].bytes = EncodeQuery(list[i]) /\ IsShort(Len(EncodeQuery(list[i]))) /\ list[i] \in RemoteQuery
      BY <1>1, <1>3, <1>4
    <3>2. DecodeQuery(EncodeQuery(list[i])) = [ok |-> TRUE, value |-> list[i]]
      BY <3>1, QueryDecoded
    <3> QED
      BY <3>1, <3>2
  <2>2. list \in Seq(RemoteQuery) /\ OfField(parts, f) = parts /\ DOMAIN parts = 1..Len(list)
    BY <1>1, <1>7 DEF m
  <2>3. \A i \in 1..Len(list) : DecodeQuery(parts[i].bytes) = [ok |-> TRUE, value |-> list[i]]
    BY <2>1 DEF m
  <2> HIDE DEF f
  <2> QED
    BY ONLY <2>2, <2>3, DecodedQueries
<1> HIDE DEF data
<1>9. DecodedParts(Scan(data, {1}, {}, 1, {}).parts, 1, DecodeQuery) = list
  BY <1>6, <1>8 DEF Scans
<1>10. DecodeReadRequest(data) =
         [ok |-> Scan(data, {1}, {}, 1, {}).ok,
          value |-> IF DecodedParts(Scan(data, {1}, {}, 1, {}).parts, 1, DecodeQuery) = <<>>
                    THEN [start |-> Zero, end |-> Zero, names |-> <<>>]
                    ELSE DecodedParts(Scan(data, {1}, {}, 1, {}).parts, 1, DecodeQuery)[
                           Len(DecodedParts(Scan(data, {1}, {}, 1, {}).parts, 1, DecodeQuery))]]
  BY DEF DecodeReadRequest
<1>11. DecodeReadRequest(data) = [ok |-> TRUE, value |-> list[Len(list)]]
  <2>1. Scan(data, {1}, {}, 1, {}).ok = TRUE
    BY <1>6 DEF Scans
  <2>2. list # <<>>
    OBVIOUS
  <2> QED
    BY ONLY <1>9, <1>10, <2>1, <2>2
<1> QED
  BY <1>11 DEF data, parts

\* What reaches the server, and what it makes of that.
RemoteInv ==
  /\ sent \in [kind : {"write"}, list : SeriesLists] \cup [kind : {"read"}, list : QueryLists]
  /\ cut \in 0..Len(Body)
  /\ RemoteDecoded

\* The decoders of Prometheus remote write and read turn the bytes that arrive back
\* into the series that are complete and into the query that counts, whatever the
\* labels, samples and names are and wherever a request to write is cut off.
THEOREM RemoteDecodesWhatArrived == RemoteSpec => []RemoteDecoded
<1>1. RemoteInit => RemoteInv
  BY DEF RemoteInit, RemoteInv, RemoteDecoded
<1>2. RemoteInv /\ [RemoteNext]_remoteVars => RemoteInv'
  <2> SUFFICES ASSUME RemoteInv, [RemoteNext]_remoteVars PROVE RemoteInv'
    OBVIOUS
  <2>1. CASE UNCHANGED remoteVars
    BY <2>1 DEF RemoteInv, remoteVars, RemoteDecoded, Body, Arrives, EndOf
  <2>2. CASE Decode
    <3> DEFINE data == SubSeq(Body, 1, cut)
    <3>1. sent' = sent /\ cut' = cut /\ Body' = Body
      BY <2>2 DEF Decode, Body
    <3>2. sent' \in [kind : {"write"}, list : SeriesLists] \cup [kind : {"read"}, list : QueryLists]
          /\ cut' \in 0..Len(Body')
      BY <3>1 DEF RemoteInv
    <3>3. decoded' = IF sent.kind = "write" THEN DecodeWriteRequest(data) ELSE DecodeReadRequest(data)
      BY <2>2 DEF Decode
    <3>4. CASE sent.kind = "write"
      <4> DEFINE list == sent.list
      <4>1. list \in SeriesLists
        BY <3>4 DEF RemoteInv
      <4>2. list \in Seq(TimeSeries) /\ IsShort(Len(Message(WriteParts(list))))
        BY <4>1, RemoteAssumption
      <4>3. Body = Message(WriteParts(list)) /\ cut \in 0..Len(Message(WriteParts(list)))
        BY <3>4 DEF Body, RemoteInv
      <4> HIDE DEF list
      <4>4. PICK n \in 0..Len(list) : /\ DecodesTo(SubSeq(Message(WriteParts(list)), 1, cut), list, n)
                                      /\ \A i \in 1..Len(list) : i <= n <=> Comes(list, i, cut)
        BY <4>2, <4>3, WriteDecoded
      <4>5. decoded' = [ok |-> TRUE, value |-> SubSeq(list, 1, n)]
        BY <3>3, <3>4, <4>3, <4>4 DEF DecodesTo
      <4>6. DOMAIN list = 1..Len(list)
        BY <4>2
      <4>7. \A i : Comes(list, i, cut) <=> Arrives(i)'
        BY <3>1 DEF Comes, EndAfter, Arrives, EndOf, list
      <4>8. \A i \in DOMAIN sent'.list : i <= n <=> Arrives(i)'
        BY <3>1, <4>4, <4>6, <4>7 DEF list
      <4>9. RemoteDecoded'
        BY <3>1, <3>4, <4>5, <4>8 DEF RemoteDecoded, list
      <4> QED
        BY <3>2, <4>9 DEF RemoteInv
    <3>5. CASE sent.kind # "write"
      <4> DEFINE list == sent.list
      <4>1. list \in QueryLists /\ sent.kind = "read"
        BY <3>5 DEF RemoteInv
      <4>2. list \in Seq(RemoteQuery) /\ IsShort(Len(Message(ReadParts(list))))
        BY <4>1, RemoteAssumption
      <4>3. Body = Message(ReadParts(list))
        BY <3>5 DEF Body
      <4> HIDE DEF list
      <4>4. ASSUME cut = Len(Body), list # <<>>
            PROVE  decoded' = [ok |-> TRUE, value |-> list[Len(list)]]
        <5>1. Body \in Seq(Nat)
          BY <4>2, <4>3, ReadPartsAre, MessageLaid DEF ArePartsOf, Numbers
        <5>2. data = Body
          BY <4>4, <5>1, FirstParts
        <5>3. DecodeReadRequest(Message(ReadParts(list))) = [ok |-> TRUE, value |-> list[Len(list)]]
          BY <4>2, <4>4, ReadDecoded
        <5> QED
          BY <3>3, <3>5, <4>3, <5>2, <5>3
      <4>5. RemoteDecoded'
        BY <3>1, <4>1, <4>4 DEF RemoteDecoded, list
      <4> QED
        BY <3>2, <4>5 DEF RemoteInv
    <3> QED
      BY <3>4, <3>5
  <2> QED
    BY <2>1, <2>2 DEF RemoteNext
<1>3. RemoteInv => RemoteDecoded
  BY DEF RemoteInv
<1> QED
  BY <1>1, <1>2, <1>3, PTL DEF RemoteSpec

=============================================================================
