------------------------------- MODULE Query --------------------------------
(***************************************************************************)
(* SELECT from its clauses to its answer: how the clause loop, the parser  *)
(* of conditions, the filter, the limit and the aggregates of the answer   *)
(* treat a statement.  Text is a sequence of clauses and comparisons; what *)
(* the parser makes of a text it splits in the wrong place is a filter no  *)
(* row passes.  One statement is executed in one step.                     *)
(***************************************************************************)
EXTENDS Lists, SequencesExt, Machine

CONSTANTS
  Selects,        \* statements, see SelectType
  Contents,       \* contents of the measurement: sequences of rows, as read
  TimeNames,      \* names of fields that start with "time", that one included
  DefaultLimit    \* 1000 in handle_query

Types == {"int", "uint", "float", "bool", "str"}
Comparators == {"=", "!=", ">", ">=", "<", "<="}
\* A row has its time and, by name, the type and the value of its fields.  The
\* value of a comparison is never unsigned.  It may be relative to now(), with a
\* duration and its unit right behind ("now") or without that: nothing, or a
\* space before the number ("vague").
Comparisons ==
  [field : STRING, cmp : Comparators, type : Types \ {"uint"}, n : Int]
    \cup [field : TimeNames, cmp : Comparators, type : {"now", "vague"}, n : Int]
FieldValues == [type : Types, n : Int]
InWidth(v) == /\ v.type = "int" => Fits(v.n)
              /\ v.type = "uint" => v.n \in 0..(2 * Half - 1)
IsCondition(cond) ==
  /\ cond.atoms \in Seq(Comparisons) \ {<<>>}
  /\ cond.joins \in Seq({"and", "or"}) /\ Len(cond.joins) = Len(cond.atoms) - 1
IsClause(clause) ==
  /\ clause.kw \in {"where", "limit", "other"}
  /\ clause.kw = "where" => IsCondition(clause.cond)
  /\ clause.kw = "limit" => clause.n \in Nat
IsSelect(s) ==
  /\ s.clauses \in Seq(ToSet(s.clauses)) /\ \A clause \in ToSet(s.clauses) : IsClause(clause)
  /\ s.aggregate \in {"none", "count", "sum", "min", "max", "first", "last"}
IsTable(rows) ==
  /\ rows \in Seq(ToSet(rows))
  /\ \A row \in ToSet(rows) : row.time \in Int /\ \A f \in DOMAIN row.fields : row.fields[f] \in FieldValues /\ InWidth(row.fields[f])

ASSUME QueryAssumption ==
  /\ "time" \in TimeNames /\ TimeNames \subseteq STRING
  /\ DefaultLimit \in Nat
  /\ \A s \in Selects : IsSelect(s)
  /\ \A rows \in Contents : IsTable(rows)

VARIABLES
  select, table,    \* the statement, and what the measurement holds
  executed,         \* whether the statement has been executed
  answer, value     \* then: the rows of the answer, and its aggregate

queryVars == <<select, table, executed, answer, value>>

-----------------------------------------------------------------------------
(* The clause loop of parse_statement. *)

\* WHERE takes the rest of the line, so that of the clauses after it nothing is
\* left but junk behind the last value of the condition.
WherePositions(clauses) == {i \in DOMAIN clauses : clauses[i].kw = "where"}
FirstWhere(clauses) == CHOOSE i \in WherePositions(clauses) : \A j \in WherePositions(clauses) : i <= j
HasWhere(clauses) == WherePositions(clauses) # {}

Parsed(clauses) ==
  IF HasWhere(clauses) THEN SubSeq(clauses, 1, FirstWhere(clauses)) ELSE clauses

Spoilt(clauses) == Len(Parsed(clauses)) < Len(clauses)

\* The last LIMIT that is parsed counts.
LimitOf(clauses) ==
  LET limits == {i \in DOMAIN Parsed(clauses) : clauses[i].kw = "limit"}
  IN  IF limits = {} THEN DefaultLimit
      ELSE clauses[CHOOSE i \in limits : \A j \in limits : j <= i].n

-----------------------------------------------------------------------------
(* parse_condition: a sequence of comparisons and what joins them. *)

NoFilter == [op |-> "none"]
Never == [op |-> "never"]

\* A text that begins with the name of a time is a filter on a field "time" if a
\* duration follows its first now(), and cannot be parsed otherwise.  Which
\* comparison it makes is looked for in the whole text, in this order.
IsNow(atom) == atom.type \in {"now", "vague"}
FirstNow(atoms) == atoms[Least({i \in DOMAIN atoms : IsNow(atoms[i])})]
TimeComparator(atoms) ==
  LET used == {atoms[i].cmp : i \in DOMAIN atoms}
  IN  CASE ">=" \in used -> ">="
        [] ">=" \notin used /\ "<=" \in used -> "<="
        [] {">=", "<="} \cap used = {} /\ ">" \in used -> ">"
        [] {">=", "<=", ">"} \cap used = {} /\ "<" \in used -> "<"
        [] OTHER -> "="
ParseTime(atoms) ==
  IF (\E i \in DOMAIN atoms : IsNow(atoms[i])) /\ FirstNow(atoms).type = "now"
  THEN [field |-> "time", cmp |-> TimeComparator(atoms), type |-> "int", n |-> FirstNow(atoms).n]
  ELSE NoFilter

\* Mutant: the test for "=" comes before the one for ">=".
ParseSingleEqFirst(atoms, spoilt) ==
  LET atom == Head(atoms)
  IN  IF atom.field \in TimeNames THEN ParseTime(atoms)
      ELSE IF Len(atoms) > 1 \/ spoilt \/ atom.cmp \in {"!=", ">=", "<="} THEN Never ELSE atom

\* The test for "=" comes before the one for "!=", and a text of more than one
\* comparison is split at one of them: both name a field or a value in vain.
ParseSingle(atoms, spoilt) ==
  LET atom == Head(atoms)
  IN  IF atom.field \in TimeNames THEN ParseTime(atoms)
      ELSE IF Len(atoms) > 1 \/ spoilt \/ atom.cmp = "!=" THEN Never ELSE atom

JoinAt(cond) ==
  LET ands == {i \in DOMAIN cond.joins : cond.joins[i] = "and"}
      found == IF ands # {} THEN ands ELSE DOMAIN cond.joins
  IN  CHOOSE i \in found : \A j \in found : i <= j

\* The first "and", or else the first "or", splits the text in two.
ParseCondition(cond, spoilt) ==
  IF cond.joins = <<>>
  THEN ParseSingle(cond.atoms, spoilt)
  ELSE LET i == JoinAt(cond)
           left == ParseSingle(SubSeq(cond.atoms, 1, i), FALSE)
           right == ParseSingle(SubSeq(cond.atoms, i + 1, Len(cond.atoms)), spoilt)
       IN  IF NoFilter \in {left, right} THEN NoFilter
           ELSE [op |-> cond.joins[i], left |-> left, right |-> right]

FilterOf(clauses) ==
  IF HasWhere(clauses)
  THEN ParseCondition(clauses[FirstWhere(clauses)].cond, Spoilt(clauses))
  ELSE NoFilter

-----------------------------------------------------------------------------
(* FilterExpr::evaluate.  Values of different types are not equal and have no  *)
(* order; strings and booleans have none either.                               *)

Ordered(v, w) == v.type = w.type /\ v.type \notin {"str", "bool"}

Compare(v, cmp, w) ==
  CASE cmp = "=" -> v = w
    [] cmp = "!=" -> v # w
    [] cmp = ">" -> Ordered(v, w) /\ v.n > w.n
    [] cmp = ">=" -> Ordered(v, w) /\ v.n >= w.n
    [] cmp = "<" -> Ordered(v, w) /\ v.n < w.n
    [] cmp = "<=" -> Ordered(v, w) /\ v.n <= w.n

Passes(leaf, row) ==
  /\ leaf # Never
  /\ IF leaf.field \in DOMAIN row.fields
     THEN Compare(row.fields[leaf.field], leaf.cmp, [type |-> leaf.type, n |-> leaf.n])
     ELSE leaf.cmp = "!="

Evaluate(filter, row) ==
  CASE filter = NoFilter -> TRUE
    [] filter # NoFilter /\ filter # Never /\ "left" \in DOMAIN filter ->
         IF filter.op = "and"
         THEN Passes(filter.left, row) /\ Passes(filter.right, row)
         ELSE Passes(filter.left, row) \/ Passes(filter.right, row)
    [] OTHER -> Passes(filter, row)

Truncate(rows, n) == SubSeq(rows, 1, IF n < Len(rows) THEN n ELSE Len(rows))

Answered(s, rows) ==
  Truncate(Kept(rows, {i \in DOMAIN rows : Evaluate(FilterOf(s.clauses), rows[i])}), LimitOf(s.clauses))

-----------------------------------------------------------------------------
(* The aggregates of the answer. *)

\* parse_word makes the names of fields upper case.
Upper(name) == IF name = "v" THEN "V" ELSE name

Having(rows, f) == Kept(rows, {i \in DOMAIN rows : f \in DOMAIN rows[i].fields})
Column(rows, f) == [i \in DOMAIN Having(rows, f) |-> Having(rows, f)[i].fields[f]]

\* The rows that hold numbers of some types, and those numbers, 0 where there is none.
Holding(rows, f, types) ==
  {i \in DOMAIN rows : f \in DOMAIN rows[i].fields /\ rows[i].fields[f].type \in types}
Wholes(rows, f) ==
  [i \in DOMAIN rows |->
     CASE i \in Holding(rows, f, {"int"}) -> rows[i].fields[f].n
       [] i \in Holding(rows, f, {"uint"}) -> AsSigned(rows[i].fields[f].n)
       [] OTHER -> 0]
Floats(rows, f) ==
  [i \in DOMAIN rows |-> IF i \in Holding(rows, f, {"float"}) THEN rows[i].fields[f].n ELSE 0]
UpTo(numbers, i) == SumOf(SubSeq(numbers, 1, i))

\* A thread that panics has no value to answer.
Died == [type |-> "panic", n |-> 0]
SumOverflows(rows, f) ==
  OverflowChecks /\ \E i \in Holding(rows, f, {"int", "uint"}) : ~Fits(UpTo(Wholes(rows, f), i))

\* Mutant: the sum starts from the first row, whose value is counted twice.
SumValueTwice(rows, f) ==
  IF SumOverflows(rows, f) THEN Died
  ELSE IF Holding(rows, f, {"float"}) # {}
  THEN [type |-> "float", n |-> SumOf(Floats(rows, f)) + Floats(rows, f)[1]]
  ELSE [type |-> "int",
        n |-> Wrapped(SumOf(Wholes(rows, f)) + (IF rows = <<>> THEN 0 ELSE Wholes(rows, f)[1]))]

\* Integers are added up as signed ones, and left out if there is a float.
SumValue(rows, f) ==
  IF SumOverflows(rows, f) THEN Died
  ELSE IF Holding(rows, f, {"float"}) # {} THEN [type |-> "float", n |-> SumOf(Floats(rows, f))]
  ELSE [type |-> "int", n |-> Wrapped(SumOf(Wholes(rows, f)))]

\* The first value stays unless a number beats it.
Beats(kind, v, best) ==
  /\ {best.type, v.type} \subseteq {"int", "float"} \/ {best.type, v.type} = {"uint"}
  /\ IF kind = "min" THEN v.n < best.n ELSE v.n > best.n
Extreme(kind, values) ==
  IF values = <<>> THEN [type |-> "int", n |-> 0]
  ELSE LET best[i \in DOMAIN values] ==
             IF i = 1 THEN values[1]
             ELSE IF Beats(kind, values[i], best[i - 1]) THEN values[i] ELSE best[i - 1]
       IN  best[Len(values)]

\* The value of one row, which may not have the field.
ValueIn(row, f) == IF f \in DOMAIN row.fields THEN row.fields[f] ELSE [type |-> "int", n |-> 0]

Aggregate(s, rows) ==
  LET f == Upper(s.field)
      values == Column(rows, f)
      zero == [type |-> "int", n |-> 0]
  IN  CASE s.aggregate = "count" -> [type |-> "int", n |-> Len(values)]
        [] s.aggregate = "sum" -> SumValue(rows, f)
        [] s.aggregate \in {"min", "max"} -> Extreme(s.aggregate, values)
        [] s.aggregate = "first" -> IF rows = <<>> THEN zero ELSE ValueIn(Head(rows), f)
        [] s.aggregate = "last" -> IF rows = <<>> THEN zero ELSE ValueIn(Last(rows), f)
        [] OTHER -> zero

-----------------------------------------------------------------------------
QueryInit ==
  /\ select \in Selects /\ table \in Contents
  /\ executed = FALSE /\ answer = <<>> /\ value = [type |-> "int", n |-> 0]

Execute ==
  /\ ~executed
  /\ executed' = TRUE
  /\ answer' = Answered(select, table)
  /\ value' = Aggregate(select, answer')
  /\ UNCHANGED <<select, table>>

QueryNext == Execute
QuerySpec == QueryInit /\ [][QueryNext]_queryVars

-----------------------------------------------------------------------------
(* Properties. *)

\* What a comparison says of a row, and a condition with "and" before "or".
Says(atom, row) ==
  LET v == [type |-> IF IsNow(atom) THEN "int" ELSE atom.type, n |-> atom.n]
  IN  IF atom.field = "time"
      THEN Compare([type |-> "int", n |-> row.time], atom.cmp, v)
      ELSE atom.field \in DOMAIN row.fields /\ Compare(row.fields[atom.field], atom.cmp, v)

Means(cond, row) ==
  LET n == Len(cond.atoms)
      starts == {1} \cup {i \in 2..n : cond.joins[i - 1] = "or"}
      ends == {n} \cup {i \in 1..(n - 1) : cond.joins[i] = "or"}
  IN  \E i \in starts, j \in ends :
        /\ i <= j
        /\ \A k \in i..(j - 1) : cond.joins[k] = "and"
        /\ \A k \in i..j : Says(cond.atoms[k], row)

Simple(cond) ==
  /\ Len(cond.atoms) <= 2
  /\ \A i \in DOMAIN cond.atoms : cond.atoms[i].field \notin TimeNames /\ cond.atoms[i].cmp # "!="

\* A comparison that may keep a condition from being parsed: of a field whose name
\* starts with "time", other than with a duration right behind now().
Unparsable(atom) == atom.field \in TimeNames /\ atom.type # "now"

\* A condition is honoured or not looked at, and never in part: unless it cannot
\* be parsed, every row of the answer meets it as it is written, if it has no field
\* that is called "time" itself; and the answer to a condition of one or two
\* comparisons, of fields that have nothing to do with time and other than "!=",
\* with nothing behind it, is exactly the rows that meet it, up to the limit.
ConditionHonoured ==
  (executed /\ HasWhere(select.clauses)) =>
    LET cond == select.clauses[FirstWhere(select.clauses)].cond
        meets(row) == Means(cond, row)
    IN  /\ \/ \A i \in DOMAIN answer : "time" \in DOMAIN answer[i].fields \/ meets(answer[i])
           \/ \E i \in DOMAIN cond.atoms : Unparsable(cond.atoms[i])
        /\ Simple(cond) /\ ~Spoilt(select.clauses) =>
             answer = Truncate(Kept(table, {i \in DOMAIN table : meets(table[i])}), LimitOf(select.clauses))

\* The integers of a column add up without leaving 64 bits, on the way if that is
\* checked and at the end otherwise, and none is too large for a signed one.
AddsUp(numbers) ==
  IF OverflowChecks THEN \A i \in DOMAIN numbers : Fits(UpTo(numbers, i)) ELSE Fits(SumOf(numbers))

\* Over a column of one numeric type the aggregates are what their names say:
\* the sum, if it is of floats or adds up, an extreme that occurs and that none
\* beats, the value of the first and of the last row.  A field is looked for in
\* upper case only.
AggregatesAgree ==
  executed =>
    LET f == Upper(select.field)
        having == {i \in DOMAIN answer : f \in DOMAIN answer[i].fields}
        at(i) == answer[i].fields[f]
        numbers == [i \in DOMAIN answer |-> IF i \in having THEN at(i).n ELSE 0]
        uniform(type) == \A i \in having : at(i).type = type
        adds == uniform("float") \/ (AddsUp(numbers) /\ \A i \in having : at(i).n < Half)
    IN  /\ select.aggregate = "count" => value.n = Cardinality(having)
        /\ having # {} /\ (\E type \in {"int", "uint", "float"} : uniform(type)) =>
             CASE select.aggregate = "sum" -> adds => value.n = SumOf(numbers)
               [] select.aggregate = "min" -> /\ \E i \in having : value = at(i)
                                              /\ \A i \in having : value.n <= at(i).n
               [] select.aggregate = "max" -> /\ \E i \in having : value = at(i)
                                              /\ \A i \in having : value.n >= at(i).n
               [] select.aggregate = "first" -> 1 \in having => value = at(1)
               [] select.aggregate = "last" -> Len(answer) \in having => value = at(Len(answer))
               [] OTHER -> TRUE
=============================================================================
