---------------------------- MODULE MCFrontEnd -----------------------------
(***************************************************************************)
(* The HTTP server on a few connections, and beside it what turns bytes    *)
(* and text into requests and rows into answers: statements, lines, the    *)
(* formats of Prometheus and Arrow Flight.  They share no state: which of  *)
(* the parts takes its steps is chosen at the start.                       *)
(***************************************************************************)
EXTENDS Server, Query, Lines, Remote, Flight

CONSTANTS c1, c2, c3

VARIABLE part

vars == <<part, serverVars, queryVars, lineVars, remoteVars, flightVars>>

\* c1 writes, or needs no lock; c2 inserts, drops, changes the schema or reads a
\* range; c3 queries or flushes.  A line of the headers of a write can be parsed.
Key(series) == [table |-> "cpu", time |-> 1, series |-> series]
Line(kind, series, n) == [kind |-> kind, key |-> Key(series), value |-> n]
ReadRange(from, to) ==
  [op |-> "range", table |-> "cpu", from |-> from, to |-> to, spoilt |-> "no"]
Select == [op |-> "select", table |-> "cpu", passes |-> {1}, limit |-> 2, sum |-> TRUE]
ClientRequests ==
  [c \in {c1, c2, c3} |->
     CASE c = c1 -> {[op |-> "write", lines |-> <<Line("ok", 0, 1), Line("ok", 1, 1)>>,
                      headers |-> <<Line("ok", 0, 2)>>],
                     [op |-> "samples", lines |-> <<Line("ok", 0, 1), Line("huge", 0, 2)>>, spoilt |-> "length"],
                     [op |-> "switch"], [op |-> "ping"]}
       [] c = c2 -> {[op |-> "insert", key |-> Key(0), value |-> 2], [op |-> "drop"],
                     ReadRange(1, 2), ReadRange(2, 1),
                     [op |-> "create_db", db |-> "db"]}
       [] c = c3 -> {Select, [op |-> "flush"]}]

Atom(field, cmp, type, n) == [field |-> field, cmp |-> cmp, type |-> type, n |-> n]
Atoms ==
  {Atom("V", cmp, type, 1) : cmp \in Comparators, type \in {"int", "float"}}
    \cup {Atom(field, ">", type, 1) : field \in {"time", "timeout"}, type \in {"int", "now", "vague"}}
FewAtoms ==
  {Atom("V", ">=", "int", 1), Atom("V", "=", "int", 2), Atom("w", "!=", "int", 1),
   Atom("w", "<", "int", 2), Atom("timeout", ">", "int", 1), Atom("time", ">", "now", 1)}
Conditions ==
  {[atoms |-> <<a>>, joins |-> <<>>] : a \in Atoms}
    \cup [atoms : FewAtoms \X FewAtoms, joins : {<<"and">>, <<"or">>}]
    \cup [atoms : FewAtoms \X FewAtoms \X FewAtoms, joins : {"and", "or"} \X {"and", "or"}]

Where(cond) == [kw |-> "where", cond |-> cond]
Limit(n) == [kw |-> "limit", n |-> n]
ClauseLists ==
  {<<>>, <<Limit(1)>>, <<[kw |-> "other"], Limit(2)>>}
    \cup {<<Where(cond)>> : cond \in Conditions}
    \cup {<<Where(cond), Limit(1)>> : cond \in Conditions}
    \cup {<<Limit(1), Where(cond)>> : cond \in Conditions}

Statements ==
  [clauses : ClauseLists, field : {"v"}, aggregate : {"none"}]
    \cup [clauses : {<<>>, <<Limit(2)>>}, field : {"v", "w"},
          aggregate : {"count", "sum", "min", "max", "first", "last"}]

IntValue(n) == [type |-> "int", n |-> n]
Row(time, fields) == [time |-> time, fields |-> fields]
SomeTables ==
  {<<>>,
   <<Row(0, [V |-> IntValue(1), w |-> IntValue(1)]), Row(1, [V |-> IntValue(2)]), Row(2, [w |-> IntValue(1)])>>,
   <<Row(0, [V |-> [type |-> "float", n |-> 2]]), Row(2, [V |-> [type |-> "float", n |-> 1], w |-> IntValue(2)]),
     Row(3, [V |-> IntValue(2), w |-> IntValue(3)])>>,
   <<Row(0, [V |-> [type |-> "uint", n |-> 5]]), Row(1, [V |-> [type |-> "uint", n |-> 2], timeout |-> IntValue(1)])>>,
   <<Row(0, [V |-> [type |-> "uint", n |-> 9]]), Row(1, [V |-> [type |-> "uint", n |-> 2]])>>,
   <<Row(0, [V |-> IntValue(5)]), Row(1, [V |-> IntValue(5), time |-> IntValue(3)]), Row(2, [V |-> IntValue(-4)])>>,
   <<Row(0, [V |-> [type |-> "bool", n |-> 1], w |-> [type |-> "str", n |-> 1]])>>}

SomeTexts == UNION {[1..n -> TextTokens] : n \in 0..3}

Letters(n) == [i \in 1..n |-> 65]
Bytes(n) == [i \in 1..8 |-> n]
Series(labels, samples) == [labels |-> labels, samples |-> samples]
SomeSeries ==
  {<<>>,
   <<Series(<<<<Letters(1), Letters(130)>>>>, <<<<Bytes(1), Bytes(2)>>>>)>>,
   <<Series(<<<<Letters(1), <<>>>>, <<Letters(1), Letters(2)>>>>, <<>>),
     Series(<<<<Letters(2), Letters(1)>>>>, <<<<Bytes(1), Bytes(2)>>, <<Bytes(0), Bytes(255)>>>>)>>,
   <<Series(<<>>, <<>>), Series(<<<<Letters(2), Letters(1)>>>>, <<>>), Series(<<>>, <<>>), Series(<<>>, <<>>)>>}
SomeQueries ==
  {<<[start |-> Bytes(0), end |-> Bytes(255), names |-> <<Letters(3)>>]>>,
   <<[start |-> Bytes(1), end |-> Bytes(2), names |-> <<Letters(1), Letters(2)>>],
     [start |-> Bytes(2), end |-> Bytes(3), names |-> <<>>]>>}

FlightRow(time, tags, fields) == [time |-> time, tags |-> tags, fields |-> fields]
Shapes(t) ==
  {FlightRow(t, [host |-> Value("str", t)], [f |-> Value("int", t)]),
   FlightRow(t, [host |-> Value("str", 1)], [f |-> Value("uint", t), g |-> Value("bool", 1)]),
   FlightRow(t, <<>>, [f |-> Value("float", t)]),
   FlightRow(t, <<>>, [f |-> Value("uint", t + 7)]),
   FlightRow(t, [host |-> Value("str", 2), dc |-> Value("str", 1)], [g |-> Value("str", 1)])}
SomeRows ==
  {<<>>} \cup {<<a>> : a \in Shapes(3)} \cup (Shapes(1) \X Shapes(2) \X Shapes(2) \X Shapes(4) \X Shapes(5))

Init ==
  /\ part \in {"server", "query", "lines", "remote", "flight"}
  /\ ServerInit /\ (part # "server" => engine = "none")
  /\ IF part = "query" THEN QueryInit
     ELSE select = [clauses |-> <<>>] /\ table = <<>> /\ answer = <<>> /\ value = 0 /\ executed = FALSE
  /\ IF part = "lines" THEN LinesInit ELSE written = <<>> /\ parsed = [is |-> "unparsed"]
  /\ IF part = "remote" THEN RemoteInit
     ELSE sent = [kind |-> "write", list |-> <<>>] /\ cut = 0 /\ decoded = [ok |-> FALSE]
  /\ IF part = "flight" THEN FlightInit
     ELSE result = <<>> /\ batches = <<>> /\ put = <<>> /\ received = <<>> /\ outcome = "getting"

Next ==
  /\ UNCHANGED part
  /\ \/ part = "server" /\ ServerNext /\ UNCHANGED <<queryVars, lineVars, remoteVars, flightVars>>
     \/ part = "query" /\ QueryNext /\ UNCHANGED <<serverVars, lineVars, remoteVars, flightVars>>
     \/ part = "lines" /\ LinesNext /\ UNCHANGED <<serverVars, queryVars, remoteVars, flightVars>>
     \/ part = "remote" /\ RemoteNext /\ UNCHANGED <<serverVars, queryVars, lineVars, flightVars>>
     \/ part = "flight" /\ FlightNext /\ UNCHANGED <<serverVars, queryVars, lineVars, remoteVars>>

Spec == Init /\ [][Next]_vars /\ ServerFairness
=============================================================================
