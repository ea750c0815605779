------------------------------- MODULE Flight --------------------------------
(***************************************************************************)
(* The Arrow Flight service: the rows of a query become record batches of  *)
(* limited length (do_get), and record batches become rows that are        *)
(* written one at a time (do_put).  The first row of a batch decides which *)
(* columns it has and of what types; other rows are made to fit.           *)
(***************************************************************************)
EXTENDS Lists, SequencesExt, Machine

CONSTANTS
  RowLists,         \* results of a query: sequences of rows, see IsRow
  MaxBatchRows      \* max_record_batch_size

\* A value has a type and a number; 0 stands for false and the empty string.
FlightTypes == {"int", "uint", "float", "bool", "str"}
IsRow(row) ==
  /\ row.tags \in [DOMAIN row.tags -> [type : {"str"}, n : Int]]
  /\ row.fields \in [DOMAIN row.fields -> [type : FlightTypes, n : Int]]
  /\ \A f \in DOMAIN row.fields : row.fields[f].type = "uint" => row.fields[f].n \in 0..(2 * Half - 1)
ASSUME FlightAssumption ==
  /\ MaxBatchRows \in Nat \ {0}
  /\ \A list \in RowLists : list \in Seq(ToSet(list)) /\ \A row \in ToSet(list) : IsRow(row)

VARIABLES
  result,       \* the rows that the query of do_get returned
  batches,      \* what do_get makes of them, and another server gets with do_put
  put,          \* rows that do_put has still to write
  received,     \* rows it has written, in order
  outcome       \* "getting", "putting", or the end of do_put: "ok", "failed"

flightVars == <<result, batches, put, received, outcome>>

-----------------------------------------------------------------------------
(* do_get. *)

\* Mutant: what is left behind the last full batch is forgotten.
ChunksFull(rows) ==
  LET after[i \in 0..Len(rows)] ==
        IF i = 0 THEN [full |-> <<>>, open |-> <<>>]
        ELSE LET open == Append(after[i - 1].open, rows[i])
             IN  IF Len(open) >= MaxBatchRows
                 THEN [full |-> Append(after[i - 1].full, open), open |-> <<>>]
                 ELSE [full |-> after[i - 1].full, open |-> open]
  IN  after[Len(rows)].full

\* After each row: the batches that are full, and the rows of the next one.
Chunks(rows) ==
  LET after[i \in 0..Len(rows)] ==
        IF i = 0 THEN [full |-> <<>>, open |-> <<>>]
        ELSE LET open == Append(after[i - 1].open, rows[i])
             IN  IF Len(open) >= MaxBatchRows
                 THEN [full |-> Append(after[i - 1].full, open), open |-> <<>>]
                 ELSE [full |-> after[i - 1].full, open |-> open]
      end == after[Len(rows)]
  IN  IF end.open = <<>> THEN end.full ELSE Append(end.full, end.open)

ArrowType(type) == IF type = "uint" THEN "int" ELSE type
Value(type, n) == [type |-> type, n |-> n]

\* What a column of a type holds for a row that has this value, or none.  A
\* column of integers takes an unsigned one by a cast, a column of floats takes
\* every number as it is; the other types take their own.
\* (Texts that read as numbers are not among the values.)
Signed(v) == IF v.type = "uint" THEN AsSigned(v.n) ELSE v.n
Cell(type, row, field) ==
  IF field \notin DOMAIN row THEN Value(type, 0)
  ELSE IF ArrowType(row[field].type) = type THEN Value(type, Signed(row[field]))
  ELSE IF type = "float" /\ row[field].type \in {"uint", "int", "bool"} THEN Value(type, row[field].n)
  ELSE Value(type, 0)

\* The cells of the columns that the first of these rows has.
Columns(rows) ==
  [name \in DOMAIN Head(rows) |->
     [i \in DOMAIN rows |-> Cell(ArrowType(Head(rows)[name].type), rows[i], name)]]

BuildBatch(rows) ==
  [tags |-> Columns([i \in DOMAIN rows |-> rows[i].tags]),
   fields |-> Columns([i \in DOMAIN rows |-> rows[i].fields]),
   times |-> [i \in DOMAIN rows |-> rows[i].time]]

FlightInit ==
  /\ result \in RowLists
  /\ batches = <<>> /\ put = <<>> /\ received = <<>>
  /\ outcome = "getting"

DoGet ==
  /\ outcome = "getting"
  /\ batches' = [i \in DOMAIN Chunks(result) |-> BuildBatch(Chunks(result)[i])]
  /\ outcome' = "sent"
  /\ UNCHANGED <<result, put, received>>

-----------------------------------------------------------------------------
(* do_put. *)

RowsOfBatch(batch) ==
  [i \in DOMAIN batch.times |->
     [tags |-> [name \in DOMAIN batch.tags |-> batch.tags[name][i]],
      fields |-> [name \in DOMAIN batch.fields |-> batch.fields[name][i]],
      time |-> batch.times[i]]]

\* A disabled server and one without an engine refuse.
BeginPut ==
  /\ outcome = "sent"
  /\ \/ /\ outcome' = "putting"
        /\ put' = Joined([i \in DOMAIN batches |-> RowsOfBatch(batches[i])])
     \/ outcome' = "failed" /\ UNCHANGED put
  /\ UNCHANGED <<result, batches, received>>

\* The first row that the engine refuses ends the call; those before it stay.
PutRow ==
  /\ outcome = "putting" /\ put # <<>>
  /\ \/ /\ received' = Append(received, Head(put))
        /\ put' = Tail(put)
        /\ UNCHANGED outcome
     \/ outcome' = "failed" /\ UNCHANGED <<received, put>>
  /\ UNCHANGED <<result, batches>>

EndPut ==
  /\ outcome = "putting" /\ put = <<>>
  /\ outcome' = "ok"
  /\ UNCHANGED <<result, batches, put, received>>

FlightNext == DoGet \/ BeginPut \/ PutRow \/ EndPut
FlightSpec == FlightInit /\ [][FlightNext]_flightVars

-----------------------------------------------------------------------------
(* Properties. *)

\* The row that decides the columns of row i.
Leader(i) == result[((i - 1) \div MaxBatchRows) * MaxBatchRows + 1]
Same(row, leader) ==
  /\ DOMAIN row.tags = DOMAIN leader.tags /\ DOMAIN row.fields = DOMAIN leader.fields
  /\ \A f \in DOMAIN row.fields :
       ArrowType(row.fields[f].type) = ArrowType(leader.fields[f].type)

\* A value arrives in its own column: unchanged but for an unsigned number, which
\* becomes a signed one, and a negative one from 2^63 on.
ArrivesAs(got, v) ==
  IF v.type = "uint" /\ v.n >= Half
  THEN got.type = "int" /\ got.n < 0
  ELSE got = Value(ArrowType(v.type), v.n)

\* Rows that travel from one server to another arrive in order and with their
\* times: all of them if do_put succeeds, and the first ones if it fails.  A row
\* with the tags and the types of the first row of its batch arrives as its values
\* do; of any other row, what it shares with that first row, under the tags and
\* fields of that.
FlightRoundTrip ==
  /\ outcome = "ok" => Len(received) = Len(result)
  /\ Len(received) <= Len(result)
  /\ \A i \in DOMAIN received :
       LET row == result[i]  got == received[i]  leader == Leader(i)
       IN  /\ got.time = row.time
           /\ DOMAIN got.tags = DOMAIN leader.tags
           /\ DOMAIN got.fields = DOMAIN leader.fields
           /\ \A f \in DOMAIN got.fields \cap DOMAIN row.fields :
                ArrowType(row.fields[f].type) = got.fields[f].type => ArrivesAs(got.fields[f], row.fields[f])
           /\ Same(row, leader) =>
                /\ got.tags = row.tags
                /\ \A f \in DOMAIN row.fields :
                     f \in DOMAIN got.fields /\ ArrivesAs(got.fields[f], row.fields[f])
=============================================================================
