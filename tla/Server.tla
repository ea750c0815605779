------------------------------- MODULE Server -------------------------------
(***************************************************************************)
(* The HTTP server: a listener thread, one thread per connection with one  *)
(* request each, and the readers-writer lock around the engine.  A panic   *)
(* under a write guard poisons the lock, and every later request that      *)
(* unwraps it dies.  The debug command takes the lock of the controls      *)
(* first and may take the engine's inside it.  The server never flushes,   *)
(* so the rows of the engine are those of its memtable.                    *)
(***************************************************************************)
EXTENDS Sequences, FiniteSets, Tables, Machine

CONSTANTS
  Conns,            \* connections, each used once
  Requests,         \* connection -> what its client may send, see RequestType
  Databases,        \* names of databases
  Policies,         \* names of retention policies
  Measurements,     \* names of measurements
  Times, Values,    \* timestamps of rows, and the contents of their fields
  MaxBinds          \* bound: successful calls of start

VARIABLES
  running,      \* HttpServer.running
  listener,     \* "none", or "open" while its thread waits for connections
  binds,        \* successful calls of start so far
  conns,        \* connection -> where its thread is and what it has done
  engine,       \* "none" until set_engine
  rows,         \* rows of the memtable, see Keys
  schema,       \* database -> its retention policies and the default one
  lock,         \* the engine's lock: writer, readers, poisoned
  control,      \* the lock of the controls: "free", "poisoned" or its holder
  turns         \* ghost: the connections in the order they got the engine in

serverVars == <<running, listener, binds, conns, engine, rows, schema, lock, control, turns>>

Nobody == "nobody"
Bodies == {"write", "samples"}      \* line protocol, Prometheus remote write
Writers == Bodies \cup
  {"insert", "drop", "create_db", "drop_db", "create_rp", "alter_db", "drop_measurement"}
Readers == {"select", "show", "range"}
Unlocked == {"ping"}      \* also bad queries, unknown paths, USE, SET, GRANT, REVOKE
Garbled == {"garbled"}    \* queries that bring the parser of statements down
Controls == {"flush", "switch"}

\* What the parser of statements makes of CREATE, DROP, ALTER, INSERT and SHOW.
CreateRequests ==
  [op : {"create_db"}, db : Databases] \cup [op : {"create_rp"}, db : Databases, rp : Policies]
DropRequests == [op : {"drop_db"}, db : Databases] \cup [op : {"drop", "drop_measurement"}]
AlterRequests ==
  [op : {"alter_db"}, db : Databases, rp : Policies \cup {"none"}, duration : BOOLEAN]
\* A row is found under its measurement, its time and its tags, of which only the
\* place in their order matters; the database is not part of the key.
Keys == [table : Measurements, time : Times, series : Nat]
InsertRequests == [op : {"insert"}, key : Keys, value : Values]
ShowRequests == [op : {"show"}]

\* A query has a condition, as the values that pass it, and a limit; it may ask
\* for a sum of integers.
SelectRequests ==
  [op : {"select"}, table : Measurements, passes : SUBSET Values, limit : Nat, sum : BOOLEAN]
StatementRequests ==
  CreateRequests \cup DropRequests \cup AlterRequests \cup InsertRequests \cup ShowRequests
    \cup SelectRequests

\* A line may be refused by the parser or bring it down (a quote alone for a
\* value, see Lines), and a sample may have a time that overflows.  Remote
\* requests may hold a length that wraps; a read may have a range that overflows
\* or a text cut in the wrong order.
LinesOfKinds(kinds) == [kind : kinds, key : Keys, value : Values]
RequestType ==
  [op : {"write"}, lines : Seq(LinesOfKinds({"ok", "bad", "quote"})),
                   headers : Seq(LinesOfKinds({"ok", "bad", "quote"}))]
    \cup [op : {"samples"}, lines : Seq(LinesOfKinds({"ok", "huge"})), spoilt : {"no", "length"}]
    \cup [op : {"range"}, table : Measurements, from : Int, to : Int,
          spoilt : {"no", "overflow", "text", "length"}]
    \cup [op : Unlocked \cup Controls \cup Garbled]
    \cup StatementRequests

ASSUME ServerAssumption ==
  /\ Times \subseteq {t \in Int : Fits(t)}
  /\ \A c \in Conns : Requests[c] \subseteq RequestType
ASSUME NobodyAssumption == Nobody \notin Conns

\* A connection has the lines that arrived, of which the first n are dealt with.
Away == [at |-> "away", req |-> [op |-> "ping"], lines |-> <<>>, n |-> 0, stored |-> <<>>,
         refused |-> 0, bad |-> 0, seen |-> {}, reply |-> 0]

At(c, label) == conns[c].at = label
Op(c) == conns[c].req.op
Goes(c, label) == conns' = [conns EXCEPT ![c].at = label]
Replies(c, status) == conns' = [conns EXCEPT ![c].at = "reply", ![c].reply = status]

ServerInit ==
  /\ running = FALSE /\ listener = "none" /\ binds = 0
  /\ conns = [c \in Conns |-> Away]
  /\ engine \in {"none", "set"}
  /\ rows = {} /\ schema = NoEntries
  /\ lock = [writer |-> Nobody, readers |-> {}, poisoned |-> FALSE]
  /\ control = "free" /\ turns = <<>>

-----------------------------------------------------------------------------
(* start, stop and the listener. *)

\* start fails to bind, and changes nothing, while an old listener is there.
Start ==
  /\ binds < MaxBinds /\ listener = "none"
  /\ binds' = binds + 1
  /\ running' = TRUE /\ listener' = "open"
  /\ UNCHANGED <<conns, engine, rows, schema, lock, control, turns>>

Stop ==
  /\ running' = FALSE
  /\ UNCHANGED <<listener, binds, conns, engine, rows, schema, lock, control, turns>>

Connect(c) ==
  /\ At(c, "away") /\ listener = "open"
  /\ Goes(c, "backlog")
  /\ UNCHANGED <<running, listener, binds, engine, rows, schema, lock, control, turns>>

\* The flag is read after a connection has come: that connection and all that
\* wait behind it are lost when the server has been stopped.
Accept(c) ==
  /\ At(c, "backlog") /\ listener = "open"
  /\ IF running
     THEN Goes(c, "reading") /\ UNCHANGED listener
     ELSE /\ listener' = "none"
          /\ conns' = [d \in Conns |->
                         IF At(d, "backlog") THEN [conns[d] EXCEPT !.at = "gone"] ELSE conns[d]]
  /\ UNCHANGED <<running, binds, engine, rows, schema, lock, control, turns>>

\* What arrives of some lines: only what came in the packets of the headers.  The
\* last line may be cut, and then hold another value or time, not parse, or end
\* with the quote that opens a string.
Shortened(line) ==
  {[line EXCEPT !.kind = kind] : kind \in {"bad", "quote"}}
    \cup {[kind |-> "ok", key |-> [line.key EXCEPT !.time = t], value |-> v] : t \in Times, v \in Values}
Cuts(lines) ==
  {SubSeq(lines, 1, n) : n \in 0..Len(lines)}
    \cup UNION {{Append(SubSeq(lines, 1, n - 1), cut) : cut \in Shortened(lines[n])} : n \in DOMAIN lines}

\* If nothing has come of the body, the header lines are read as line protocol.
Arrived(req) == (Cuts(req.lines) \ {<<>>}) \cup Cuts(req.headers)

\* Frames of a remote write that are cut are ignored, or spoil the request.
Decoded(lines) == {SubSeq(lines, 1, n) : n \in 0..Len(lines)}

Receive(c) ==
  /\ At(c, "reading")
  /\ \/ Goes(c, "gone")
     \/ \E req \in Requests[c] :
          \E lines \in CASE req.op = "write" -> Arrived(req)
                         [] req.op = "samples" -> Decoded(req.lines)
                         [] OTHER -> {<<>>} :
            conns' = [conns EXCEPT ![c].at = "dispatch", ![c].req = req, ![c].lines = lines]
  /\ UNCHANGED <<running, listener, binds, engine, rows, schema, lock, control, turns>>

-----------------------------------------------------------------------------
(* The lock. *)

Dies(c) == Goes(c, "dead")

\* Mutant: the guard of a reader is never dropped.
FreedByWriter(c) == [lock EXCEPT !.writer = IF @ = c THEN Nobody ELSE @]

Freed(c) ==
  [lock EXCEPT !.writer = IF @ = c THEN Nobody ELSE @, !.readers = @ \ {c}]

\* A thread that gets the lock finds the engine, or answers 500 at once.
Locks(c, newLock) ==
  IF lock.poisoned
  THEN Dies(c) /\ UNCHANGED <<lock, turns>>
  ELSE /\ lock.writer = Nobody
       /\ IF engine = "set"
          THEN Goes(c, "holding") /\ lock' = newLock /\ turns' = Append(turns, c)
          ELSE Replies(c, 500) /\ UNCHANGED <<lock, turns>>

LockWrite(c) ==
  /\ At(c, "dispatch") /\ Op(c) \in Writers
  /\ lock.readers = {}
  /\ Locks(c, [lock EXCEPT !.writer = c])
  /\ UNCHANGED <<running, listener, binds, engine, rows, schema, control>>

LockRead(c) ==
  /\ At(c, "dispatch") /\ Op(c) \in Readers
  /\ Locks(c, [lock EXCEPT !.readers = @ \cup {c}])
  /\ UNCHANGED <<running, listener, binds, engine, rows, schema, control>>

\* set_engine replaces an engine that is there, with all its rows: only the
\* first call is modelled, which finds none.
SetEngine ==
  /\ engine = "none" /\ ~lock.poisoned
  /\ lock.writer = Nobody /\ lock.readers = {}
  /\ engine' = "set"
  /\ UNCHANGED <<running, listener, binds, conns, rows, schema, lock, control, turns>>

Finishes(c, status) ==
  /\ Replies(c, status)
  /\ lock' = Freed(c)
  /\ UNCHANGED <<running, listener, binds, engine, control, turns>>

-----------------------------------------------------------------------------
(* Writing. *)

Working(c, ops) == At(c, "holding") /\ Op(c) \in ops
MoreLines(c) == conns[c].n < Len(conns[c].lines)
NextLine(c) == conns[c].lines[conns[c].n + 1]

\* A row takes the place of the one with its key, whoever wrote that.
RowOf(line) == [key |-> line.key, value |-> line.value]
Inserted(row) == {r \in rows : r.key # row.key} \cup {row}

\* The engine stores the next line of a body.
Stores(c) ==
  /\ rows' = Inserted(RowOf(NextLine(c)))
  /\ conns' = [conns EXCEPT ![c].n = @ + 1, ![c].stored = Append(@, RowOf(NextLine(c)))]

\* Mutant: the lock is taken anew for every line.
StoreLineUnlocked(c) ==
  /\ Working(c, Bodies) /\ MoreLines(c)
  /\ NextLine(c).kind = "ok" \/ (NextLine(c).kind = "huge" /\ ~OverflowChecks)
  /\ rows' = Inserted(RowOf(NextLine(c)))
  /\ conns' = [conns EXCEPT ![c].at = "dispatch", ![c].n = @ + 1,
                            ![c].stored = Append(@, RowOf(NextLine(c)))]
  /\ lock' = Freed(c)
  /\ UNCHANGED <<running, listener, binds, engine, schema, control, turns>>

StoreLine(c) ==
  /\ Working(c, Bodies) /\ MoreLines(c)
  /\ NextLine(c).kind = "ok" \/ (NextLine(c).kind = "huge" /\ ~OverflowChecks)
  /\ Stores(c)
  /\ UNCHANGED <<running, listener, binds, engine, schema, lock, control, turns>>

\* handle_write counts a line it cannot parse and ignores one that is refused.
SkipLine(c) ==
  /\ Working(c, {"write"}) /\ MoreLines(c) /\ NextLine(c).kind # "quote"
  /\ conns' = IF NextLine(c).kind = "bad"
              THEN [conns EXCEPT ![c].n = @ + 1, ![c].bad = @ + 1]
              ELSE [conns EXCEPT ![c].n = @ + 1, ![c].refused = @ + 1]
  /\ UNCHANGED <<running, listener, binds, engine, rows, schema, lock, control, turns>>

\* Mutant: a request with a bad line is refused whatever it has stored.
WriteStatusStrict(c) == IF conns[c].bad > 0 THEN 400 ELSE 204

WriteStatus(c) == IF conns[c].bad > 0 /\ conns[c].stored = <<>> THEN 400 ELSE 204

EndWrite(c) ==
  /\ Working(c, {"write"}) /\ ~MoreLines(c)
  /\ Finishes(c, WriteStatus(c))
  /\ UNCHANGED <<rows, schema>>

\* write_prometheus stops at the first sample that is refused.
RefuseSample(c) ==
  /\ Working(c, {"samples"}) /\ MoreLines(c)
  /\ NextLine(c).kind = "ok" \/ ~OverflowChecks
  /\ Finishes(c, 500)
  /\ UNCHANGED <<rows, schema>>

\* The thread dies under the write guard, and nobody gets the engine again.
PanicUnderGuard(c) ==
  /\ lock' = [Freed(c) EXCEPT !.poisoned = TRUE]
  /\ Dies(c)
  /\ UNCHANGED <<running, listener, binds, engine, rows, schema, control, turns>>

\* The parser runs under the lock too.
PanicOnLine(c) ==
  /\ Working(c, {"write"}) /\ MoreLines(c) /\ NextLine(c).kind = "quote"
  /\ PanicUnderGuard(c)

\* The timestamp of a sample overflows when it is scaled to nanoseconds.
PanicOnSample(c) ==
  /\ Working(c, {"samples"}) /\ MoreLines(c)
  /\ NextLine(c).kind = "huge" /\ OverflowChecks
  /\ PanicUnderGuard(c)

EndSamples(c) ==
  /\ Working(c, {"samples"}) /\ ~MoreLines(c)
  /\ Finishes(c, 204)
  /\ UNCHANGED <<rows, schema>>

\* The parser of statements cuts at a quote that is alone or inside a letter of
\* several bytes, or, if overflow is checked, multiplies a duration that does not
\* fit; the decoder of a remote body adds a length that wraps.  No lock is taken.
Trips(req) ==
  req.op \in Garbled \/ (req.op \in {"samples", "range"} /\ req.spoilt = "length")
PanicBeforeLock(c) ==
  /\ At(c, "dispatch") /\ Trips(conns[c].req)
  /\ Dies(c)
  /\ UNCHANGED <<running, listener, binds, engine, rows, schema, lock, control, turns>>

\* A body that cannot be decoded and a query without a text are refused before
\* the lock is taken.  (A length that wraps may have been cut off.)
RejectRemote(c) ==
  /\ At(c, "dispatch") /\ Op(c) \in {"samples", "range"}
  /\ \E status \in {500} \cup (IF Op(c) = "range" THEN {400} ELSE {}) : Replies(c, status)
  /\ UNCHANGED <<running, listener, binds, engine, rows, schema, lock, control, turns>>

-----------------------------------------------------------------------------
(* Statements. *)

Insert(c) ==
  /\ Working(c, {"insert"})
  /\ \/ /\ rows' = Inserted(RowOf(conns[c].req))
        /\ conns' = [conns EXCEPT ![c].at = "reply", ![c].reply = 200,
                                  ![c].stored = <<RowOf(conns[c].req)>>]
     \/ Replies(c, 500) /\ UNCHANGED rows
  /\ lock' = Freed(c)
  /\ UNCHANGED <<running, listener, binds, engine, schema, control, turns>>

\* DROP SERIES and DELETE ignore their condition and clear the memtable.
Drops(c) ==
  /\ Working(c, {"drop"})
  /\ rows' = {}
  /\ Finishes(c, 200)
  /\ UNCHANGED schema

NewDatabase == [policies |-> {}, default |-> "none"]
WithPolicy(db, rp) ==
  [policies |-> db.policies \cup {rp}, default |-> IF db.default = "none" THEN rp ELSE db.default]

\* What a statement makes of the schema, and whether it succeeds.
SchemaAfter(req) ==
  CASE req.op = "create_db" -> IF req.db \in DOMAIN schema THEN schema ELSE Put(schema, req.db, NewDatabase)
    [] req.op = "drop_db" -> Drop(schema, req.db)
    [] req.op \in {"create_rp", "alter_db"} ->
         IF req.db \in DOMAIN schema /\ req.rp # "none" /\ (req.op = "alter_db" => req.duration)
         THEN Put(schema, req.db, WithPolicy(schema[req.db], req.rp)) ELSE schema
    [] OTHER -> schema

SchemaAccepts(req) ==
  CASE req.op = "create_db" -> req.db \notin DOMAIN schema
    [] req.op \in {"drop_db", "create_rp"} -> req.db \in DOMAIN schema
    [] req.op = "alter_db" -> req.rp # "none" /\ req.duration => req.db \in DOMAIN schema
    [] OTHER -> TRUE

\* drop_measurement touches the catalogue of the engine only.
ChangeSchema(c) ==
  /\ Working(c, {"create_db", "drop_db", "create_rp", "alter_db", "drop_measurement"})
  /\ schema' = SchemaAfter(conns[c].req)
  /\ Finishes(c, IF SchemaAccepts(conns[c].req) THEN 200 ELSE 500)
  /\ UNCHANGED rows

-----------------------------------------------------------------------------
(* Reading, and everything else. *)

\* The rows of one measurement in a range of times, its end left out: those that
\* pass the condition of a SELECT, up to its limit, in the order of the memtable.
Before(k, l) == k.time < l.time \/ (k.time = l.time /\ k.series < l.series)
InRange(rs, table, from, to) ==
  {r \in rs : r.key.table = table /\ from <= r.key.time /\ r.key.time < to}
Limited(rs, limit) == {r \in rs : Cardinality({q \in rs : Before(q.key, r.key)}) < limit}
Found(rs, req) ==
  CASE req.op = "select" ->
         Limited({r \in InRange(rs, req.table, 0, Half - 1) : r.value \in req.passes}, req.limit)
    [] req.op = "range" -> InRange(rs, req.table, req.from, req.to)
    [] OTHER -> {}

\* The range of a remote read overflows when it is scaled to nanoseconds, it ends
\* before it begins, or the closing brace of a query's text stands before the
\* opening one.
SpoiltRange(req) ==
  \/ req.spoilt = "overflow" /\ OverflowChecks
  \/ req.spoilt = "text"
  \/ req.to < req.from

Reads(c) ==
  /\ Working(c, Readers)
  /\ Op(c) = "range" => ~SpoiltRange(conns[c].req)
  /\ conns' = [conns EXCEPT ![c].at = "reply", ![c].reply = 200,
                            ![c].seen = Found(rows, conns[c].req)]
  /\ lock' = Freed(c)
  /\ UNCHANGED <<running, listener, binds, engine, rows, schema, control, turns>>

\* A sum of integers may overflow if there are two of them.
SumMayOverflow(c) ==
  /\ conns[c].req.sum /\ OverflowChecks
  /\ Cardinality(Found(rows, conns[c].req)) > 1

\* A panic under a read guard frees the lock without poisoning it.
PanicOnRead(c) ==
  /\ \/ Working(c, {"range"}) /\ SpoiltRange(conns[c].req)
     \/ Working(c, {"select"}) /\ SumMayOverflow(c)
  /\ Dies(c)
  /\ lock' = Freed(c)
  /\ UNCHANGED <<running, listener, binds, engine, rows, schema, control, turns>>

Answer(c) ==
  /\ At(c, "dispatch") /\ Op(c) \in Unlocked
  /\ \E status \in {200, 400, 404, 405} : Replies(c, status)
  /\ UNCHANGED <<running, listener, binds, engine, rows, schema, lock, control, turns>>

\* What the commands other than flush answer: success, a body that is no JSON,
\* and no controls.  None of them has any effect.
ControlStatus(c) == {500} \cup (IF Op(c) = "switch" THEN {200, 400} ELSE {})

\* The controls answer at once, unless their lock is poisoned.  Only a flush goes
\* on to the engine's lock.
LockControl(c) ==
  /\ At(c, "dispatch") /\ Op(c) \in Controls
  /\ \/ control = "poisoned" /\ Replies(c, 500) /\ UNCHANGED control
     \/ control = "free" /\ Op(c) = "flush" /\ Goes(c, "flush") /\ control' = c
     \/ /\ control = "free"
        /\ \E status \in ControlStatus(c) : Replies(c, status)
        /\ UNCHANGED control
  /\ UNCHANGED <<running, listener, binds, engine, rows, schema, lock, turns>>

\* handle_flush reads the engine and leaves it as it is.  If the engine's lock
\* is poisoned, the panic poisons the lock of the controls too.
FlushNothing(c) ==
  /\ At(c, "flush")
  /\ IF lock.poisoned
     THEN Dies(c) /\ control' = "poisoned"
     ELSE lock.writer = Nobody /\ Replies(c, 200) /\ control' = "free"
  /\ UNCHANGED <<running, listener, binds, engine, rows, schema, lock, turns>>

\* The answer is written; the thread ends all the same if its client has gone.
SendReply(c) ==
  /\ At(c, "reply")
  /\ Goes(c, "answered")
  /\ UNCHANGED <<running, listener, binds, engine, rows, schema, lock, control, turns>>

-----------------------------------------------------------------------------
Handler(c) ==
  \/ LockWrite(c) \/ LockRead(c) \/ LockControl(c) \/ Answer(c) \/ PanicBeforeLock(c) \/ RejectRemote(c)
  \/ StoreLine(c) \/ SkipLine(c) \/ PanicOnLine(c) \/ EndWrite(c)
  \/ RefuseSample(c) \/ PanicOnSample(c) \/ EndSamples(c)
  \/ Insert(c) \/ Drops(c) \/ ChangeSchema(c)
  \/ Reads(c) \/ PanicOnRead(c) \/ FlushNothing(c) \/ SendReply(c)

ServerNext ==
  \/ Start \/ Stop \/ SetEngine
  \/ \E c \in Conns : Connect(c) \/ Accept(c) \/ Receive(c) \/ Handler(c)

\* The threads of connections are scheduled, and a client takes its answer or
\* goes away, which ends a write to it.  Nothing makes a client connect or send.
ServerFairness == \A c \in Conns : WF_serverVars(Handler(c))

ServerSpec == ServerInit /\ [][ServerNext]_serverVars /\ ServerFairness

-----------------------------------------------------------------------------
(* Properties. *)

\* The rows that the first n turns leave behind, each of them as a whole: the last
\* line stored under a key, unless a later turn has stored another or dropped it.
Leaves(conn) ==
  {conn.stored[i] : i \in {i \in DOMAIN conn.stored :
     \A j \in DOMAIN conn.stored : j > i => conn.stored[j].key # conn.stored[i].key}}
Dropped(conn) == conn.req.op = "drop" /\ conn.at # "holding"
Touches(conn, key) == Dropped(conn) \/ \E i \in DOMAIN conn.stored : conn.stored[i].key = key
LeftBy(n) ==
  UNION {{r \in Leaves(conns[turns[i]]) : \A j \in (i + 1)..n : ~Touches(conns[turns[j]], r.key)}
           : i \in 1..n}

\* The answer of a query is what it finds in the rows of whole requests: those
\* whose turn came before it, one behind the other, each with every line that it
\* ever stores, whichever of its lines were refused, overwrote others or were
\* dropped in between.
HasRead(conn) == conn.req.op \in {"select", "range"} /\ conn.at \in {"reply", "answered"}
ReadsSeeWholeRequests ==
  \A n \in DOMAIN turns :
    HasRead(conns[turns[n]]) => conns[turns[n]].seen = Found(LeftBy(n - 1), conns[turns[n]].req)

\* An answer says what became of the lines that arrived, be they those of the
\* body or of the headers.  400: nothing was stored.  204: every line was stored,
\* or could not be parsed, or was refused without a word, and remote writes are
\* complete.  500 on a remote write: the samples before the refused one were
\* stored, and no other.  An insertion is stored exactly if it is answered 200.
HonestReply(conn) ==
  CASE conn.req.op = "write" ->
         /\ conn.reply = 400 => conn.stored = <<>> /\ conn.bad > 0
         /\ conn.reply = 204 =>
              /\ conn.n = Len(conn.lines)
              /\ conn.n = Len(conn.stored) + conn.refused + conn.bad
              /\ conn.bad = Cardinality({i \in 1..conn.n : conn.lines[i].kind = "bad"})
              /\ (conn.bad > 0 => conn.stored # <<>>)
    [] conn.req.op = "samples" ->
         /\ conn.stored = [i \in 1..conn.n |-> RowOf(conn.lines[i])]
         /\ conn.reply = 204 => conn.n = Len(conn.lines)
         /\ conn.reply \in {204, 500}
    [] conn.req.op = "insert" -> ((conn.reply = 200) <=> (conn.stored = <<RowOf(conn.req)>>))
    [] OTHER -> conn.stored = <<>>
RepliesMatchStore == \A c \in Conns : At(c, "answered") => HonestReply(conns[c])

\* Every request that has arrived is answered, or its thread dies: because a panic
\* under a write guard has poisoned the lock, or because of what it asks itself:
\* a text or a length that trips its parser, a spoilt range, a sum that may
\* overflow.  In particular no thread waits for ever, with the two locks taken in
\* the order in which they are.
AsksForIt(req) ==
  \/ Trips(req)
  \/ req.op = "range" /\ SpoiltRange(req)
  \/ req.op = "select" /\ req.sum /\ OverflowChecks
EveryRequestAnswered ==
  \A c \in Conns :
    At(c, "dispatch") ~>
      At(c, "answered") \/ (At(c, "dead") /\ (lock.poisoned \/ AsksForIt(conns[c].req)))
=============================================================================
