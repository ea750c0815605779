-------------------------------- MODULE Lines --------------------------------
(***************************************************************************)
(* The parser of line protocol: it cuts a line at its first space, at its  *)
(* last one and at every comma, without regard to quotes.  A line is a     *)
(* sequence of tokens: the characters that matter, and words and numbers   *)
(* as one token each.  One line is parsed in one step.                     *)
(***************************************************************************)
EXTENDS Lists, SequencesExt

CONSTANT Texts      \* contents of string fields: sequences over TextTokens

Space == " "
Comma == ","
Equals == "="
Quote == "QUOTE"
Backslash == "BACKSLASH"
TextTokens == {"word", Space, Comma, Equals, Quote, Backslash}

ASSUME LinesAssumption == Texts \subseteq Seq(TextTokens)

VARIABLES
  written,      \* what the client means: a tag or none, a text, ...
  parsed        \* what parse returns

lineVars == <<written, parsed>>

NumberTokens == {"1i", "2u", "1.5", "true"}
Stamp == "9"
DefaultTime == "0"

-----------------------------------------------------------------------------
(* The line that a client writes. *)

Escape(text) ==
  Joined([i \in DOMAIN text |->
    IF text[i] \in {Quote, Backslash} THEN <<Backslash, text[i]>> ELSE <<text[i]>>])

SeriesOf(w) == IF w.tag THEN <<"m", Comma, "host", Equals, "a">> ELSE <<"m">>
FieldsOf(w) ==
  <<"f", Equals, Quote>> \o Escape(w.text) \o <<Quote>>
    \o (IF w.number # "none" THEN <<Comma, "g", Equals, w.number>> ELSE <<>>)
TimeOf(w) == IF w.timed THEN <<Space, Stamp>> ELSE <<>>

LineOf(w) == SeriesOf(w) \o <<Space>> \o (FieldsOf(w) \o TimeOf(w))

Meaning(w) ==
  [measurement |-> <<"m">>,
   tags |-> IF w.tag THEN {[key |-> <<"host">>, value |-> <<"a">>]} ELSE {},
   fields |-> {[key |-> <<"f">>, value |-> [string |-> w.text]]}
                \cup {[key |-> <<"g">>, value |-> [number |-> n]] : n \in {w.number} \ {"none"}},
   time |-> IF w.timed THEN Stamp ELSE DefaultTime]

-----------------------------------------------------------------------------
(* Cutting. *)

PlacesOf(s, token) == {i \in DOMAIN s : s[i] = token}
FirstAt(s, token) == IF PlacesOf(s, token) = {} THEN 0 ELSE Least(PlacesOf(s, token))
LastAt(s, token) == IF PlacesOf(s, token) = {} THEN 0 ELSE Greatest(PlacesOf(s, token))
Until(s, i) == SubSeq(s, 1, i - 1)
Behind(s, i) == SubSeq(s, i + 1, Len(s))

Trimmed(s) ==
  LET solid == {i \in DOMAIN s : s[i] # Space}
  IN  IF solid = {} THEN <<>> ELSE SubSeq(s, Least(solid), Greatest(solid))

\* split(','), each piece trimmed, the empty ones left out.
Pieces(s) ==
  LET cuts == Increasing({0, Len(s) + 1} \cup PlacesOf(s, Comma))
      parts == [k \in 1..(Len(cuts) - 1) |-> Trimmed(SubSeq(s, cuts[k] + 1, cuts[k + 1] - 1))]
  IN  Kept(parts, {k \in DOMAIN parts : parts[k] # <<>>})

-----------------------------------------------------------------------------
(* Values. *)

Ok(value) == [is |-> "ok", value |-> value]
Err == [is |-> "err"]
Panic == [is |-> "panic"]

\* unescape_string, after each character: an unknown escape and a backslash at
\* the end stay.
Unescaped(state, char) ==
  IF state.escape
  THEN [escape |-> FALSE,
        text |-> state.text \o (IF char \in {Backslash, Quote, Space} THEN <<char>> ELSE <<Backslash, char>>)]
  ELSE IF char = Backslash THEN [escape |-> TRUE, text |-> state.text]
  ELSE [escape |-> FALSE, text |-> Append(state.text, char)]

Unescape(s) ==
  LET after[i \in 0..Len(s)] ==
        IF i = 0 THEN [escape |-> FALSE, text |-> <<>>] ELSE Unescaped(after[i - 1], s[i])
      end == after[Len(s)]
  IN  IF end.escape THEN Append(end.text, Backslash) ELSE end.text

\* A quote alone both starts and ends the value: the slice between panics.
ParseFieldValue(s) ==
  IF Len(s) = 1 /\ s[1] \in NumberTokens THEN Ok([number |-> s[1]])
  ELSE IF s[1] # Quote \/ s[Len(s)] # Quote THEN Err
  ELSE IF Len(s) = 1 THEN Panic
  ELSE Ok([string |-> Unescape(SubSeq(s, 2, Len(s) - 1))])

\* key=value, neither of them empty; only the values of fields have types.
ParsePair(piece, typed) ==
  LET at == FirstAt(piece, Equals)
  IN  IF at \in {0, 1, Len(piece)} THEN Err
      ELSE LET value == IF typed THEN ParseFieldValue(Behind(piece, at)) ELSE Ok(Behind(piece, at))
           IN  IF value.is = "ok" THEN Ok([key |-> Until(piece, at), value |-> value.value]) ELSE value

\* The pairs in turn: the first that is not good decides.
WithPair(result, pair) ==
  IF result.is # "ok" THEN result
  ELSE IF pair.is # "ok" THEN pair
  ELSE Ok({p \in result.value : p.key # pair.value.key} \cup {pair.value})

ParsePairs(s, typed) ==
  LET pieces == Pieces(s)
      upTo[k \in 0..Len(pieces)] ==
        IF k = 0 THEN Ok({}) ELSE WithPair(upTo[k - 1], ParsePair(pieces[k], typed))
  IN  upTo[Len(pieces)]

ParseTags(s) == ParsePairs(s, FALSE)
ParseFields(s) ==
  LET fields == ParsePairs(s, TRUE) IN IF fields = Ok({}) THEN Err ELSE fields

ParseTimestamp(s) ==
  IF s = <<>> THEN Ok(DefaultTime) ELSE IF s = <<Stamp>> THEN Ok(Stamp) ELSE Err

-----------------------------------------------------------------------------
\* Mutant: the timestamp starts at the first space behind the fields.
SplitTimeFirst(s) ==
  LET at == FirstAt(s, Space)
  IN  IF at = 0 THEN [fields |-> s, time |-> <<>>]
      ELSE [fields |-> Until(s, at), time |-> Behind(s, at)]

SplitTime(s) ==
  LET at == LastAt(s, Space)
  IN  IF at = 0 THEN [fields |-> s, time |-> <<>>]
      ELSE [fields |-> Until(s, at), time |-> Behind(s, at)]

ParseLine(line) ==
  LET space == FirstAt(line, Space)
      head == Until(line, space)
      comma == FirstAt(head, Comma)
      measurement == IF comma = 0 THEN head ELSE Until(head, comma)
      tail == SplitTime(Behind(line, space))
      tags == ParseTags(IF comma = 0 THEN <<>> ELSE Behind(head, comma))
      fields == ParseFields(tail.fields)
      time == ParseTimestamp(tail.time)
  IN  IF space = 0 \/ measurement = <<>> THEN Err
      ELSE IF tags.is # "ok" THEN tags
      ELSE IF fields.is # "ok" THEN fields
      ELSE IF time.is # "ok" THEN time
      ELSE Ok([measurement |-> measurement, tags |-> tags.value,
               fields |-> fields.value, time |-> time.value])

LinesInit ==
  /\ written \in [tag : BOOLEAN, text : Texts, number : NumberTokens \cup {"none"}, timed : BOOLEAN]
  /\ parsed = [is |-> "unparsed"]

ParseWritten ==
  /\ parsed = [is |-> "unparsed"]
  /\ parsed' = ParseLine(LineOf(written))
  /\ UNCHANGED written

LinesNext == ParseWritten
LinesSpec == LinesInit /\ [][LinesNext]_lineVars

-----------------------------------------------------------------------------
(* Properties. *)

Occurs(token) == token \in ToSet(written.text)

\* The parser never takes a line for another one: with quotes, backslashes,
\* commas, spaces and equals signs anywhere in a string, a line without tags
\* that need escapes is parsed as it was meant, refused, or brings the parser
\* down; and it is parsed unless its string has a comma, or a space where the
\* line has no timestamp.
LineNotMistaken ==
  parsed.is # "unparsed" =>
    /\ parsed \in {Ok(Meaning(written)), Err, Panic}
    /\ ~Occurs(Comma) /\ (written.timed \/ ~Occurs(Space)) => parsed.is = "ok"

\* A line as the format defines it, with a string in quotes, is parsed.
LineProtocolParsed == parsed.is # "unparsed" => parsed = Ok(Meaning(written))
=============================================================================
