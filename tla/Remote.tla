------------------------------- MODULE Remote -------------------------------
(***************************************************************************)
(* The wire format of Prometheus remote write and read: frames of a tag, a *)
(* length and that many bytes, decoded by loops over an offset that stop   *)
(* at what they do not know.  A body is a sequence of bytes and may end    *)
(* anywhere, since the server reads no more than one packet.  One body is  *)
(* decoded in one step.  Lengths are small: none wraps around.             *)
(***************************************************************************)
EXTENDS Lists

CONSTANTS
  SeriesLists,    \* requests to write: sequences of series
  QueryLists      \* requests to read: sequences of queries

VARIABLES
  sent,       \* what the client encodes: the kind of its request and the list
  cut,        \* how many bytes of it arrive
  decoded     \* what the server makes of them

remoteVars == <<sent, cut, decoded>>

Byte == 0..255
\* The bytes of a string.  A client sends UTF-8, which from_utf8_lossy leaves alone.
Text == Seq(Byte)
Octets == [1..8 -> Byte]

\* Labels are pairs of names and values, samples pairs of a value and a time.
\* A query has a start, an end and the names it asks for.
TimeSeries == [labels : Seq(Text \X Text), samples : Seq(Octets \X Octets)]
RemoteQuery == [start : Octets, end : Octets, names : Seq(Text)]

-----------------------------------------------------------------------------
(* Encoding.  A message is a list of parts, each a field, a wire type and   *)
(* bytes: with their length in front of them, or eight of them.             *)

Sized(field, bytes) == [field |-> field, wire |-> 2, bytes |-> bytes]
Eight(field, bytes) == [field |-> field, wire |-> 1, bytes |-> bytes]

\* What is left of a number after each group of seven bits.
Shifted(n) ==
  LET left[i \in 0..9] == IF i = 0 THEN n ELSE left[i - 1] \div 128 IN left

\* Ten groups hold any number of 64 bits.
Groups(n) == Least({k \in 1..10 : k = 10 \/ Shifted(n)[k - 1] < 128})
EncodeVarint(n) ==
  [i \in 1..Groups(n) |->
     IF i < Groups(n) THEN 128 + (Shifted(n)[i - 1] % 128) ELSE Shifted(n)[i - 1]]

Framed(part) ==
  <<8 * part.field + part.wire>>
    \o ((IF part.wire = 2 THEN EncodeVarint(Len(part.bytes)) ELSE <<>>) \o part.bytes)
Message(parts) == Joined([i \in DOMAIN parts |-> Framed(parts[i])])

EncodeLabel(label) == Message(<<Sized(1, label[1]), Sized(2, label[2])>>)
EncodeSample(sample) == Message(<<Eight(1, sample[1]), Eight(2, sample[2])>>)
SeriesParts(series) ==
  [j \in DOMAIN series.labels |-> Sized(1, EncodeLabel(series.labels[j]))]
    \o [j \in DOMAIN series.samples |-> Sized(2, EncodeSample(series.samples[j]))]
EncodeTimeseries(series) == Message(SeriesParts(series))

\* What a client does: the repository has no encoder for its requests.
EncodeMatcher(name) == Message(<<Sized(1, name)>>)
QueryParts(query) ==
  <<Eight(1, query.start), Eight(2, query.end)>>
    \o [j \in DOMAIN query.names |-> Sized(3, EncodeMatcher(query.names[j]))]
EncodeQuery(query) == Message(QueryParts(query))

WriteParts(list) == [i \in DOMAIN list |-> Sized(1, EncodeTimeseries(list[i]))]
ReadParts(list) == [i \in DOMAIN list |-> Sized(1, EncodeQuery(list[i]))]

\* Numbers of 49 bits, which no length of a body exceeds: seven bytes hold one.
IsShort(n) == Shifted(n)[6] < 128

ASSUME RemoteAssumption ==
  /\ SeriesLists \subseteq Seq(TimeSeries) /\ QueryLists \subseteq Seq(RemoteQuery)
  /\ \A list \in SeriesLists : IsShort(Len(Message(WriteParts(list))))
  /\ \A list \in QueryLists : IsShort(Len(Message(ReadParts(list))))

-----------------------------------------------------------------------------
(* Decoding. *)

BytesOfVarint(data, offset) ==
  LET ends == {k \in 1..10 : offset + k <= Len(data) /\ data[offset + k] < 128}
  IN  IF ends = {} THEN 0 ELSE Least(ends)

\* Mutant: every byte of a length is shifted as if it were the first.
VarintUnshifted(data, offset) ==
  LET n == BytesOfVarint(data, offset)
      total[j \in 0..n] == IF j = 0 THEN 0 ELSE total[j - 1] + (data[offset + n + 1 - j] % 128)
  IN  [ok |-> n > 0, next |-> offset + n, value |-> total[n]]

\* From the last byte to the first.
Varint(data, offset) ==
  LET n == BytesOfVarint(data, offset)
      total[j \in 0..n] == IF j = 0 THEN 0 ELSE total[j - 1] * 128 + (data[offset + n + 1 - j] % 128)
  IN  [ok |-> n > 0, next |-> offset + n, value |-> total[n]]

\* One round of the loop of every decoder: it knows some fields with a length
\* and some of eight bytes, and stops at any other.  A part that ends behind the
\* data, and a known field of another wire type, end the loop too if "ends" says
\* so, and otherwise the loop goes on with the next byte.  "least" bytes must be
\* left.  A decoder that is done stays at the end.
Scanned(data, lengths, eights, least, ends, state) ==
  IF state.at + least > Len(data) THEN [at |-> Len(data), ok |-> state.ok, parts |-> state.parts]
  ELSE LET at == state.at
           field == data[at + 1] \div 8
           wire == data[at + 1] % 8
           length == Varint(data, at + 1)
           after == length.next + length.value
           taken(part, n) == [at |-> n, ok |-> state.ok, parts |-> Append(state.parts, part)]
           skipped(n) == [at |-> n, ok |-> state.ok, parts |-> state.parts]
       IN  IF field \in eights /\ wire = 1 /\ at + 9 <= Len(data)
           THEN taken(Eight(field, SubSeq(data, at + 2, at + 9)), at + 9)
           ELSE IF field \in lengths /\ wire = 2
           THEN IF ~length.ok THEN [at |-> Len(data), ok |-> FALSE, parts |-> <<>>]
                ELSE IF after <= Len(data)
                THEN taken(Sized(field, SubSeq(data, length.next + 1, after)), after)
                ELSE skipped(IF "long" \in ends THEN Len(data) ELSE length.next)
           ELSE IF field \in lengths \cup eights
           THEN skipped(IF "wire" \in ends THEN Len(data) ELSE at + 1)
           ELSE skipped(Len(data))

\* The loop is over when the data are used up.
Scan(data, lengths, eights, least, ends) ==
  LET after[r \in 0..Len(data)] ==
        IF r = 0 THEN [at |-> 0, ok |-> TRUE, parts |-> <<>>]
        ELSE Scanned(data, lengths, eights, least, ends, after[r - 1])
  IN  after[CHOOSE r \in 0..Len(data) : after[r].at = Len(data)]

OfField(parts, field) == Kept(parts, {i \in DOMAIN parts : parts[i].field = field})
\* The last value of a field counts, and there is one if the field is missing.
LastOf(parts, field, default) ==
  LET found == OfField(parts, field) IN IF found = <<>> THEN default ELSE found[Len(found)].bytes

\* Parts that cannot be decoded are left out of the whole.
Succeeded(results) ==
  LET good == Kept(results, {i \in DOMAIN results : results[i].ok}) IN [i \in DOMAIN good |-> good[i].value]
DecodedParts(parts, field, Decode(_)) ==
  LET found == OfField(parts, field) IN Succeeded([i \in DOMAIN found |-> Decode(found[i].bytes)])

Zero == [i \in 1..8 |-> 0]

DecodeLabel(data) ==
  LET scan == Scan(data, {1, 2}, {}, 1, {})
  IN  [ok |-> scan.ok, value |-> <<LastOf(scan.parts, 1, <<>>), LastOf(scan.parts, 2, <<>>)>>]

DecodeSample(data) ==
  LET scan == Scan(data, {}, {1, 2}, 1, {})
  IN  [ok |-> scan.ok, value |-> <<LastOf(scan.parts, 1, Zero), LastOf(scan.parts, 2, Zero)>>]

DecodeTimeseries(data) ==
  LET scan == Scan(data, {1, 2}, {}, 1, {"long"})
  IN  [ok |-> scan.ok, value |-> [labels |-> DecodedParts(scan.parts, 1, DecodeLabel),
                                  samples |-> DecodedParts(scan.parts, 2, DecodeSample)]]

DecodeWriteRequest(data) ==
  LET scan == Scan(data, {1}, {}, 8, {"long", "wire"})
  IN  [ok |-> scan.ok, value |-> DecodedParts(scan.parts, 1, DecodeTimeseries)]

DecodeMatcher(data) ==
  LET scan == Scan(data, {1}, {}, 1, {})
  IN  [ok |-> scan.ok, value |-> LastOf(scan.parts, 1, <<>>)]

DecodeQuery(data) ==
  LET scan == Scan(data, {3}, {1, 2}, 1, {})
  IN  [ok |-> scan.ok, value |-> [start |-> LastOf(scan.parts, 1, Zero), end |-> LastOf(scan.parts, 2, Zero),
                                  names |-> DecodedParts(scan.parts, 3, DecodeMatcher)]]

\* Of several queries in one request the last one that can be decoded counts.
DecodeReadRequest(data) ==
  LET scan == Scan(data, {1}, {}, 1, {})
      queries == DecodedParts(scan.parts, 1, DecodeQuery)
  IN  [ok |-> scan.ok,
       value |-> IF queries = <<>> THEN [start |-> Zero, end |-> Zero, names |-> <<>>]
                 ELSE queries[Len(queries)]]

-----------------------------------------------------------------------------
Body == Message(IF sent.kind = "write" THEN WriteParts(sent.list) ELSE ReadParts(sent.list))

RemoteInit ==
  /\ sent \in [kind : {"write"}, list : SeriesLists] \cup [kind : {"read"}, list : QueryLists]
  /\ cut \in 0..Len(Body)
  /\ decoded = [ok |-> FALSE]

Decode ==
  /\ decoded = [ok |-> FALSE]
  /\ LET data == SubSeq(Body, 1, cut)
     IN  decoded' = IF sent.kind = "write" THEN DecodeWriteRequest(data) ELSE DecodeReadRequest(data)
  /\ UNCHANGED <<sent, cut>>

RemoteNext == Decode
RemoteSpec == RemoteInit /\ [][RemoteNext]_remoteVars

-----------------------------------------------------------------------------
(* Properties. *)

EndOf(n) == Len(Message(WriteParts(SubSeq(sent.list, 1, n))))
Arrives(n) == EndOf(n) <= cut /\ EndOf(n - 1) + 8 <= cut

\* Wherever the body ends, a remote write is decoded to the series that arrived
\* complete, with all their labels and samples and in their order, and to
\* nothing else; but a series whose frame starts in the last seven bytes is
\* left out.  A complete request to read is decoded to its last query.
RemoteDecoded ==
  decoded # [ok |-> FALSE] =>
    /\ sent.kind = "write" =>
         \E n \in 0..Len(sent.list) :
           /\ decoded = [ok |-> TRUE, value |-> SubSeq(sent.list, 1, n)]
           /\ \A i \in DOMAIN sent.list : i <= n <=> Arrives(i)
    /\ (sent.kind = "read" /\ cut = Len(Body) /\ sent.list # <<>>) =>
         decoded = [ok |-> TRUE, value |-> sent.list[Len(sent.list)]]
=============================================================================
