------------------------------ MODULE SseParser ------------------------------
(***************************************************************************)
(* The framing of the event stream: the bytes the server writes for an     *)
(* event, and what the browser makes of them however the network cuts      *)
(* them into reads.  A byte (and a decoded character) is abstracted to the *)
(* part of the record it belongs to; the text of a delta holds one         *)
(* character of two bytes, which a cut may separate.                       *)
(***************************************************************************)
EXTENDS Integers, Sequences, SequencesExt

Symbol(e, part) == [of |-> e, part |-> part]
NewLine == [of |-> [type |-> "none"], part |-> "newline"]

\* "event: <type>\ndata: <json>\n\n".  "open" is all before the text of the
\* delta, the event line and "data: " with it, and "close" all after it.
FormatSse(e) ==
    IF e.type = "text_delta"
      THEN <<Symbol(e, "open"), Symbol(e, "lead"), Symbol(e, "trail"),
             Symbol(e, "close"), NewLine, NewLine>>
      ELSE <<Symbol(e, "open"), Symbol(e, "close"), NewLine, NewLine>>

\* Between two reads: the decoder's `pending` holds the first byte of a
\* character whose second has not come, `buffer` what is not yet a record.
Idle == [pending |-> <<>>, buffer |-> <<>>]

\* A read under way: the events it has yielded, and whether one of its records
\* was no JSON, the exception that ends the loop.
Begin(parser) ==
    [pending |-> parser.pending, buffer |-> parser.buffer, events |-> <<>>, failed |-> FALSE]

Replaced(pending) == [i \in 1..Len(pending) |-> Symbol(pending[i].of, "replaced")]

\* buffer += decoder.decode(value, { stream: true }), of one byte: one that does
\* not fit what is pending becomes a replacement character.
Decode(r, byte) ==
    CASE byte.part = "lead" ->
           [r EXCEPT !.pending = <<byte>>, !.buffer = @ \o Replaced(r.pending)]
      [] byte.part = "trail" ->
           [r EXCEPT !.pending = <<>>,
                     !.buffer = Append(@, Symbol(byte.of, IF r.pending = <<>> THEN "replaced"
                                                                              ELSE "char"))]
      [] OTHER ->
           [r EXCEPT !.pending = <<>>, !.buffer = Append(@ \o Replaced(r.pending), byte)]

\* parseRecord: the data of a record, <<>> when it has none.  Its one data line
\* has no line end inside, and none behind it but at the end of the body.
Data(raw) == IF raw # <<>> /\ Last(raw) = NewLine THEN Front(raw) ELSE raw

\* JSON.parse: the event, the event with a character lost, or an exception.
Whole(e) ==
    IF e.type = "text_delta" THEN <<Symbol(e, "open"), Symbol(e, "char"), Symbol(e, "close")>>
                             ELSE <<Symbol(e, "open"), Symbol(e, "close")>>
Malformed == [type |-> "exception"]
Corrupted == [type |-> "text_delta", n |-> <<>>]
JsonParse(data) ==
    LET e == data[1].of
    IN  IF data = Whole(e) THEN e
        ELSE IF data[1].part = "open" /\ Last(data).part = "close" THEN Corrupted
        ELSE Malformed

\* A record yields its event, or throws; what stands behind it is lost then.
Yields(r, raw) ==
    IF r.failed \/ Data(raw) = <<>> THEN r
    ELSE IF JsonParse(Data(raw)) = Malformed THEN [r EXCEPT !.failed = TRUE]
    ELSE [r EXCEPT !.events = Append(@, JsonParse(Data(raw)))]

\* A blank line completes the record before it.
Drain(r) ==
    LET n == Len(r.buffer)
    IN  IF n > 1 /\ r.buffer[n] = NewLine /\ r.buffer[n - 1] = NewLine
          THEN Yields([r EXCEPT !.buffer = <<>>], SubSeq(r.buffer, 1, n - 2))
          ELSE r

\* The bytes of a read, one after the other: a record is taken from the buffer as
\* soon as its blank line is there, so a read yields the records it would if the
\* buffer were searched once at its end.  (Each definition named X_Something is
\* X with a plausible bug: the properties are tried against it.)
Fed(parser, bytes) ==
    LET after[k \in 0..Len(bytes)] ==
            IF k = 0 THEN Begin(parser) ELSE Drain(Decode(after[k - 1], bytes[k]))
    IN  after[Len(bytes)]

Feed_DropsRest(parser, bytes) == Fed([parser EXCEPT !.buffer = <<>>], bytes)
Feed_WholeReads(parser, bytes) ==
    LET r == Fed(parser, bytes)
    IN  [r EXCEPT !.pending = <<>>, !.buffer = @ \o Replaced(r.pending)]
Feed(parser, bytes) == Fed(parser, bytes)

\* The end of the body: what the decoder and the buffer still hold is a record.
Flush(parser) ==
    Yields(Begin(Idle), parser.buffer \o Replaced(parser.pending))
=============================================================================
