----------------------------- MODULE EventStream ------------------------------
(* The decoder of a streamed answer: bytes arrive in chunks cut anywhere, the *)
(* decoder makes code points of them, then lines, then events.  A byte is a   *)
(* line end (LF, CR), half of a two-byte code point (x1, x2), or stands for a *)
(* whole data line: a content delta (y; x is one too, once its halves met) or *)
(* a finish reason or the end mark (end).  Two of them in one line, or two    *)
(* such lines in one event, are malformed JSON.  Lines the decoder passes     *)
(* over, comments and other fields, leave no trace in its state and are left  *)
(* out, and so are events without content.                                    *)
(* Definitions named M_... are deliberate mistakes: each stands for a bug the *)
(* code could have in the definition after it, and no behaviour uses them.    *)
EXTENDS Naturals, Sequences

Byte == {"LF", "CR", "x1", "x2", "y", "end"}

Char == (Byte \ {"x1", "x2"}) \cup {"x"}

Content == {"x", "y"}

Event == Content \cup {"end"}

(* half: the UTF-8 decoder holds the first byte of a code point; text: what   *)
(* no line end was found for; lines: the data lines of the event so far;      *)
(* events: decoded by this call; failed: a ProtocolError leaves it.           *)
Decoder ==
    [half : BOOLEAN, text : Seq(Char), lines : Seq(Seq(Char)),
     complete : BOOLEAN, events : Seq(Event), failed : BOOLEAN]

NewDecoder ==
    [half |-> FALSE, text |-> <<>>, lines |-> <<>>,
     complete |-> FALSE, events |-> <<>>, failed |-> FALSE]

(* The elements of a sequence that are in a set, in order.  (SelectSeq would  *)
(* do, but the provers know nothing of it.)                                   *)
Only(s, S) ==
    LET upto[n \in 0 .. Len(s)] ==
            IF n = 0 THEN <<>>
            ELSE IF s[n] \in S THEN Append(upto[n - 1], s[n]) ELSE upto[n - 1]
    IN  upto[Len(s)]

-----------------------------------------------------------------------------
(* Characters *)

Whole(b) == IF b = "x2" THEN "x" ELSE b

(* The code points these bytes complete. *)
Chars(bytes) ==
    LET closed == Only(bytes, Byte \ {"x1"})
    IN  [i \in DOMAIN closed |-> Whole(closed[i])]

(* Strict UTF-8: a second half follows a first half and nothing else does.    *)
WellFormed(bytes) ==
    \A i \in DOMAIN bytes :
        /\ bytes[i] = "x2" => i > 1 /\ bytes[i - 1] = "x1"
        /\ i > 1 /\ bytes[i - 1] = "x1" => bytes[i] = "x2"

-----------------------------------------------------------------------------
(* Lines and events *)

(* An empty line ends the event made of the data lines before it. *)
Dispatch(d) ==
    IF d.lines = <<>> THEN d
    ELSE IF Len(d.lines) > 1 \/ d.lines[1] \notin {<<e>> : e \in Event}
         THEN [d EXCEPT !.lines = <<>>, !.failed = TRUE]
    ELSE [d EXCEPT !.lines = <<>>,
                   !.events = Append(@, d.lines[1][1]),
                   !.complete = @ \/ d.lines[1][1] = "end"]

ProcessLine(d, line) ==
    IF line = <<>> THEN Dispatch(d)
    ELSE [d EXCEPT !.lines = Append(@, line)]

(* The position of the first line end of a text, 0 if it has none. *)
LineEnd(text) ==
    LET ends == {i \in DOMAIN text : text[i] \in {"LF", "CR"}}
    IN  IF ends = {} THEN 0
        ELSE CHOOSE i \in ends : \A j \in ends : i <= j

After(text, i) == SubSeq(text, i + 1, Len(text))

(* How many characters the line end at i has. *)
Width(text, i) ==
    IF text[i] = "CR" /\ i < Len(text) /\ text[i + 1] = "LF" THEN 2 ELSE 1

M_SplitsAtOnce(text, i, final) == FALSE

(* A CR that ends the text may be the first half of a CR LF: it waits for the *)
(* next chunk.                                                                *)
Waits(text, i, final) == text[i] = "CR" /\ i = Len(text) /\ ~final

(* _drain_lines: line after line until none is left or one is malformed. *)
Drain(decoder, final) ==
    LET drain[d \in Decoder] ==
            LET i == LineEnd(d.text)
            IN  IF d.failed \/ d.text = <<>> THEN d
                ELSE IF i = 0
                     THEN IF final THEN ProcessLine([d EXCEPT !.text = <<>>], d.text) ELSE d
                ELSE IF Waits(d.text, i, final) THEN d
                ELSE drain[ProcessLine(
                               [d EXCEPT !.text = After(d.text, i + Width(d.text, i) - 1)],
                               SubSeq(d.text, 1, i - 1))]
    IN  drain[decoder]

(* One chunk.  The events of a chunk with a malformed one are lost with it:   *)
(* the exception leaves feed before it returns them.                          *)
Feed(d, chunk) ==
    LET bytes == IF d.half THEN <<"x1">> \o chunk ELSE chunk
        read  == [d EXCEPT !.half = bytes[Len(bytes)] = "x1",
                           !.text = @ \o Chars(bytes),
                           !.events = <<>>]
    IN  IF WellFormed(bytes) THEN Drain(read, FALSE)
        ELSE [read EXCEPT !.failed = TRUE]

(* The end of the stream completes the last line and the last event. *)
AtEnd(d) ==
    IF d.half THEN [d EXCEPT !.failed = TRUE]
    ELSE LET drained == Drain([d EXCEPT !.events = <<>>], TRUE)
         IN  IF drained.failed THEN drained ELSE Dispatch(drained)

-----------------------------------------------------------------------------
(* What a body says, without regard to chunks *)

(* The character at i ends an empty line. *)
EndsEvent(text, i) ==
    \/ i = 1 /\ text[i] \in {"LF", "CR"}
    \/ i > 1 /\ text[i - 1] = "LF" /\ text[i] \in {"LF", "CR"}
    \/ i > 1 /\ text[i - 1] = "CR" /\ text[i] = "CR"

(* The content of the events that end at or before position n. *)
ContentUpto(text, n) ==
    LET ends == {i \in 1 .. n : EndsEvent(text, i)}
    IN  IF ends = {} THEN <<>>
        ELSE LET last == CHOOSE i \in ends : \A j \in ends : j <= i
             IN  Only(SubSeq(text, 1, last), Content)

(* What the bytes received so far say: a trailing CR says nothing yet. *)
SaidSoFar(body) ==
    LET text == Chars(body)
        n    == Len(text)
    IN  ContentUpto(text, IF n > 0 /\ text[n] = "CR" THEN n - 1 ELSE n)

(* What a body that has ended says. *)
SaidInAll(body) == Only(Chars(body), Content)

=============================================================================
