------------------------------ MODULE Framing ------------------------------
(***************************************************************************)
(* How messages and lines are taken from streams that may be cut anywhere:   *)
(*   "engine", "raw", "target"  codec.js FrameDecoder, under EngineConnection,*)
(*             connector-lws.js's raw clients and its adopted engines;       *)
(*   "page"    examples/browser/ide.js decodeFrames();                       *)
(*   "dap"     qjs-debugger.js DAPFrameDecoder on stdin;                     *)
(*   "text"    connector-lws.js handleText(), JSON over web-socket text;     *)
(*   "lines"   qjs-debugger.js LineReader, the lines of a batch;             *)
(*   "output"  debugger.js forwardOutput(), drainOutput() into ConsolePane.  *)
(*                                                                          *)
(* Bytes and characters have their codes.  One character, Wide, takes two    *)
(* bytes; JSON is a text in braces; an escape sequence is ESC and its final   *)
(* letter; the name "Content-Length: " is the letter Name.                   *)
(***************************************************************************)
EXTENDS Integers, SequencesExt

CONSTANTS
  Readers,        \* the readers looked at
  Streams,        \* what may be sent: sequences of texts
  HeaderDigits,   \* 8 in the code
  MaxPartial,     \* 1 << 22 in handleText()
  MaxShown,       \* MAX_LINES in the console pane
  MaxConnections, \* bound on connections, one after the other
  MaxReads        \* bound on lines asked for

Framed == {"engine", "raw", "target"}
ASSUME ReadersAssumption == Readers \subseteq Framed \cup {"page", "dap", "text", "lines", "output"}
ASSUME SizesAssumption == {HeaderDigits, MaxPartial, MaxShown, MaxConnections, MaxReads} \subseteq Nat \ {0}

NL == 10   CR == 13   ESC == 27   Final == 109   Name == 67
Left == 123   Right == 125
Wide == 233   Lead == 195   Trail == 169

\* What a peer sends that does not speak the protocol.
Noise == <<122, 122>>

VARIABLES
  reader, stream,         \* who reads, and the texts that are sent
  arrived,                \* the number of bytes that came
  decoder,                \* the reader's state
  ended,                  \* the peer closed, or went
  connections,            \* how many there were
  waiters, given, nulls   \* LineReader: calls that wait, lines and nulls they got

vars == <<reader, stream, arrived, decoder, ended, connections, waiters, given, nulls>>

-----------------------------------------------------------------------------
(* Texts and bytes                                                          *)

Drop(s, n) == SubSeq(s, n + 1, Len(s))
Keep(s, n) == SubSeq(s, 1, n)

Encode(text) == FlattenSeq([i \in DOMAIN text |-> IF text[i] = Wide THEN <<Lead, Trail>> ELSE <<text[i]>>])

\* Two neighbours become one: a byte that lost its neighbour stays what it is.
Pairs(first, second, Joined(_), text) ==
  FoldLeft(LAMBDA t, c : IF c = second /\ t # <<>> /\ Last(t) = first THEN Joined(Front(t)) ELSE Append(t, c),
           <<>>, text)
Decode(bytes) == Pairs(Lead, Trail, LAMBDA t : Append(t, Wide), bytes)
Strip(text) == Pairs(ESC, Final, LAMBDA t : t, text)

\* JSON.parse(): no beginning of a JSON object is JSON, nor are two of them.
Parses(text) ==
  /\ Len(text) >= 2 /\ text[1] = Left /\ Last(text) = Right
  /\ \A i \in 2 .. Len(text) - 1 : text[i] \notin {Left, Right}

HexDigit(d) == IF d < 10 THEN 48 + d ELSE 87 + d
ByteLength(text) == Len(Encode(text))

frameMessage(text) ==
  [i \in 1 .. HeaderDigits |-> HexDigit(((ByteLength(text) + 1) \div 16 ^ (HeaderDigits - i)) % 16)]
    \o <<NL>> \o Encode(text) \o <<NL>>

Decimal(n) == IF n < 10 THEN <<48 + n>> ELSE <<48 + n \div 10, 48 + (n % 10)>>
EndOfHeader == <<CR, NL, CR, NL>>
DAPMessage(text) == <<Name>> \o Decimal(ByteLength(text)) \o EndOfHeader \o Encode(text)

\* What is sent for a text.
Wire(text) ==
  IF text = Noise /\ reader \in Framed \cup {"dap"} THEN Noise \o Noise \o EndOfHeader
  ELSE CASE reader \in Framed \cup {"page"} -> frameMessage(text)
         [] reader = "dap" -> DAPMessage(text)
         [] reader = "text" -> text
         [] reader \in {"lines", "output"} -> Encode(text) \o <<NL>>

Bytes == FlattenSeq([i \in DOMAIN stream |-> Wire(stream[i])])
EndOf(k) == Len(FlattenSeq([i \in 1 .. k |-> Wire(stream[i])]))

-----------------------------------------------------------------------------
(* Decoders: the bytes at hand, the length wanted (-1: a header), what was   *)
(* delivered, how often an error was told, whether the last push() threw.    *)

Fresh == [buf |-> <<>>, need |-> -1, out |-> <<>>, told |-> 0, threw |-> FALSE]

\* A text that is no JSON is told of, or dropped ("target", "page", "dap").
OnFrame(d, text) ==
  IF Parses(text) THEN [d EXCEPT !.out = Append(@, text)]
  ELSE IF reader \in {"engine", "raw"} THEN [d EXCEPT !.told = @ + 1] ELSE d

\* Wrong: the digits from a to f are forgotten.
NoLetters(c) == c - 48
\* Decoded by ranges: the bytes from ':' to '?' are digits, too.
Digit(c) == IF c >= 97 THEN c - 87 ELSE IF c >= 65 THEN c - 55 ELSE c - 48
Value(base, digits) == FoldLeft(LAMBDA n, c : base * n + Digit(c), 0, digits)

\* JSON.parse() would bear the newline; it is trimmed.
Trimmed(text) == IF text # <<>> /\ Last(text) = NL THEN Front(text) ELSE text

RECURSIVE FrameDecoder(_)
FrameDecoder(d) ==
  CASE d.need < 0 /\ Len(d.buf) <= HeaderDigits -> d
    [] d.need < 0 /\ Len(d.buf) > HeaderDigits ->
         LET header == Keep(d.buf, HeaderDigits) IN
           IF \E c \in ToSet(header) : Digit(c) \notin 0 .. 15 THEN [d EXCEPT !.threw = TRUE]
           ELSE FrameDecoder([d EXCEPT !.buf = Drop(@, HeaderDigits + 1), !.need = Value(16, header)])
    [] d.need >= 0 /\ Len(d.buf) < d.need -> d
    [] d.need >= 0 /\ Len(d.buf) >= d.need ->
         FrameDecoder([OnFrame(d, Trimmed(Decode(Keep(d.buf, d.need))))
                         EXCEPT !.buf = Drop(@, d.need), !.need = -1])

RECURSIVE DecodeFrames(_)
DecodeFrames(d) ==
  LET total == HeaderDigits + 1 + Value(16, Keep(d.buf, HeaderDigits)) IN
  IF Len(d.buf) <= HeaderDigits \/ Len(d.buf) < total THEN d
  ELSE DecodeFrames([OnFrame(d, Decode(SubSeq(d.buf, HeaderDigits + 2, total - 1))) EXCEPT !.buf = Drop(@, total)])

Least(S) == CHOOSE n \in S : \A m \in S : n <= m
IsNumber(c) == c \in 48 .. 57

RECURSIVE DAPFrameDecoder(_)
DAPFrameDecoder(d) ==
  LET seps == {i \in 1 .. Len(d.buf) - 3 : SubSeq(d.buf, i, i + 3) = EndOfHeader} IN
  IF seps = {} THEN d
  ELSE LET sep == Least(seps)
           names == {i \in 1 .. sep - 2 : d.buf[i] = Name /\ IsNumber(d.buf[i + 1])} IN
       IF names = {} THEN [d EXCEPT !.threw = TRUE]
       ELSE LET first == Least(names) + 1
                after == Least({i \in first .. sep : ~IsNumber(d.buf[i])})
                end == sep + 3 + Value(10, SubSeq(d.buf, first, after - 1)) IN
            IF Len(d.buf) < end THEN d
            ELSE DAPFrameDecoder([OnFrame(d, Decode(SubSeq(d.buf, sep + 4, end))) EXCEPT !.buf = Drop(@, end)])

\* Text that does not parse is kept as the beginning of what does.
HandleText(d) ==
  IF Parses(d.buf) THEN [d EXCEPT !.out = Append(@, d.buf), !.buf = <<>>]
  ELSE IF Len(d.buf) > MaxPartial THEN [d EXCEPT !.buf = <<>>, !.told = @ + 1] ELSE d

\* A line is decoded when it is whole, and loses one carriage return.
OneLine(bytes) ==
  LET text == Decode(bytes) IN IF text # <<>> /\ Last(text) = CR THEN Front(text) ELSE text

\* Whole lines go, the rest stays.
CutLines(d, text) ==
  LET line(b) == IF reader = "lines" THEN OneLine(b) ELSE b IN
  FoldLeft(LAMBDA s, c : IF c = NL THEN [s EXCEPT !.out = Append(@, line(s.buf)), !.buf = <<>>]
                         ELSE [s EXCEPT !.buf = Append(@, c)], d, text)

\* Chunks are decoded and stripped one by one.
PushRaw(d, chunk) ==
  LET s == CutLines(d, Strip(Decode(chunk))) IN
    [s EXCEPT !.out = Drop(@, IF Len(@) > MaxShown THEN Len(@) - MaxShown ELSE 0)]

\* push(): what came is put behind what is left.
Push(chunk) ==
  LET d == [decoder EXCEPT !.buf = @ \o chunk] IN
  CASE reader \in Framed -> FrameDecoder(d)
    [] reader = "page" -> DecodeFrames(d)
    [] reader = "dap" -> DAPFrameDecoder(d)
    [] reader = "text" -> HandleText(d)
    [] reader = "lines" -> CutLines(decoder, chunk)
    [] reader = "output" -> PushRaw(decoder, chunk)

-----------------------------------------------------------------------------
(* The steps of a reader                                                    *)

Sendable(r, s) == r = "page" => \A i \in DOMAIN s : Parses(s[i])
\* What happens to a character that is cut in two is the decoder's matter
\* (external), where chunks are decoded one by one.
Uncut(r, s) == r = "output" => \A i \in DOMAIN s : Wide \notin ToSet(s[i])

Init ==
  /\ reader \in Readers /\ stream \in {s \in Streams : Sendable(reader, s) /\ Uncut(reader, s)}
  /\ arrived = 0 /\ decoder = Fresh /\ ended = FALSE /\ connections = 1
  /\ waiters = 0 /\ given = <<>> /\ nulls = 0

\* LineReader's settle(): lines first, then null at the end.
Settled(d, asked, atEnd) ==
  LET n == IF asked < Len(d.out) THEN asked ELSE Len(d.out)
      left == asked - n IN
    /\ given' = given \o Keep(d.out, n)
    /\ decoder' = [d EXCEPT !.out = Drop(@, n)]
    /\ nulls' = IF atEnd THEN nulls + left ELSE nulls
    /\ waiters' = IF atEnd THEN 0 ELSE left

Unread == UNCHANGED <<waiters, given, nulls>>

\* The next n bytes come in one chunk.  A web-socket message is handed over in
\* fragments of its own, cut between characters; the link of an engine is closed when push() threw.
Receive(n) ==
  /\ ~ended /\ n \in 1 .. Len(Bytes) - arrived
  /\ reader = "text" => \A k \in DOMAIN stream : EndOf(k) <= arrived \/ arrived + n <= EndOf(k)
  /\ arrived' = arrived + n
  /\ LET d == Push(SubSeq(Bytes, arrived + 1, arrived + n)) IN
       \/ reader = "lines" /\ Settled(d, waiters, FALSE)
       \/ reader # "lines" /\ decoder' = d /\ Unread
  /\ ended' = (reader = "engine" /\ decoder'.threw)
  /\ UNCHANGED <<reader, stream, connections>>

\* readLine().
ReadLine ==
  /\ reader = "lines" /\ Len(given) + nulls + waiters < MaxReads
  /\ Settled(decoder, waiters + 1, ended)
  /\ UNCHANGED <<reader, stream, arrived, ended, connections>>

LastLine(d) == IF d.buf = <<>> THEN d ELSE [d EXCEPT !.out = Append(@, OneLine(d.buf)), !.buf = <<>>]

\* Wrong: what the pipe still holds is left there.
NoDrain == decoder
Drain == Push(Drop(Bytes, arrived))

\* The stream ends, at any byte.  What a dead child's pipe holds is drained.
End ==
  /\ ~ended /\ ended' = TRUE
  /\ \/ reader = "lines" /\ Settled(LastLine(decoder), waiters, TRUE) /\ UNCHANGED arrived
     \/ reader = "output" /\ decoder' = Drain /\ arrived' = Len(Bytes) /\ Unread
     \/ reader \notin {"lines", "output"} /\ UNCHANGED <<arrived, decoder>> /\ Unread
  /\ UNCHANGED <<reader, stream, connections>>

\* A peer connects anew and is given a decoder of its own.
Reconnect ==
  /\ ended /\ reader \in Framed \cup {"text", "page"} /\ connections < MaxConnections
  /\ connections' = connections + 1 /\ ended' = FALSE
  /\ arrived' = 0 /\ decoder' = Fresh
  /\ stream' \in {s \in Streams : Sendable(reader, s)}
  /\ Unread /\ UNCHANGED reader

Next == (\E n \in 1 .. Len(Bytes) : Receive(n)) \/ ReadLine \/ End \/ Reconnect

Spec == Init /\ [][Next]_vars

-----------------------------------------------------------------------------
(* Properties                                                               *)

TypeOK ==
  /\ reader \in Readers /\ stream \in Streams /\ arrived \in 0 .. Len(Bytes)
  /\ DOMAIN decoder = DOMAIN Fresh /\ decoder.need >= -1
  /\ decoder.threw => Noise \in ToSet(stream)
  /\ ended \in BOOLEAN /\ connections \in 1 .. MaxConnections
  /\ waiters \in 0 .. MaxReads /\ nulls \in 0 .. MaxReads

Whole == Cardinality({k \in DOMAIN stream : EndOf(k) <= arrived})
Came == Keep(stream, Whole)
\* The bytes after the last whole text.
Rest == SubSeq(Bytes, EndOf(Whole) + 1, arrived)

\* The texts up to the first that Test refuses.
Upto(s, Test(_)) ==
  LET bad == {i \in DOMAIN s : ~Test(s[i])} IN IF bad = {} THEN s ELSE Keep(s, Least(bad) - 1)
IsProtocol(text) == text # Noise

FramesAsSent ==
  LET proper == Upto(Came, IsProtocol) IN
    /\ decoder.out = SelectSeq(proper, Parses)
    /\ reader \in {"engine", "raw"} => decoder.told = Len(proper) - Len(decoder.out)

LinesAsSent ==
  /\ given \o decoder.out =
    [i \in 1 .. Whole |-> OneLine(Encode(stream[i]))]
      \o (IF ended /\ Rest # <<>> THEN <<OneLine(Rest)>> ELSE <<>>)
  /\ waiters > 0 => decoder.out = <<>> /\ ~ended
  /\ nulls > 0 => decoder.out = <<>> /\ ended

Fits(text) == Parses(text) /\ Len(text) <= MaxPartial
\* What was lost stands in the way of what comes, or the client was told.
TextsAsSent ==
  /\ IsPrefix(Upto(Came, Fits), decoder.out)
  /\ ToSet(decoder.out) \subseteq {text \in ToSet(Came) : Parses(text)}
  /\ Len(decoder.out) < Whole => decoder.buf # <<>> \/ decoder.told > 0
  /\ Len(decoder.buf) <= MaxPartial

OutputAsWritten ==
  LET all == IF ended THEN stream ELSE Came
      shown == IF Len(all) > MaxShown THEN MaxShown ELSE Len(all) IN
    /\ [i \in DOMAIN decoder.out |-> Strip(decoder.out[i])]
         = [i \in 1 .. shown |-> Strip(all[Len(all) - shown + i])]
    /\ Strip(decoder.buf) = Strip(IF ended THEN <<>> ELSE Rest)

\* However a stream is cut and wherever it ends, what was delivered is what was
\* sent: "Feed it arbitrary chunks [...]; multi-byte UTF-8 cannot desynchronize
\* it" (codec.js 23-28, qjs-debugger.js 36-40 and 415-422); lines without the
\* last newline are lines, halves of messages are not, what a malformed message
\* swallows is known, nothing is left over from the connection before, and the
\* output of a dead child is shown to its last byte.  "each readLine() resolves
\* with the next line (without its newline), or null at end of input": nobody
\* waits while there is a line or after the end, and nobody is told of an end
\* while lines are left (qjs-debugger.js 36-40).
Delivered ==
  CASE reader \in Framed \cup {"page", "dap"} -> FramesAsSent
    [] reader = "lines" -> LinesAsSent
    [] reader = "text" -> TextsAsSent
    [] reader = "output" -> OutputAsWritten

=============================================================================
