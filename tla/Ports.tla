------------------------------- MODULE Ports -------------------------------
(***************************************************************************)
(* The two ends of a port with a value channel and a byte pipe: a writer,  *)
(* and the goroutines that take both bands out again.  Those are the       *)
(* output captures and FilePort of pkg/eval/port.go, IterateInputs         *)
(* (pkg/eval/frame.go) with the stream builtins on top of it               *)
(* (builtin_fn_stream.go), and the builtins of builtin_fn_io.go that read  *)
(* the bands themselves.                                                   *)
(*                                                                         *)
(* Texts are sequences of characters.  The writer of a capture is the code *)
(* that is captured, and perhaps a background job it has started; that of  *)
(* a builtin is the form before it in the pipeline.                        *)
(***************************************************************************)
EXTENDS Integers, Sequences, FiniteSets

CONSTANTS
    PortBufSize,   \* capacity of the channel (outputCaptureBufferSize, ...) and of the pipe
    MaxWrites      \* bound: values and bytes the writer writes

ASSUME PortsAssumption == PortBufSize \in Nat \ {0} /\ MaxWrites \in Nat

Captures == {"CapturePort", "ValueCapturePort", "StringCapturePort", "FilePort"}
Streams == {"all", "one", "take", "drop", "compact", "count", "keepIf", "toLines"}
Readers == {"onlyBytes", "onlyValues", "fromLines", "slurp", "readLine"}

\* What can be written: values, and single bytes.
Values == {<<"w">>, <<"x", "x">>}
Bytes == {"\r", "\n"}
Writes == [band : {"value"}, x : Values] \cup [band : {"byte"}, x : {<<b>> : b \in Bytes}]

VARIABLES
    stage,                \* what reads the port
    writer, writing,      \* where the writer is, and what it is writing
    values, text,         \* everything that has been written to either band
    bgPut,                \* whether a background job of a capture has yet to put a value
    chan, chanOpen,       \* the value channel
    pipe, fileOpen,       \* the byte pipe, and its writing end
    valueRd, value,       \* the goroutine that receives values, and the one it holds
    byteRd, line,         \* the goroutine that reads bytes, and the line it has so far
    got, gotBytes,        \* values and lines, or bytes as they are, that came out
    outGone, outErr,      \* whether the reader of the stage's output has gone; errOut
    sent,                 \* what the stage has written to its own output
    main,                 \* whether the function of the stage has returned
    portPanic             \* a send on a closed channel, which ends the shell

portVars == <<stage, writer, writing, values, text, bgPut, chan, chanOpen, pipe, fileOpen, valueRd, value,
              byteRd, line, got, gotBytes, outGone, outErr, sent, main, portPanic>>
inVars == <<chan, chanOpen, pipe, fileOpen>>
outVars == <<outErr, sent>>
writerVars == <<stage, writer, writing, values, text, bgPut, chanOpen, fileOpen, outGone, main, portPanic>>

IsCapture == stage \in Captures
\* The builtins that leave the value band alone.
IgnoresValues == stage \in {"fromLines", "slurp", "readLine"}
\* Whether bytes come out as lines.
ByLine == stage \in Streams \cup {"ValueCapturePort", "StringCapturePort", "fromLines", "readLine"}

None == [band |-> "none", x |-> <<>>]

PortsInit ==
    /\ stage \in Captures \cup Streams \cup Readers
    /\ writer = IF IsCapture /\ stage # "FilePort" THEN "open" ELSE "run"
    /\ writing = None /\ values = <<>> /\ text = <<>>
    /\ bgPut \in IF IsCapture THEN BOOLEAN ELSE {FALSE}
    /\ chan = <<>> /\ chanOpen = TRUE /\ pipe = <<>> /\ fileOpen = TRUE
    /\ valueRd = IF IgnoresValues THEN "done" ELSE "recv"
    /\ value = <<>>
    /\ byteRd = IF stage = "FilePort" THEN "done" ELSE "read"
    /\ line = <<>>
    /\ got = <<>> /\ gotBytes = <<>>
    /\ outGone = FALSE /\ outErr = "nil" /\ sent = <<>>
    /\ main = "running" /\ portPanic = FALSE

-----------------------------------------------------------------------------
(* The writer.                                                             *)

readersSame == UNCHANGED <<valueRd, value, byteRd, line, got>>

\* os.Pipe in PipePort.  If it fails nothing is run.
OpenPort ==
    /\ writer = "open"
    /\ \/ writer' = "run" /\ UNCHANGED <<valueRd, byteRd, main>>
       \/ /\ writer' = "closed" /\ main' = "pipeFailed"
          /\ valueRd' = "done" /\ byteRd' = "done"
    /\ UNCHANGED <<stage, writing, values, text, bgPut, inVars, value, line, got, gotBytes, outGone, outVars,
                   portPanic>>

\* The captured code, or the form before, goes on to its next write, or ends.
ChooseWrite ==
    /\ writer = "run"
    /\ \/ /\ Len(values) + Len(text) < MaxWrites
          /\ writing' \in Writes /\ writer' = "write"
       \/ writing' = None /\ writer' = "close"
    /\ UNCHANGED <<stage, values, text, bgPut, inVars, gotBytes, outGone, outVars, main, portPanic>>
    /\ readersSame

\* A write, which waits while the buffer is full.  The byte band of a FilePort is the file.
Write ==
    /\ writer = "write"
    /\ \/ /\ writing.band = "value" /\ Len(chan) < PortBufSize
          /\ chan' = Append(chan, writing.x) /\ UNCHANGED <<pipe, gotBytes>>
       \/ /\ writing.band = "byte" /\ stage = "FilePort"
          /\ gotBytes' = Append(gotBytes, writing) /\ UNCHANGED <<chan, pipe>>
       \/ /\ writing.band = "byte" /\ stage # "FilePort" /\ main = "running" /\ Len(pipe) < PortBufSize
          /\ pipe' = Append(pipe, Head(writing.x)) /\ UNCHANGED <<chan, gotBytes>>
    /\ \/ writing.band = "value" /\ values' = Append(values, writing.x) /\ UNCHANGED text
       \/ writing.band = "byte" /\ text' = Append(text, Head(writing.x)) /\ UNCHANGED values
    /\ writer' = "run" /\ writing' = None
    /\ UNCHANGED <<stage, bgPut, chanOpen, fileOpen, outGone, outVars, main, portPanic>>
    /\ readersSame

\* Once the builtin that reads has returned, its form closes sendStop and the pipe: the
\* writer gets ReaderGone.
WriteStopped ==
    /\ writer = "write" /\ main = "returned"
    /\ writer' = "close" /\ writing' = None
    /\ UNCHANGED <<stage, values, text, bgPut, inVars, gotBytes, outGone, outVars, main, portPanic>>
    /\ readersSame

\* What the captured code has left running in the background puts a value: on a channel
\* that has been closed, that ends the shell.
BgPut ==
    /\ bgPut /\ writer # "open" /\ main # "pipeFailed"
    /\ IF chanOpen
       THEN /\ Len(chan) < PortBufSize
            /\ chan' = Append(chan, <<"w">>)
            /\ values' = Append(values, <<"w">>)
            /\ UNCHANGED portPanic
       ELSE portPanic' = TRUE /\ UNCHANGED <<chan, values>>
    /\ bgPut' = FALSE
    /\ UNCHANGED <<stage, writer, writing, text, chanOpen, pipe, fileOpen, gotBytes, outGone, outVars, main>>
    /\ readersSame

\* Mutant: the channel is left open.
ClosePort_leaveChan ==
    /\ writer = "close" /\ writer' = "closed"
    /\ fileOpen' = (stage = "FilePort") /\ UNCHANGED chanOpen
    /\ UNCHANGED <<stage, writing, values, text, bgPut, chan, pipe, gotBytes, outGone, outVars, main, portPanic>>
    /\ readersSame

\* done of PipePort, or formOwnedPort.close: the writing end of the pipe, then the channel.
ClosePort ==
    /\ \/ /\ writer = "close" /\ writer' = "closeChan"
          /\ fileOpen' = (stage = "FilePort") /\ UNCHANGED chanOpen
       \/ /\ writer = "closeChan" /\ writer' = "closed"
          /\ chanOpen' = FALSE /\ UNCHANGED fileOpen
    /\ UNCHANGED <<stage, writing, values, text, bgPut, chan, pipe, gotBytes, outGone, outVars, main, portPanic>>
    /\ readersSame

-----------------------------------------------------------------------------
(* What the stage writes to its own output.                                *)

\* Put, or a write of bytes: it fails with ReaderGone only if the reader has gone, and then
\* may still find room in the buffer.
Out(x) ==
    \/ sent' = Append(sent, x) /\ UNCHANGED outErr
    \/ outGone /\ outErr' = "gone" /\ UNCHANGED sent

OutGone ==
    /\ ~IsCapture /\ ~outGone /\ main = "running"
    /\ outGone' = TRUE
    /\ UNCHANGED <<stage, writer, writing, values, text, bgPut, inVars, gotBytes, outVars, main, portPanic>>
    /\ readersSame

\* An example of a callback for keep-if, whose output for some inputs is not a boolean.
Callback(x) == IF x \in {<<"\r">>, <<"x", "x">>} THEN "bad" ELSE IF x = <<"w">> THEN "false" ELSE "true"

\* Mutant: one input too many.
take_oneMore(x) == Len(got) <= 1

\* Whether take and drop, with the argument 1, and compact put their input x.
take(x) == Len(got) < 1

drop(x) == Len(got) >= 1
compact(x) == sent = <<>> \/ x # sent[Len(sent)]

\* What the function keep-if passes to IterateInputs does with x.
keepIf(x) ==
    CASE Callback(x) = "bad" -> outErr' = "callback" /\ UNCHANGED sent
      [] Callback(x) = "true" -> Out(x)
      [] OTHER -> UNCHANGED outVars

\* The function of a stream builtin called for x: after an error the rest of the input is
\* still read.
CallEach(x) ==
    IF outErr # "nil" THEN UNCHANGED outVars
    ELSE IF stage = "keepIf" THEN keepIf(x)
    ELSE IF \/ stage \in {"all", "toLines"}
            \/ stage = "take" /\ take(x)
            \/ stage = "drop" /\ drop(x)
            \/ stage = "compact" /\ compact(x)
    THEN Out(x)
    ELSE UNCHANGED outVars

\* What builtins put after the last input.
one == IF Len(got) = 1 THEN Out(got[1].x) ELSE outErr' = "arity" /\ UNCHANGED sent
count == Out(Len(got))
slurp == Out(gotBytes)
readLine == Out(IF got = <<>> THEN <<>> ELSE got[1].x)
AtEnd ==
    CASE stage = "one" -> one
      [] stage = "count" -> count
      [] stage = "slurp" -> slurp
      [] stage = "readLine" -> readLine
      [] OTHER -> UNCHANGED outVars

-----------------------------------------------------------------------------
(* The goroutines that read.                                               *)

Item(band, x) == [band |-> band, x |-> x]

\* only-values with the value v: it stops at the first error, and then waits for the bytes.
onlyValues(v) ==
    /\ Out(v)
    /\ valueRd' = IF outErr' = "nil" THEN "recv" ELSE "done"
    /\ UNCHANGED <<value, got>>

\* The value goes to the caller of IterateInputs, or to the file of a FilePort.
Hold(v, state) == valueRd' = state /\ value' = v /\ UNCHANGED <<got, outVars>>

\* One round of the loop over the channel.
RecvValue ==
    /\ valueRd = "recv" /\ chan # <<>>
    /\ chan' = Tail(chan)
    /\ LET v == Head(chan) IN
         CASE stage = "FilePort" -> Hold(v, "prefix")
           [] stage \in Streams -> Hold(v, "hold")
           [] stage = "onlyValues" -> onlyValues(v)
           [] stage = "onlyBytes" -> UNCHANGED <<valueRd, value, got, outVars>>
           [] OTHER -> /\ got' = Append(got, Item("value", v))
                       /\ UNCHANGED <<valueRd, value, outVars>>
    /\ UNCHANGED <<writerVars, pipe, byteRd, line, gotBytes>>

\* The three writes a FilePort makes of a value, its prefix, its representation and a newline,
\* between which the writer may write bytes.
WritePiece ==
    /\ valueRd \in {"prefix", "repr", "newline"}
    /\ gotBytes' = Append(gotBytes, Item(valueRd, value))
    /\ valueRd' = CASE valueRd = "prefix" -> "repr" [] valueRd = "repr" -> "newline" [] OTHER -> "recv"
    /\ UNCHANGED <<writerVars, chan, pipe, value, byteRd, line, got, outVars>>

ValuesEnd ==
    /\ valueRd = "recv" /\ chan = <<>> /\ ~chanOpen
    /\ valueRd' = "done"
    /\ UNCHANGED <<writerVars, chan, pipe, value, byteRd, line, got, gotBytes, outVars>>

\* strutil.ChopLineEnding: "\n" or "\r\n".
ChopLineEnding(s) ==
    LET n == Len(s)
    IN  IF n = 0 \/ s[n] # "\n" THEN s
        ELSE IF n > 1 /\ s[n - 1] = "\r" THEN SubSeq(s, 1, n - 2) ELSE SubSeq(s, 1, n - 1)

\* Mutant: what follows the last newline is lost.
KeepsRest_never == FALSE

\* Whether a last line without a newline comes out: only StringCapturePort drops it.
KeepsRest == stage # "StringCapturePort"

\* from-lines with the line x: it stops at the first error.
fromLines(x, rd) ==
    /\ Out(x) /\ line' = <<>>
    /\ byteRd' = IF outErr' = "nil" THEN rd ELSE "done"
    /\ UNCHANGED got

\* A line s has been read, perhaps at the end of the file.
LineRead(s, atEOF) ==
    LET x == ChopLineEnding(s)
        rd == IF atEOF THEN "done" ELSE "read"
    IN  CASE stage \in Streams ->
               /\ line' = s /\ byteRd' = IF atEOF THEN "holdLast" ELSE "hold"
               /\ UNCHANGED <<got, outVars>>
          [] stage = "fromLines" -> fromLines(x, rd)
          [] OTHER ->
               /\ got' = Append(got, Item("byte", x)) /\ line' = <<>>
               /\ byteRd' = IF stage = "readLine" THEN "done" ELSE rd
               /\ UNCHANGED outVars

\* only-bytes with the byte b: it stops at the first error, and then waits for the values.
onlyBytes(b) ==
    /\ Out(b) /\ byteRd' = IF outErr' = "nil" THEN "read" ELSE "done"
    /\ UNCHANGED <<line, got, gotBytes>>

\* A byte is read: it makes a line longer, ends it, or is passed on as it is.
ReadByte ==
    /\ byteRd = "read" /\ pipe # <<>>
    /\ pipe' = Tail(pipe)
    /\ LET b == Head(pipe) IN
         \/ /\ ByLine /\ b # "\n"
            /\ line' = Append(line, b)
            /\ UNCHANGED <<byteRd, got, gotBytes, outVars>>
         \/ /\ ByLine /\ b = "\n"
            /\ LineRead(Append(line, b), FALSE) /\ UNCHANGED gotBytes
         \/ /\ stage \in {"CapturePort", "slurp"}
            /\ gotBytes' = Append(gotBytes, b)
            /\ UNCHANGED <<byteRd, line, got, outVars>>
         \/ stage = "onlyBytes" /\ onlyBytes(b)
         \/ /\ stage = "onlyValues" /\ UNCHANGED <<byteRd, line, got, gotBytes, outVars>>
    /\ UNCHANGED <<writerVars, chan, valueRd, value>>

BytesEnd ==
    /\ byteRd = "read" /\ pipe = <<>> /\ ~fileOpen
    /\ IF line # <<>> /\ KeepsRest
       THEN LineRead(line, TRUE)
       ELSE byteRd' = "done" /\ UNCHANGED <<line, got, outVars>>
    /\ UNCHANGED <<writerVars, chan, pipe, valueRd, value, gotBytes>>

\* IterateInputs: one of the two goroutines sends what it holds on inputs, which is not
\* buffered, and the function is called with it.
TakeInput ==
    /\ \/ /\ valueRd = "hold" /\ valueRd' = "recv"
          /\ CallEach(value) /\ got' = Append(got, Item("value", value))
          /\ UNCHANGED <<byteRd, line>>
       \/ /\ byteRd \in {"hold", "holdLast"}
          /\ byteRd' = IF byteRd = "hold" THEN "read" ELSE "done"
          /\ LET x == ChopLineEnding(line) IN CallEach(x) /\ got' = Append(got, Item("byte", x))
          /\ line' = <<>> /\ UNCHANGED valueRd
    /\ UNCHANGED <<writerVars, chan, pipe, value, gotBytes>>

\* Mutant: only the goroutine that reads values is waited for.
AllRead_valuesOnly == valueRd = "done"

\* What the WaitGroup, relayDone, or the deferred receive of onlyBytes and onlyValues waits for.
AllRead == valueRd = "done" /\ byteRd = "done"

\* collect of a capture, or the end of a builtin.
ReturnFromStage ==
    /\ main = "running" /\ AllRead
    /\ IsCapture => writer = "closed"
    /\ AtEnd
    /\ main' = "returned"
    /\ UNCHANGED <<stage, writer, writing, values, text, bgPut, inVars, gotBytes, outGone, portPanic>>
    /\ readersSame

-----------------------------------------------------------------------------
WriterStep == OpenPort \/ ChooseWrite \/ Write \/ WriteStopped \/ ClosePort
ValueReader == RecvValue \/ WritePiece \/ ValuesEnd
ByteReader == ReadByte \/ BytesEnd
StageStep == TakeInput \/ ReturnFromStage

PortsNext ==
    ~portPanic /\ (WriterStep \/ BgPut \/ OutGone \/ ValueReader \/ ByteReader \/ StageStep)

PortsSpec == PortsInit /\ [][PortsNext]_portVars

-----------------------------------------------------------------------------
(* What should come out.                                                   *)

\* What came on a band, by its places in items, and how many of the places S go up to i.
From(items, band) == {i \in DOMAIN items : items[i].band = band}
Rank(S, i) == Cardinality({j \in S : j <= i})

\* The items at the places S are the first elements of s, in order.
Delivers(items, S, s) == \A i \in S : Rank(S, i) \in DOMAIN s /\ items[i].x = s[Rank(S, i)]

\* Every line of the text t ends at the next newline; only the last may lack one, at the end
\* of t, and StringCapturePort drops that one.
Before(ends, k) == IF k = 1 THEN 0 ELSE ends[k - 1]
LineEnds(t, ends) ==
    \A k \in DOMAIN ends :
      /\ ends[k] \in Before(ends, k) + 1 .. Len(t)
      /\ \A i \in Before(ends, k) + 1 .. ends[k] - 1 : t[i] # "\n"
      /\ t[ends[k]] = "\n" \/ (k = Len(ends) /\ ends[k] = Len(t) /\ stage # "StringCapturePort")
\* No further line begins, or only one that is dropped.
NoMoreLines(t, ends) ==
    LET last == Before(ends, Len(ends) + 1)
    IN  last = Len(t) \/ (stage = "StringCapturePort" /\ \A i \in last + 1 .. Len(t) : t[i] # "\n")
LinesOf(t, ends) == [k \in DOMAIN ends |-> ChopLineEnding(SubSeq(t, Before(ends, k) + 1, ends[k]))]

\* The inputs that a stream builtin puts.
Puts ==
    CASE stage \in {"all", "toLines"} -> DOMAIN got
      [] stage = "take" -> DOMAIN got \cap {1}
      [] stage = "drop" -> DOMAIN got \ {1}
      [] stage = "compact" -> {i \in DOMAIN got : i = 1 \/ got[i].x # got[i - 1].x}
      [] stage = "keepIf" -> {i \in DOMAIN got : /\ Callback(got[i].x) = "true"
                                                 /\ \A j \in 1..i : Callback(got[j].x) # "bad"}
      [] OTHER -> {}

ReadsValues == stage \in Streams \cup {"CapturePort", "ValueCapturePort", "StringCapturePort"}
ReadsLines == stage \in Streams \cup {"ValueCapturePort", "StringCapturePort", "readLine"}
Returned == main = "returned"

\* What has come out of the value band is what was written to it, in order, and all of it when
\* the reader has returned.
ValuesDelivered ==
    ReadsValues => /\ Delivers(got, From(got, "value"), values)
                   /\ Returned => Cardinality(From(got, "value")) = Len(values)

\* Likewise for the lines, and the bytes, of the byte band.
LinesDelivered ==
    \E n \in 0..Len(text) : \E ends \in [1..n -> 1..Len(text)] :
      /\ LineEnds(text, ends)
      /\ ReadsLines => /\ Delivers(got, From(got, "byte"), LinesOf(text, ends))
                       /\ Cardinality(From(got, "byte")) = n
      /\ stage = "fromLines" => sent = LinesOf(text, ends)
      /\ Returned /\ ReadsLines /\ stage # "readLine" => NoMoreLines(text, ends)
      /\ Returned /\ stage = "readLine" => n = (IF text = <<>> THEN 0 ELSE 1)
      /\ Returned /\ stage = "fromLines" /\ outErr = "nil" => NoMoreLines(text, ends)
BytesDelivered ==
    stage \in {"CapturePort", "slurp"} =>
      /\ Len(gotBytes) <= Len(text) /\ \A k \in DOMAIN gotBytes : gotBytes[k] = text[k]
      /\ Returned => Len(gotBytes) = Len(text)

\* A file has the bytes in order and, for each value in order, its three pieces in order.
FileDelivered ==
    LET bytes == From(gotBytes, "byte")
        pieces == DOMAIN gotBytes \ bytes
    IN  stage = "FilePort" =>
          /\ Cardinality(bytes) = Len(text)
          /\ \A i \in bytes : gotBytes[i].x = <<text[Rank(bytes, i)]>>
          /\ \A i \in pieces, k \in DOMAIN values :
               /\ Rank(pieces, i) = 3 * k - 2 => gotBytes[i] = Item("prefix", values[k])
               /\ Rank(pieces, i) = 3 * k - 1 => gotBytes[i] = Item("repr", values[k])
               /\ Rank(pieces, i) = 3 * k     => gotBytes[i] = Item("newline", values[k])
          /\ Returned => Cardinality(pieces) = 3 * Len(values)

\* A stream builtin makes its output of just its inputs, whatever the order in which the two
\* bands came; only if the reader of that output has gone may some of them be missing at the end.
StreamPuts ==
    stage \in Streams \ {"one", "count"} =>
      \E m \in 0..Len(got) :
        LET puts == {i \in Puts : i <= m}
        IN  /\ Delivers(got, puts, sent) /\ Cardinality(puts) = Len(sent)
            /\ outErr # "gone" => m = Len(got)

\* So does every other builtin.
BandPassed(band) ==
    /\ Len(sent) <= Len(band) /\ \A k \in DOMAIN sent : sent[k] = band[k]
    /\ Returned /\ outErr = "nil" => Len(sent) = Len(band)
OthersPut ==
    /\ stage = "onlyBytes" => BandPassed(text)
    /\ stage = "onlyValues" => BandPassed(values)
    /\ Returned /\ stage = "one" /\ Len(got) # 1 => outErr = "arity" /\ sent = <<>>
    /\ Returned /\ outErr = "nil" =>
         /\ stage = "one" => sent = <<got[1].x>>
         /\ stage = "count" => sent = <<Len(got)>>
         /\ stage = "slurp" => sent = <<gotBytes>>
         /\ stage = "readLine" => sent = <<IF got = <<>> THEN <<>> ELSE got[1].x>>
    /\ outErr = "gone" => outGone

\* What has come out of each band is what was written to it, in order; all of it, once the
\* reader has returned.  A builtin makes its output of just that, whatever the order in which
\* the two bands came, and stops early only because the reader of its output has gone.
PortsDeliver ==
    ValuesDelivered /\ LinesDelivered /\ BytesDelivered /\ FileDelivered /\ StreamPuts /\ OthersPut

\* Both sides end.  The exception is a writer that waits for room in a band nobody reads any
\* more, while what reads the other band waits for the writer: a builtin that ignores values,
\* and only-bytes and only-values after the reader of their own output has gone.
BandAbandoned ==
    /\ writer = "write" /\ main = "running"
    /\ (writing.band = "value" /\ valueRd = "done") \/ (writing.band = "byte" /\ byteRd = "done")
    /\ IgnoresValues \/ (stage \in {"onlyBytes", "onlyValues"} /\ outErr = "gone")
PortsEnd == portPanic \/ BandAbandoned \/ (main # "running" /\ writer = "closed")
=============================================================================
