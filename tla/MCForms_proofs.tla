--------------------------- MODULE MCForms_proofs ---------------------------
(***************************************************************************)
(* Theorems about what runs the forms of a chunk: the ports between a      *)
(* writer and what reads it, for any buffers and any number of writes, and *)
(* the composition of chunk, redirections, peach and ports, for every      *)
(* value of the constants of each.                                         *)
(***************************************************************************)
EXTENDS MCForms, Pipeline_proofs, Redir_proofs, Peach_proofs, SequenceTheorems

-----------------------------------------------------------------------------
(* The ports.                                                              *)

\* The readers that take every value, and those that take every byte, before they return.
TakesAllValues == stage \in Captures \cup Streams \cup {"onlyBytes"}
TakesAllBytes == stage \in (Captures \ {"FilePort"}) \cup Streams \cup {"onlyValues", "slurp"}

\* A band that is over: nothing is left in it, and nobody can write to it any more.
ValuesOver == chan = <<>> /\ ~chanOpen
BytesOver == pipe = <<>> /\ ~fileOpen

\* Neither a capture nor a builtin returns while anything written to a band it reads to the
\* end is still in there, or may still come: collect, IterateInputs and the deferred receives
\* of only-bytes and only-values wait for the goroutines they have started.
NothingLeftInPort ==
    main = "returned" => /\ TakesAllValues => ValuesOver
                         /\ TakesAllBytes => BytesOver

\* A band is closed only by a writer that has stopped writing to it, and a goroutine that
\* reads a band to its end has found it over.
BandsEnd ==
    /\ chanOpen \in BOOLEAN /\ fileOpen \in BOOLEAN
    /\ main \in {"running", "returned", "pipeFailed"}
    /\ writer \in {"open", "run", "write", "close", "closeChan", "closed"}
    /\ ~chanOpen => writer = "closed"
    /\ ~fileOpen => writer \in {"closeChan", "closed"}
    /\ main = "pipeFailed" => writer = "closed"
    /\ main = "returned" => AllRead
    /\ TakesAllValues /\ valueRd = "done" /\ main # "pipeFailed" => ValuesOver
    /\ TakesAllBytes /\ byteRd \in {"done", "holdLast"} /\ main # "pipeFailed" => BytesOver

\* A reader that has ended has found its band over, in every state: only a writer that has
\* stopped closes a band, and nothing is written to a closed one.
LEMMA BandsEndAlways == PortsSpec => []BandsEnd
<1>1. PortsInit => BandsEnd
  <2> SUFFICES ASSUME PortsInit PROVE BandsEnd
    OBVIOUS
  <2>1. chanOpen = TRUE /\ fileOpen = TRUE /\ main = "running" /\ writer \in {"open", "run"}
    BY DEF PortsInit
  <2>2. TakesAllValues => valueRd = "recv"
    BY DEF PortsInit, TakesAllValues, IgnoresValues, Captures, Streams
  <2>3. TakesAllBytes => byteRd = "read"
    BY DEF PortsInit, TakesAllBytes, Captures, Streams
  <2> QED
    BY <2>1, <2>2, <2>3 DEF BandsEnd
<1>2. BandsEnd /\ [PortsNext]_portVars => BandsEnd'
  <2> SUFFICES ASSUME BandsEnd, [PortsNext]_portVars PROVE BandsEnd'
    OBVIOUS
  <2> USE DEF BandsEnd, TakesAllValues, TakesAllBytes, ValuesOver, BytesOver, AllRead, inVars, outVars, writerVars,
              readersSame
  <2>1. CASE OpenPort
    BY <2>1 DEF OpenPort
  <2>2. CASE ChooseWrite
    BY <2>2 DEF ChooseWrite
  <2>3. CASE Write
    BY <2>3 DEF Write
  <2>4. CASE WriteStopped
    BY <2>4 DEF WriteStopped
  <2>5. CASE BgPut
    BY <2>5 DEF BgPut
  <2>6. CASE ClosePort
    <3>1. CASE writer = "close"
      <4>1. /\ writer' = "closeChan" /\ fileOpen' = (stage = "FilePort")
            /\ UNCHANGED <<chanOpen, stage, chan, pipe, main, valueRd, byteRd>>
        BY <2>6, <3>1 DEF ClosePort
      <4>2. fileOpen' \in BOOLEAN
        BY <4>1, Zenon
      <4>3. chanOpen /\ main # "pipeFailed"
        BY <3>1
      <4>4. TakesAllValues => valueRd # "done"
        BY <4>3
      <4>5. TakesAllBytes => byteRd \notin {"done", "holdLast"}
        <5>1. fileOpen
          BY <3>1
        <5> QED
          BY <5>1, <4>3
      <4> HIDE DEF TakesAllValues, TakesAllBytes
      <4>6. TakesAllValues' = TakesAllValues /\ TakesAllBytes' = TakesAllBytes
        BY <4>1 DEF TakesAllValues, TakesAllBytes
      <4>7. chanOpen' /\ (AllRead' <=> AllRead)
        BY <4>1, <4>3
      <4> QED
        BY <4>1, <4>2, <4>3, <4>4, <4>5, <4>6, <4>7
    <3>2. CASE writer = "closeChan"
      <4>1. /\ writer' = "closed" /\ chanOpen' = FALSE
            /\ UNCHANGED <<fileOpen, stage, chan, pipe, main, valueRd, byteRd>>
        BY <2>6, <3>2 DEF ClosePort
      <4>2. chanOpen
        BY <3>2
      <4>3. TakesAllValues /\ main # "pipeFailed" => valueRd # "done"
        BY <4>2
      <4> HIDE DEF TakesAllValues, TakesAllBytes
      <4>4. TakesAllValues' = TakesAllValues /\ TakesAllBytes' = TakesAllBytes
        BY <4>1 DEF TakesAllValues, TakesAllBytes
      <4> QED
        BY <4>1, <4>3, <4>4
    <3> QED
      BY <2>6, <3>1, <3>2 DEF ClosePort
  <2>7. CASE OutGone
    BY <2>7 DEF OutGone
  <2>8. CASE RecvValue
    <3>1. /\ valueRd = "recv" /\ main # "returned"
          /\ UNCHANGED <<stage, writer, chanOpen, fileOpen, main, pipe, byteRd>>
      BY <2>8 DEF RecvValue
    <3>2. stage # "onlyValues" => valueRd' \in {"prefix", "hold", "recv"}
      BY <2>8 DEF RecvValue, Hold
    <3>3. TakesAllValues => valueRd' # "done"
      BY <3>2 DEF Captures, Streams
    <3> QED
      BY <3>1, <3>3
  <2>9. CASE WritePiece
    BY <2>9 DEF WritePiece
  <2>10. CASE ValuesEnd
    BY <2>10 DEF ValuesEnd
  <2>11. CASE ReadByte
    <3>1. /\ byteRd = "read" /\ main # "returned"
          /\ UNCHANGED <<stage, writer, chanOpen, fileOpen, main, chan, valueRd>>
      BY <2>11 DEF ReadByte
    <3>2. stage \notin {"fromLines", "onlyBytes", "readLine"} => byteRd' \in {"read", "hold"}
      BY <2>11 DEF ReadByte, LineRead
    <3>3. TakesAllBytes => byteRd' \notin {"done", "holdLast"}
      BY <3>2 DEF Captures, Streams
    <3> QED
      BY <3>1, <3>3
  <2>12. CASE BytesEnd
    BY <2>12 DEF BytesEnd, LineRead, fromLines
  <2>13. CASE TakeInput
    BY <2>13 DEF TakeInput
  <2>14. CASE ReturnFromStage
    BY <2>14 DEF ReturnFromStage
  <2>15. CASE UNCHANGED portVars
    BY <2>15 DEF portVars
  <2> QED
    BY <2>1, <2>2, <2>3, <2>4, <2>5, <2>6, <2>7, <2>8, <2>9, <2>10, <2>11, <2>12, <2>13, <2>14, <2>15
       DEF PortsNext, WriterStep, ValueReader, ByteReader, StageStep
<1> QED
  BY <1>1, <1>2, PTL DEF PortsSpec

\* For any capacity of the buffers and any number of writes, a port is empty and closed when
\* what reads it to the end returns.
THEOREM PortsDrainedTheorem == PortsSpec => []NothingLeftInPort
<1>1. BandsEnd => NothingLeftInPort
  BY DEF BandsEnd, NothingLeftInPort, AllRead
<1> QED
  BY <1>1, BandsEndAlways, PTL

-----------------------------------------------------------------------------
(* The inductive invariant of the ports.                                   *)

\* How many values, and how many bytes, have been received so far.
Received == Len(values) - Len(chan)
ReadSoFar == Len(text) - Len(pipe)

\* Texts, and the outputs of the stages: bytes, texts and numbers.
Chars == {"w", "x", "\r", "\n"}
Text == Seq(Chars)
Outputs == Chars \cup Text \cup Nat

GotItems == [band : {"value", "byte"}, x : Text]
FileItems == [band : {"byte", "prefix", "repr", "newline"}, x : Text]

PortTypeOK ==
    /\ stage \in Captures \cup Streams \cup Readers
    /\ writer = "write" => writing \in Writes
    /\ values \in Seq(Text) /\ chan \in Seq(Text) /\ text \in Text /\ pipe \in Text
    /\ valueRd \in {"recv", "hold", "prefix", "repr", "newline", "done"} /\ value \in Text
    /\ byteRd \in {"read", "hold", "holdLast", "done"} /\ line \in Text
    /\ valueRd = "hold" \/ byteRd \in {"hold", "holdLast"} => stage \in Streams
    /\ valueRd \in {"prefix", "repr", "newline"} => stage = "FilePort"
    /\ got \in Seq(GotItems)
    /\ stage = "FilePort" => gotBytes \in Seq(FileItems)
    /\ stage # "FilePort" => gotBytes \in Text
    /\ sent \in Seq(Outputs)
    /\ outGone \in BOOLEAN /\ outErr \in {"nil", "gone", "callback", "arity"}

\* Which errors each stage may meet, and what they end.
StageOK ==
    /\ writer = "open" \/ main = "pipeFailed" => IsCapture /\ stage # "FilePort"
    /\ writer = "open" => text = <<>>
    /\ stage = "FilePort" => byteRd = "done" /\ pipe = <<>>
    /\ outErr = "gone" => outGone
    /\ outErr = "callback" => stage = "keepIf"
    /\ outErr = "arity" => stage = "one"
    /\ main # "returned" /\ stage \in {"one", "count", "slurp", "readLine"} => outErr = "nil" /\ sent = <<>>
    /\ outErr = "gone" /\ stage = "onlyValues" => valueRd = "done"
    /\ outErr = "gone" /\ stage \in {"onlyBytes", "fromLines"} => byteRd = "done"
    /\ outErr = "nil" /\ stage = "onlyValues" /\ valueRd = "done" => ValuesOver
    /\ outErr = "nil" /\ stage \in {"onlyBytes", "fromLines"} /\ byteRd = "done" => BytesOver

\* What is in a band, and what the goroutine that received it last holds, is the rest of what
\* was written to it.
Rest(r, s) == Len(r) <= Len(s) /\ \A k \in 1..Len(r) : r[k] = s[Len(s) - Len(r) + k]
BandRests ==
    /\ Rest(chan, values)
    /\ stage # "FilePort" => Rest(pipe, text)
    /\ valueRd \in {"hold", "prefix", "repr", "newline"} => Received >= 1 /\ value = values[Received]

\* s starts with p.
Starts(p, s) == Len(p) <= Len(s) /\ \A k \in 1..Len(p) : p[k] = s[k]

ValuesGot ==
    ReadsValues => /\ Delivers(got, From(got, "value"), values)
                   /\ Cardinality(From(got, "value")) = Received - (IF valueRd = "hold" THEN 1 ELSE 0)

\* The line that has been read in part begins after the last one that has been handed out.
LineAfter(last) ==
    /\ last + Len(line) = ReadSoFar
    /\ \A k \in 1..Len(line) : /\ line[k] = text[last + k]
                               /\ line[k] = "\n" <=> (k = Len(line) /\ byteRd = "hold")
    /\ byteRd \in {"hold", "holdLast"} => line # <<>>
    /\ byteRd = "done" /\ stage # "StringCapturePort" => line = <<>>

\* What has come out is the lines up to these ends, and what follows them has not been read, or
\* not been handed out.
LinesOut(ends) ==
    /\ LineEnds(text, ends)
    /\ \A k \in 1..Len(ends) : ends[k] >= k /\ (fileOpen => text[ends[k]] = "\n")
    /\ ReadsLines => /\ Delivers(got, From(got, "byte"), LinesOf(text, ends))
                     /\ Cardinality(From(got, "byte")) = Len(ends)
    /\ stage = "fromLines" => sent = LinesOf(text, ends)
LinesIn(ends) ==
    /\ stage = "readLine" => /\ Len(ends) <= 1
                             /\ byteRd = "read" => Len(ends) = 0
                             /\ byteRd = "done" /\ Len(ends) = 0 => BytesOver
    /\ (stage = "fromLines" /\ outErr = "gone") \/ LineAfter(Before(ends, Len(ends) + 1))
LinesGot == ByLine => \E ends \in Seq(Nat) : LinesOut(ends) /\ LinesIn(ends)

BytesGot == stage \in {"CapturePort", "slurp"} => Starts(gotBytes, text) /\ Len(gotBytes) = ReadSoFar

\* The places in a file of the bytes, and of the pieces of values.
FileBytes == From(gotBytes, "byte")
FilePieces == DOMAIN gotBytes \ FileBytes
PieceOf(i, k) ==
    /\ Rank(FilePieces, i) = 3 * k - 2 => gotBytes[i] = Item("prefix", values[k])
    /\ Rank(FilePieces, i) = 3 * k - 1 => gotBytes[i] = Item("repr", values[k])
    /\ Rank(FilePieces, i) = 3 * k     => gotBytes[i] = Item("newline", values[k])
PiecesLeft == IF valueRd = "prefix" THEN 3 ELSE IF valueRd = "repr" THEN 2 ELSE IF valueRd = "newline" THEN 1 ELSE 0
FileGot ==
    stage = "FilePort" =>
      /\ Cardinality(FileBytes) = Len(text)
      /\ \A i \in FileBytes : gotBytes[i].x = <<text[Rank(FileBytes, i)]>>
      /\ \A i \in FilePieces, k \in DOMAIN values : PieceOf(i, k)
      /\ Cardinality(FilePieces) = 3 * Received - PiecesLeft

\* What compact has put last, and whether the callback of keep-if has failed.
StreamOK ==
    /\ stage = "compact" /\ outErr = "nil" =>
         /\ got = <<>> => sent = <<>>
         /\ got # <<>> => sent # <<>> /\ sent[Len(sent)] = got[Len(got)].x
    /\ stage = "keepIf" /\ outErr = "nil" => \A i \in 1..Len(got) : Callback(got[i].x) # "bad"
    /\ stage = "keepIf" /\ outErr = "callback" => \E i \in 1..Len(got) : Callback(got[i].x) = "bad"

\* Whether x is put, if it is the next input.
PutsNext(x) ==
    \/ stage \in {"all", "toLines"}
    \/ stage = "take" /\ Len(got) = 0
    \/ stage = "drop" /\ Len(got) # 0
    \/ stage = "compact" /\ (Len(got) = 0 \/ x # got[Len(got)].x)
    \/ stage = "keepIf" /\ Callback(x) = "true" /\ \A j \in 1..Len(got) : Callback(got[j].x) # "bad"

PassedSoFar ==
    /\ stage = "onlyBytes" => Starts(sent, text) /\ Len(sent) <= ReadSoFar /\ (outErr = "nil" => Len(sent) = ReadSoFar)
    /\ stage = "onlyValues" => Starts(sent, values) /\ Len(sent) <= Received /\ (outErr = "nil" => Len(sent) = Received)
PutAtEnd ==
    main = "returned" =>
      /\ stage = "one" /\ Len(got) # 1 => outErr = "arity" /\ sent = <<>>
      /\ outErr = "nil" =>
           /\ stage = "one" => sent = <<got[1].x>>
           /\ stage = "count" => sent = <<Len(got)>>
           /\ stage = "slurp" => sent = <<gotBytes>>
           /\ stage = "readLine" => sent = <<IF got = <<>> THEN <<>> ELSE got[1].x>>

PortInv ==
    /\ BandsEnd /\ PortTypeOK /\ StageOK /\ BandRests
    /\ ValuesGot /\ LinesGot /\ BytesGot /\ FileGot /\ StreamPuts /\ StreamOK /\ PassedSoFar /\ PutAtEnd

-----------------------------------------------------------------------------
(* Sequences.                                                              *)

\* A sequence with one more element.
LEMMA AppendSeq ==
    ASSUME NEW S, NEW s \in Seq(S), NEW e \in S
    PROVE  /\ Append(s, e) \in Seq(S) /\ Len(s) \in Nat /\ Len(Append(s, e)) = Len(s) + 1
           /\ Append(s, e)[Len(s) + 1] = e /\ Append(s, e) # <<>>
           /\ \A i \in 1..Len(s) : Append(s, e)[i] = s[i]
OBVIOUS

\* The first element of a sequence, and what follows it.
LEMMA TailSeq ==
    ASSUME NEW S, NEW s \in Seq(S), s # <<>>
    PROVE  /\ Head(s) \in S /\ Head(s) = s[1] /\ Tail(s) \in Seq(S) /\ Len(s) \in Nat \ {0}
           /\ Len(Tail(s)) = Len(s) - 1 /\ \A i \in 1..Len(s) - 1 : Tail(s)[i] = s[i + 1]
OBVIOUS

\* The elements of a sequence.
LEMMA ElemSeq ==
    ASSUME NEW S, NEW s \in Seq(S)
    PROVE  /\ Len(s) \in Nat /\ DOMAIN s = 1..Len(s) /\ (s = <<>> <=> Len(s) = 0) /\ \A i \in 1..Len(s) : s[i] \in S
OBVIOUS

\* Sequences with the same elements.
LEMMA SameSeq ==
    ASSUME NEW S, NEW s \in Seq(S), NEW t \in Seq(S), Len(s) = Len(t), \A i \in 1..Len(s) : s[i] = t[i]
    PROVE  s = t
OBVIOUS

-----------------------------------------------------------------------------
(* Places in a sequence.                                                   *)

\* Ranks in a set of places to which a later place is added.
LEMMA RankAdd ==
    ASSUME NEW size \in Nat, NEW S, S \subseteq 1..size
    PROVE  /\ Cardinality(S) \in Nat /\ Cardinality(S \cup {size + 1}) = Cardinality(S) + 1
           /\ Rank(S \cup {size + 1}, size + 1) = Cardinality(S) + 1
           /\ \A i \in S : Rank(S \cup {size + 1}, i) = Rank(S, i) /\ Rank(S, i) \in 1..Cardinality(S)
<1>1. IsFiniteSet(S) /\ Cardinality(S) \in Nat
  <2>1. IsFiniteSet(1..size)
    BY FS_Interval
  <2> QED
    BY <2>1, FS_Subset, FS_CardinalityType
<1>2. Cardinality(S \cup {size + 1}) = Cardinality(S) + 1
  BY <1>1, FS_AddElement
<1>3. {j \in S \cup {size + 1} : j <= size + 1} = S \cup {size + 1}
  <2>1. \A j \in S \cup {size + 1} : j <= size + 1
    OBVIOUS
  <2> QED
    BY <2>1, Zenon
<1>4. ASSUME NEW i \in S
      PROVE  Rank(S \cup {size + 1}, i) = Rank(S, i) /\ Rank(S, i) \in 1..Cardinality(S)
  <2>1. {j \in S \cup {size + 1} : j <= i} = {j \in S : j <= i}
    OBVIOUS
  <2> DEFINE T == {j \in S : j <= i}
  <2>2. T \in SUBSET S /\ i \in T
    OBVIOUS
  <2> HIDE DEF T
  <2>3. IsFiniteSet(T) /\ Cardinality(T) <= Cardinality(S) /\ Cardinality(T) \in Nat
    BY <1>1, <2>2, FS_Subset, FS_CardinalityType
  <2>4. Cardinality(T) # 0
    BY <2>2, <2>3, FS_EmptySet
  <2> QED
    BY <1>1, <2>1, <2>3, <2>4 DEF Rank, T
<1> QED
  BY <1>1, <1>2, <1>3, <1>4 DEF Rank

\* What came on a band, when one more item comes.
LEMMA FromAppend ==
    ASSUME NEW T, NEW items \in Seq(T), NEW it \in T, NEW b
    PROVE  /\ From(items, b) \subseteq 1..Len(items)
           /\ From(Append(items, it), b) = IF it.band = b THEN From(items, b) \cup {Len(items) + 1} ELSE From(items, b)
<1> DEFINE w == Append(items, it)
<1>1. /\ Len(items) \in Nat /\ DOMAIN items = 1..Len(items) /\ DOMAIN w = 1..Len(items) + 1
      /\ w[Len(items) + 1] = it /\ \A i \in 1..Len(items) : w[i] = items[i]
  OBVIOUS
<1>2. \A i : i \in 1..Len(items) + 1 <=> i \in 1..Len(items) \/ i = Len(items) + 1
  BY <1>1
<1>3. Len(items) + 1 \notin 1..Len(items)
  BY <1>1
<1> HIDE DEF w
<1>4. From(w, b) = IF it.band = b THEN From(items, b) \cup {Len(items) + 1} ELSE From(items, b)
  BY <1>1, <1>2, <1>3 DEF From
<1> QED
  BY <1>1, <1>4 DEF From, w

\* One more item that is the next element of s, and one that does not count.
LEMMA DeliversNext ==
    ASSUME NEW T, NEW items \in Seq(T), NEW it \in T, NEW S, S \subseteq 1..Len(items), NEW s,
           Delivers(items, S, s)
    PROVE  /\ Delivers(Append(items, it), S, s)
           /\ Cardinality(S) + 1 \in DOMAIN s /\ it.x = s[Cardinality(S) + 1] =>
                Delivers(Append(items, it), S \cup {Len(items) + 1}, s)
<1> DEFINE w == Append(items, it)
<1>1. Len(items) \in Nat /\ w[Len(items) + 1] = it /\ \A i \in 1..Len(items) : w[i] = items[i]
  OBVIOUS
<1> HIDE DEF w
<1>2. Delivers(w, S, s)
  BY <1>1 DEF Delivers
<1>3. ASSUME Cardinality(S) + 1 \in DOMAIN s, it.x = s[Cardinality(S) + 1]
      PROVE  Delivers(w, S \cup {Len(items) + 1}, s)
  <2> DEFINE U == S \cup {Len(items) + 1}
  <2>1. /\ Rank(U, Len(items) + 1) = Cardinality(S) + 1
        /\ \A i \in S : Rank(U, i) = Rank(S, i)
    BY <1>1, RankAdd
  <2>2. \A i \in S : Rank(S, i) \in DOMAIN s /\ w[i].x = s[Rank(S, i)]
    BY <1>2 DEF Delivers
  <2>3. \A i \in U : i \in S \/ i = Len(items) + 1
    OBVIOUS
  <2> HIDE DEF U
  <2>4. \A i \in U : Rank(U, i) \in DOMAIN s /\ w[i].x = s[Rank(U, i)]
    BY <1>1, <1>3, <2>1, <2>2, <2>3
  <2> QED
    BY <2>4 DEF Delivers, U
<1> QED
  BY <1>2, <1>3 DEF w

\* A sequence that grows still has what was delivered of it.
LEMMA DeliversMore ==
    ASSUME NEW items, NEW S, NEW U, NEW s \in Seq(U), NEW e, Delivers(items, S, s)
    PROVE  Delivers(items, S, Append(s, e))
BY DEF Delivers

-----------------------------------------------------------------------------
(* Types, and the errors of each stage.                                    *)

\* What is written.
LEMMA WritesType ==
    /\ Values \subseteq Text /\ Bytes \subseteq Chars /\ <<>> \in Text /\ <<"w">> \in Text
    /\ \A w \in Writes : /\ w.band = "value" => w.x \in Text
                         /\ w.band = "byte" => Head(w.x) \in Chars /\ w.x = <<Head(w.x)>> /\ w \in FileItems
                         /\ w.band \in {"value", "byte"}
<1>1. Values \subseteq Text /\ Bytes \subseteq Chars /\ <<>> \in Text /\ <<"w">> \in Text
  BY DEF Values, Bytes, Chars, Text
<1>2. ASSUME NEW b \in Bytes PROVE <<b>> \in Text /\ Head(<<b>>) = b
  BY <1>1 DEF Text
<1> QED
  BY <1>1, <1>2 DEF Writes, FileItems

\* A line without its ending.
LEMMA ChopType ==
    ASSUME NEW s \in Text
    PROVE  ChopLineEnding(s) \in Text
<1> USE DEF Text
<1>1. Len(s) \in Nat
  OBVIOUS
<1>2. SubSeq(s, 1, Len(s) - 1) \in Text
  BY <1>1
<1>3. Len(s) > 1 => SubSeq(s, 1, Len(s) - 2) \in Text
  BY <1>1
<1> QED
  BY <1>1, <1>2, <1>3 DEF ChopLineEnding

\* What a stage puts.
LEMMA OutType ==
    ASSUME sent \in Seq(Outputs), outErr \in {"nil", "gone", "callback", "arity"}, NEW x \in Outputs, Out(x)
    PROVE  sent' \in Seq(Outputs) /\ outErr' \in {"nil", "gone", "callback", "arity"}
BY AppendSeq DEF Out

\* What the function of a stream builtin leaves.
LEMMA CallEachType ==
    ASSUME sent \in Seq(Outputs), outErr \in {"nil", "gone", "callback", "arity"}, NEW x \in Outputs, CallEach(x)
    PROVE  sent' \in Seq(Outputs) /\ outErr' \in {"nil", "gone", "callback", "arity"}
<1>1. CASE Out(x)
  BY <1>1, OutType
<1>2. CASE UNCHANGED outVars
  BY <1>2 DEF outVars
<1>3. CASE stage = "keepIf" /\ keepIf(x)
  BY <1>1, <1>2, <1>3 DEF keepIf
<1> QED
  BY <1>1, <1>2, <1>3 DEF CallEach

\* What comes out.
LEMMA ItemType ==
    ASSUME NEW v \in Text
    PROVE  /\ \A band \in {"value", "byte"} : Item(band, v) \in GotItems
           /\ \A band \in {"byte", "prefix", "repr", "newline"} : Item(band, v) \in FileItems
           /\ \A band : Item(band, v).band = band /\ Item(band, v).x = v
BY DEF Item, GotItems, FileItems

\* What a line that is read leaves.
LEMMA LineReadType ==
    ASSUME PortTypeOK, NEW s \in Text, NEW atEOF \in BOOLEAN, LineRead(s, atEOF)
    PROVE  /\ line' \in Text /\ got' \in Seq(GotItems) /\ sent' \in Seq(Outputs)
           /\ outErr' \in {"nil", "gone", "callback", "arity"}
           /\ byteRd' \in {"read", "hold", "holdLast", "done"}
           /\ byteRd' \in {"hold", "holdLast"} => stage \in Streams
<1> DEFINE x == ChopLineEnding(s)
<1>1. x \in Text /\ x \in Outputs
  BY ChopType DEF Outputs
<1>0. <<>> \in Text
  BY DEF Text
<1> HIDE DEF x
<1>2. CASE stage \in Streams
  <2>1. line' = s /\ byteRd' \in {"hold", "holdLast"} /\ UNCHANGED <<got, sent, outErr>>
    BY <1>2 DEF LineRead, outVars, Streams
  <2> QED
    BY <1>2, <2>1 DEF PortTypeOK
<1>3. CASE stage = "fromLines"
  <2>1. fromLines(x, IF atEOF THEN "done" ELSE "read")
    BY <1>3 DEF LineRead, x, Streams
  <2>2. sent' \in Seq(Outputs) /\ outErr' \in {"nil", "gone", "callback", "arity"}
    BY <1>1, <2>1, OutType DEF fromLines, PortTypeOK
  <2>3. line' = <<>> /\ got' = got /\ byteRd' \in {"read", "done"}
    BY <2>1 DEF fromLines
  <2> QED
    BY <1>0, <2>2, <2>3 DEF PortTypeOK
<1>4. CASE stage \notin Streams /\ stage # "fromLines"
  <2>1. /\ got' = Append(got, Item("byte", x)) /\ line' = <<>> /\ UNCHANGED outVars
        /\ byteRd' = IF stage = "readLine" THEN "done" ELSE IF atEOF THEN "done" ELSE "read"
    BY <1>4 DEF LineRead, x
  <2>2. got' \in Seq(GotItems)
    BY <1>1, <2>1, ItemType, AppendSeq DEF PortTypeOK
  <2>3. byteRd' \in {"read", "done"} /\ UNCHANGED <<sent, outErr>>
    BY <2>1 DEF outVars
  <2> QED
    BY <1>0, <2>1, <2>2, <2>3 DEF PortTypeOK
<1> QED
  BY <1>2, <1>3, <1>4

\* The variables of a port have their types in every state.
LEMMA PortTypeAlways == PortsSpec => []PortTypeOK
<1> DEFINE Errs == {"nil", "gone", "callback", "arity"}
<1>1. PortsInit => PortTypeOK
  <2> SUFFICES ASSUME PortsInit PROVE PortTypeOK
    OBVIOUS
  <2>1. /\ values = <<>> /\ text = <<>> /\ chan = <<>> /\ pipe = <<>> /\ line = <<>> /\ value = <<>>
        /\ got = <<>> /\ gotBytes = <<>> /\ sent = <<>> /\ outGone = FALSE /\ outErr = "nil"
        /\ stage \in Captures \cup Streams \cup Readers /\ writer \in {"open", "run"}
        /\ valueRd \in {"recv", "done"} /\ byteRd \in {"read", "done"}
    BY DEF PortsInit
  <2>2. (\A S : <<>> \in Seq(S)) /\ <<>> \in Text
    BY DEF Text
  <2> QED
    BY <2>1, <2>2 DEF PortTypeOK
<1>2. PortTypeOK /\ [PortsNext]_portVars => PortTypeOK'
  <2> SUFFICES ASSUME PortTypeOK, [PortsNext]_portVars PROVE PortTypeOK'
    OBVIOUS
  <2> USE DEF PortTypeOK, inVars, outVars, writerVars, readersSame
  <2>1. CASE OpenPort
    BY <2>1 DEF OpenPort
  <2>2. CASE ChooseWrite
    BY <2>2 DEF ChooseWrite
  <2>3. CASE Write
    <3>1. /\ writing \in Writes /\ writer' = "run"
          /\ UNCHANGED <<stage, outGone, outErr, sent, valueRd, value, byteRd, line, got>>
      BY <2>3 DEF Write
    <3>2. CASE writing.band = "value"
      <4>1. /\ values' = Append(values, writing.x) /\ chan' = Append(chan, writing.x)
            /\ UNCHANGED <<text, pipe, gotBytes>>
        BY <2>3, <3>2 DEF Write
      <4>2. values' \in Seq(Text) /\ chan' \in Seq(Text)
        BY WritesType, <3>1, <3>2, <4>1, AppendSeq
      <4> QED
        BY <3>1, <4>1, <4>2
    <3>3. CASE writing.band = "byte"
      <4>1. /\ text' = Append(text, Head(writing.x)) /\ UNCHANGED <<values, chan>>
            /\ \/ stage = "FilePort" /\ gotBytes' = Append(gotBytes, writing) /\ UNCHANGED pipe
               \/ stage # "FilePort" /\ pipe' = Append(pipe, Head(writing.x)) /\ UNCHANGED gotBytes
        BY <2>3, <3>3 DEF Write
      <4>2. Head(writing.x) \in Chars /\ writing \in FileItems
        BY WritesType, <3>1, <3>3
      <4>3. text' \in Text
        BY <4>1, <4>2, AppendSeq DEF Text
      <4>4. CASE stage = "FilePort" /\ gotBytes' = Append(gotBytes, writing) /\ UNCHANGED pipe
        <5>1. gotBytes' \in Seq(FileItems)
          BY <4>2, <4>4, AppendSeq
        <5> QED
          BY <3>1, <4>1, <4>3, <4>4, <5>1
      <4>5. CASE stage # "FilePort" /\ pipe' = Append(pipe, Head(writing.x)) /\ UNCHANGED gotBytes
        <5>1. pipe' \in Text
          BY <4>2, <4>5, AppendSeq DEF Text
        <5> QED
          BY <3>1, <4>1, <4>3, <4>5, <5>1
      <4> QED
        BY <4>1, <4>4, <4>5
    <3> QED
      BY WritesType, <3>1, <3>2, <3>3
  <2>4. CASE WriteStopped
    BY <2>4 DEF WriteStopped
  <2>5. CASE BgPut
    <3>1. UNCHANGED <<stage, writer, writing, text, pipe, gotBytes, outGone, outErr, sent, valueRd, value, byteRd,
                      line, got>>
      BY <2>5 DEF BgPut
    <3>2. \/ UNCHANGED <<chan, values>>
          \/ chan' = Append(chan, <<"w">>) /\ values' = Append(values, <<"w">>)
      BY <2>5 DEF BgPut
    <3>3. chan' \in Seq(Text) /\ values' \in Seq(Text)
      <4>1. \A s \in Seq(Text) : Append(s, <<"w">>) \in Seq(Text)
        BY WritesType, AppendSeq
      <4> QED
        BY <3>2, <4>1
    <3> QED
      BY <3>1, <3>3
  <2>6. CASE ClosePort
    BY <2>6 DEF ClosePort
  <2>7. CASE OutGone
    BY <2>7 DEF OutGone
  <2>8. CASE RecvValue
    <3>1. /\ UNCHANGED <<stage, writer, writing, values, text, pipe, byteRd, line, gotBytes, outGone>>
          /\ chan' \in Seq(Text) /\ Head(chan) \in Text
      BY <2>8, WritesType, TailSeq DEF RecvValue
    <3>2. CASE (stage = "FilePort" /\ Hold(Head(chan), "prefix")) \/ (stage \in Streams /\ Hold(Head(chan), "hold"))
      BY <3>1, <3>2 DEF Hold
    <3>3. CASE onlyValues(Head(chan))
      <4>1. sent' \in Seq(Outputs) /\ outErr' \in Errs
        BY <3>1, <3>3, OutType DEF onlyValues, Outputs
      <4> QED
        BY <3>1, <3>3, <4>1 DEF onlyValues, Outputs
    <3>4. CASE UNCHANGED <<valueRd, value, got, outVars>>
      BY <3>1, <3>4
    <3>5. CASE got' = Append(got, Item("value", Head(chan))) /\ UNCHANGED <<valueRd, value, outVars>>
      <4>1. got' \in Seq(GotItems)
        BY <3>1, <3>5, ItemType, AppendSeq
      <4> QED
        BY <3>1, <3>5, <4>1
    <3>6. CASE stage = "FilePort" \/ stage \in Streams
      <4>1. stage = "FilePort" => Hold(Head(chan), "prefix")
        BY <2>8 DEF RecvValue, Streams
      <4>2. stage \in Streams => Hold(Head(chan), "hold")
        BY <2>8 DEF RecvValue, Streams
      <4> QED
        BY <3>2, <3>6, <4>1, <4>2
    <3>7. CASE stage \in {"onlyValues", "onlyBytes"}
      BY <2>8, <3>3, <3>4, <3>7 DEF RecvValue, Streams
    <3>8. CASE stage # "FilePort" /\ stage \notin Streams \cup {"onlyValues", "onlyBytes"}
      BY <2>8, <3>5, <3>8 DEF RecvValue
    <3> QED
      BY <3>6, <3>7, <3>8
  <2>9. CASE WritePiece
    <3>1. /\ UNCHANGED <<stage, writer, writing, values, text, chan, pipe, value, byteRd, line, got, sent, outErr, outGone>>
          /\ valueRd' \in {"repr", "newline", "recv"} /\ stage = "FilePort"
      BY <2>9 DEF WritePiece
    <3>2. Item(valueRd, value) \in FileItems
      BY <2>9, ItemType DEF WritePiece
    <3>3. gotBytes' \in Seq(FileItems)
      BY <2>9, <3>1, <3>2, AppendSeq DEF WritePiece
    <3> QED
      BY <3>1, <3>3
  <2>10. CASE ValuesEnd
    BY <2>10 DEF ValuesEnd
  <2>11. CASE ReadByte
    <3>1. /\ UNCHANGED <<stage, writer, writing, values, text, chan, valueRd, value, outGone>>
          /\ pipe' \in Text /\ Head(pipe) \in Chars /\ stage # "FilePort"
      BY <2>11, TailSeq DEF ReadByte, ByLine, Streams, Text
    <3> DEFINE b == Head(pipe)  s == Append(line, b)
    <3>2. s \in Text /\ ChopLineEnding(s) \in Text
      <4>1. s \in Text
        BY <3>1, AppendSeq DEF Text
      <4> QED
        BY <4>1, ChopType
    <3>3. CASE line' = s /\ UNCHANGED <<byteRd, got, gotBytes, outVars>>
      BY <3>1, <3>2, <3>3
    <3>4. CASE LineRead(s, FALSE) /\ UNCHANGED gotBytes
      <4> HIDE DEF s
      <4>1. /\ line' \in Text /\ got' \in Seq(GotItems) /\ sent' \in Seq(Outputs) /\ outErr' \in Errs
            /\ byteRd' \in {"read", "hold", "holdLast", "done"} /\ (byteRd' \in {"hold", "holdLast"} => stage \in Streams)
        BY <3>2, <3>4, LineReadType
      <4> QED
        BY <3>1, <3>4, <4>1
    <3>5. CASE gotBytes' = Append(gotBytes, b) /\ UNCHANGED <<byteRd, line, got, outVars>>
      <4>1. gotBytes' \in Text
        BY <3>1, <3>5, AppendSeq DEF Text
      <4> QED
        BY <3>1, <3>5, <4>1
    <3>6. CASE onlyBytes(b)
      <4>1. sent' \in Seq(Outputs) /\ outErr' \in Errs
        BY <3>1, <3>6, OutType DEF onlyBytes, Outputs
      <4> QED
        BY <3>1, <3>6, <4>1 DEF onlyBytes
    <3>7. CASE UNCHANGED <<byteRd, line, got, gotBytes, outVars>>
      BY <3>1, <3>7
    <3> QED
      BY <2>11, <3>3, <3>4, <3>5, <3>6, <3>7 DEF ReadByte
  <2>12. CASE BytesEnd
    <3>1. UNCHANGED <<stage, writer, writing, values, text, chan, pipe, valueRd, value, outGone, gotBytes>>
      BY <2>12 DEF BytesEnd
    <3>2. CASE LineRead(line, TRUE)
      <4>1. /\ line' \in Text /\ got' \in Seq(GotItems) /\ sent' \in Seq(Outputs) /\ outErr' \in Errs
            /\ byteRd' \in {"read", "hold", "holdLast", "done"} /\ (byteRd' \in {"hold", "holdLast"} => stage \in Streams)
        BY <3>2, LineReadType
      <4> QED
        BY <3>1, <4>1
    <3>3. CASE byteRd' = "done" /\ UNCHANGED <<line, got, outVars>>
      BY <3>1, <3>3
    <3> QED
      BY <2>12, <3>2, <3>3 DEF BytesEnd
  <2>13. CASE TakeInput
    <3>1. UNCHANGED <<stage, writer, writing, values, text, chan, pipe, value, gotBytes, outGone>>
      BY <2>13 DEF TakeInput
    <3>2. ASSUME NEW x \in Text, NEW band \in {"value", "byte"}, CallEach(x), got' = Append(got, Item(band, x))
          PROVE  got' \in Seq(GotItems) /\ sent' \in Seq(Outputs) /\ outErr' \in Errs
      <4>1. sent' \in Seq(Outputs) /\ outErr' \in Errs
        BY <3>2, CallEachType DEF Outputs
      <4> QED
        BY <3>2, <4>1, ItemType, AppendSeq
    <3>3. CASE /\ valueRd = "hold" /\ valueRd' = "recv" /\ CallEach(value)
               /\ got' = Append(got, Item("value", value)) /\ UNCHANGED <<byteRd, line>>
      BY <3>1, <3>2, <3>3
    <3>4. CASE /\ byteRd \in {"hold", "holdLast"} /\ byteRd' = (IF byteRd = "hold" THEN "read" ELSE "done")
               /\ CallEach(ChopLineEnding(line)) /\ got' = Append(got, Item("byte", ChopLineEnding(line)))
               /\ line' = <<>> /\ UNCHANGED valueRd
      <4>1. got' \in Seq(GotItems) /\ sent' \in Seq(Outputs) /\ outErr' \in Errs
        BY <3>2, <3>4, ChopType
      <4>2. <<>> \in Text
        BY WritesType
      <4>3. line' \in Text /\ byteRd' \in {"read", "done"} /\ valueRd' = valueRd
        BY <3>4, <4>2
      <4> QED
        BY <3>1, <4>1, <4>3
    <3> QED
      BY <2>13, <3>3, <3>4 DEF TakeInput
  <2>14. CASE ReturnFromStage
    <3>1. UNCHANGED <<stage, writer, writing, values, text, chan, pipe, valueRd, value, byteRd, line, got, gotBytes,
                      outGone>>
      BY <2>14 DEF ReturnFromStage
    <3>2. sent' \in Seq(Outputs) /\ outErr' \in Errs
      <4>1. ASSUME NEW x \in Outputs, Out(x) PROVE sent' \in Seq(Outputs) /\ outErr' \in Errs
        BY <4>1, OutType
      <4>2. Len(got) \in Outputs /\ (stage = "slurp" => gotBytes \in Outputs) /\ (got # <<>> => got[1].x \in Outputs)
            /\ <<>> \in Outputs
        <5>1. Len(got) \in Nat /\ (got # <<>> => got[1] \in GotItems)
          BY ElemSeq
        <5>2. <<>> \in Text
          BY DEF Text
        <5> QED
          BY <5>1, <5>2 DEF Outputs, GotItems
      <4>3. \A x \in Outputs : Out(x) => sent' \in Seq(Outputs) /\ outErr' \in Errs
        BY <4>1
      <4>4. CASE stage = "one"
        <5>1. got = <<>> <=> Len(got) = 0
          BY ElemSeq
        <5> QED
          BY <2>14, <4>2, <4>3, <4>4, <5>1 DEF ReturnFromStage, AtEnd, one
      <4>5. CASE stage = "count"
        BY <2>14, <4>2, <4>3, <4>5 DEF ReturnFromStage, AtEnd, count
      <4>6. CASE stage = "slurp"
        BY <2>14, <4>2, <4>3, <4>6 DEF ReturnFromStage, AtEnd, slurp
      <4>7. CASE stage = "readLine"
        BY <2>14, <4>2, <4>3, <4>7 DEF ReturnFromStage, AtEnd, readLine
      <4>8. CASE stage \notin {"one", "count", "slurp", "readLine"}
        BY <2>14, <4>8 DEF ReturnFromStage, AtEnd
      <4> QED
        BY <4>4, <4>5, <4>6, <4>7, <4>8
    <3> QED
      BY <3>1, <3>2
  <2>15. CASE UNCHANGED portVars
    BY <2>15 DEF portVars
  <2> QED
    BY <2>1, <2>2, <2>3, <2>4, <2>5, <2>6, <2>7, <2>8, <2>9, <2>10, <2>11, <2>12, <2>13, <2>14, <2>15
       DEF PortsNext, WriterStep, ValueReader, ByteReader, StageStep
<1> QED
  BY <1>1, <1>2, PTL DEF PortsSpec

\* What a call of the function of a stream builtin does to its output.
LEMMA CallEachCases ==
    ASSUME NEW x, CallEach(x)
    PROVE  \/ UNCHANGED <<sent, outErr>>
           \/ sent' = Append(sent, x) /\ UNCHANGED outErr /\ outErr = "nil"
           \/ outGone /\ outErr' = "gone" /\ UNCHANGED sent /\ outErr = "nil"
           \/ stage = "keepIf" /\ outErr' = "callback" /\ UNCHANGED sent /\ outErr = "nil"
BY DEF CallEach, keepIf, Out, outVars

\* Each stage meets only its own errors, and ends its reading as they say, in every state.
LEMMA StageOKAlways == PortsSpec => []StageOK
<1>1. PortsInit => StageOK
  BY DEF PortsInit, StageOK, IgnoresValues, IsCapture, Captures
<1>2. PortTypeOK /\ BandsEnd /\ StageOK /\ [PortsNext]_portVars => StageOK'
  <2> SUFFICES ASSUME PortTypeOK, BandsEnd, StageOK, [PortsNext]_portVars PROVE StageOK'
    OBVIOUS
  <2> USE DEF StageOK, ValuesOver, BytesOver, inVars, outVars, writerVars, readersSame, IsCapture
  <2>1. CASE OpenPort
    BY <2>1 DEF OpenPort, Captures
  <2>2. CASE ChooseWrite
    BY <2>2 DEF ChooseWrite
  <2>3. CASE Write
    BY <2>3 DEF Write, BandsEnd
  <2>4. CASE WriteStopped
    BY <2>4 DEF WriteStopped
  <2>5. CASE BgPut
    BY <2>5 DEF BgPut
  <2>6. CASE ClosePort
    <3>1. UNCHANGED <<stage, chan, pipe, main, valueRd, byteRd, outGone, outErr, sent>> /\ writer' # "open"
      BY <2>6 DEF ClosePort
    <3>2. CASE writer = "close"
      <4>1. chanOpen /\ fileOpen /\ chanOpen' = chanOpen
        BY <2>6, <3>2 DEF ClosePort, BandsEnd
      <4> QED
        BY <3>1, <4>1
    <3>3. CASE writer = "closeChan"
      BY <2>6, <3>1, <3>3 DEF ClosePort
    <3> QED
      BY <2>6, <3>2, <3>3 DEF ClosePort
  <2>7. CASE OutGone
    BY <2>7 DEF OutGone
  <2>8. CASE RecvValue
    BY <2>8 DEF RecvValue, Hold, onlyValues, Out, Streams
  <2>9. CASE WritePiece
    BY <2>9 DEF WritePiece, PortTypeOK
  <2>10. CASE ValuesEnd
    BY <2>10 DEF ValuesEnd
  <2>11. CASE ReadByte
    BY <2>11 DEF ReadByte, ByLine, LineRead, fromLines, onlyBytes, Out, Streams
  <2>12. CASE BytesEnd
    BY <2>12 DEF BytesEnd, LineRead, fromLines, Out, Streams
  <2>13. CASE TakeInput
    BY <2>13, CallEachCases DEF TakeInput, Streams, PortTypeOK, CallEach
  <2>14. CASE ReturnFromStage
    BY <2>14 DEF ReturnFromStage, AtEnd, one, count, slurp, readLine, Out
  <2>15. CASE UNCHANGED portVars
    BY <2>15 DEF portVars
  <2> QED
    BY <2>1, <2>2, <2>3, <2>4, <2>5, <2>6, <2>7, <2>8, <2>9, <2>10, <2>11, <2>12, <2>13, <2>14, <2>15
       DEF PortsNext, WriterStep, ValueReader, ByteReader, StageStep
<1> QED
  BY <1>1, <1>2, PortTypeAlways, BandsEndAlways, PTL DEF PortsSpec

-----------------------------------------------------------------------------
(* What is in the bands, and what has come out of them.                    *)

\* The steps other than writes, those of the goroutines that read, and the end of the stage.
LEMMA QuietSteps ==
    ASSUME [PortsNext]_portVars
    PROVE  \/ Write \/ BgPut \/ RecvValue \/ WritePiece \/ ReadByte \/ BytesEnd \/ TakeInput \/ ReturnFromStage
           \/ /\ UNCHANGED <<stage, values, text, chan, pipe, value, line, got, gotBytes, outErr, sent>>
              /\ \/ UNCHANGED <<valueRd, byteRd, main, fileOpen, chanOpen>>
                 \/ OpenPort \/ ClosePort \/ ValuesEnd
<1> USE DEF inVars, outVars, writerVars, readersSame
<1>1. CASE OpenPort
  BY <1>1 DEF OpenPort
<1>2. CASE ChooseWrite
  BY <1>2 DEF ChooseWrite
<1>3. CASE WriteStopped
  BY <1>3 DEF WriteStopped
<1>4. CASE ClosePort
  BY <1>4 DEF ClosePort
<1>5. CASE OutGone
  BY <1>5 DEF OutGone
<1>6. CASE ValuesEnd
  BY <1>6 DEF ValuesEnd
<1>7. CASE UNCHANGED portVars
  BY <1>7 DEF portVars
<1> QED
  BY <1>1, <1>2, <1>3, <1>4, <1>5, <1>6, <1>7 DEF PortsNext, WriterStep, ValueReader, ByteReader, StageStep

\* No step changes what reads the port.
LEMMA StageFixed ==
    ASSUME [PortsNext]_portVars
    PROVE  stage' = stage
BY QuietSteps DEF Write, BgPut, RecvValue, WritePiece, ReadByte, BytesEnd, TakeInput, ReturnFromStage, writerVars

\* What is left of a sequence, when an element is added.
LEMMA RestGrows ==
    ASSUME NEW S, NEW r \in Seq(S), NEW s \in Seq(S), NEW e \in S, Rest(r, s)
    PROVE  /\ Rest(Append(r, e), Append(s, e))
           /\ Len(Append(s, e)) - Len(Append(r, e)) = Len(s) - Len(r)
<1> DEFINE r1 == Append(r, e)  s1 == Append(s, e)
<1>1. /\ Len(r1) = Len(r) + 1 /\ Len(r) \in Nat /\ r1[Len(r) + 1] = e /\ \A i \in 1..Len(r) : r1[i] = r[i]
      /\ Len(s1) = Len(s) + 1 /\ Len(s) \in Nat /\ s1[Len(s) + 1] = e /\ \A i \in 1..Len(s) : s1[i] = s[i]
  BY AppendSeq
<1> HIDE DEF r1, s1
<1>2. Len(s1) - Len(r1) = Len(s) - Len(r) /\ Len(r1) <= Len(s1)
  BY <1>1 DEF Rest
<1>3. ASSUME NEW k \in 1..Len(r1) PROVE r1[k] = s1[Len(s1) - Len(r1) + k]
  <2>1. CASE k = Len(r1)
    BY <1>1, <1>2, <2>1
  <2>2. CASE k # Len(r1)
    <3>1. k \in 1..Len(r) /\ r1[k] = r[k]
      BY <1>1, <2>2
    <3>2. r[k] = s[Len(s) - Len(r) + k] /\ Len(s) - Len(r) + k \in 1..Len(s)
      BY <1>1, <3>1 DEF Rest
    <3> QED
      BY <1>1, <1>2, <3>1, <3>2
  <2> QED
    BY <2>1, <2>2
<1> QED
  BY <1>2, <1>3 DEF Rest, r1, s1

\* What is left of a sequence, when the first of it is taken.
LEMMA RestShrinks ==
    ASSUME NEW S, NEW r \in Seq(S), NEW s \in Seq(S), r # <<>>, Rest(r, s)
    PROVE  /\ Rest(Tail(r), s) /\ Len(s) - Len(Tail(r)) = Len(s) - Len(r) + 1
           /\ Head(r) = s[Len(s) - Len(r) + 1] /\ Len(s) - Len(r) + 1 \in 1..Len(s) /\ Len(Tail(r)) <= Len(s)
<1> DEFINE t == Tail(r)
<1>1. /\ Len(r) \in Nat \ {0} /\ Len(t) = Len(r) - 1 /\ Head(r) = r[1] /\ \A i \in 1..Len(r) - 1 : t[i] = r[i + 1]
      /\ Len(s) \in Nat
  BY TailSeq
<1> HIDE DEF t
<1>2. ASSUME NEW k \in 1..Len(t) PROVE t[k] = s[Len(s) - Len(t) + k]
  <2>1. t[k] = r[k + 1] /\ k + 1 \in 1..Len(r) /\ Len(s) - Len(r) + (k + 1) = Len(s) - Len(t) + k
    BY <1>1
  <2> QED
    BY <2>1 DEF Rest
<1> QED
  BY <1>1, <1>2 DEF Rest, t

\* What is in a band is what was written to it and has not been received.
LEMMA BandRestsAlways == PortsSpec => []BandRests
<1>1. PortsInit => BandRests
  <2> SUFFICES ASSUME PortsInit PROVE BandRests
    OBVIOUS
  <2>1. values = <<>> /\ chan = <<>> /\ pipe = <<>> /\ text = <<>> /\ valueRd \in {"recv", "done"}
    BY DEF PortsInit
  <2>2. Rest(<<>>, <<>>)
    BY DEF Rest
  <2> QED
    BY <2>1, <2>2 DEF BandRests
<1>2. PortTypeOK /\ StageOK /\ BandRests /\ [PortsNext]_portVars => BandRests'
  <2> SUFFICES ASSUME PortTypeOK, StageOK, BandRests, [PortsNext]_portVars PROVE BandRests'
    OBVIOUS
  <2> USE DEF BandRests, Received, inVars, outVars, writerVars, readersSame
  <2>a. /\ values \in Seq(Text) /\ chan \in Seq(Text) /\ text \in Seq(Chars) /\ pipe \in Seq(Chars)
        /\ Len(values) \in Nat /\ Len(chan) \in Nat /\ Len(chan) <= Len(values)
    BY ElemSeq DEF PortTypeOK, Text, Rest
  <2>b. ASSUME NEW v \in Text, chan' = Append(chan, v), values' = Append(values, v),
               UNCHANGED <<stage, text, pipe, valueRd, value>>
        PROVE  BandRests'
    <3>1. Rest(chan', values') /\ Received' = Received
      BY <2>a, <2>b, RestGrows
    <3>2. Received \in 0..Len(values) /\ \A i \in 1..Len(values) : values'[i] = values[i]
      BY <2>a, <2>b, AppendSeq
    <3> QED
      BY <2>b, <3>1, <3>2
  <2>3. CASE Write
    <3>1. writing \in Writes /\ UNCHANGED <<stage, valueRd, value>>
      BY <2>3 DEF Write, PortTypeOK
    <3>2. CASE writing.band = "value"
      <4>1. values' = Append(values, writing.x) /\ chan' = Append(chan, writing.x) /\ UNCHANGED <<text, pipe>>
        BY <2>3, <3>2 DEF Write
      <4> QED
        BY <2>b, <3>1, <3>2, <4>1, WritesType
    <3>3. CASE writing.band = "byte"
      <4>1. UNCHANGED <<values, chan>>
        BY <2>3, <3>3 DEF Write
      <4>2. stage # "FilePort" => pipe' = Append(pipe, Head(writing.x)) /\ text' = Append(text, Head(writing.x))
        BY <2>3, <3>3 DEF Write
      <4>3. Head(writing.x) \in Chars
        BY <3>1, <3>3, WritesType
      <4>4. stage # "FilePort" => Rest(Append(pipe, Head(writing.x)), Append(text, Head(writing.x)))
        BY <2>a, <4>3, RestGrows
      <4> QED
        BY <3>1, <4>1, <4>2, <4>4
    <3> QED
      BY <3>1, <3>2, <3>3, WritesType
  <2>5. CASE BgPut
    <3>1. UNCHANGED <<stage, text, pipe, valueRd, value>>
      BY <2>5 DEF BgPut
    <3>2. \/ UNCHANGED <<chan, values>>
          \/ chan' = Append(chan, <<"w">>) /\ values' = Append(values, <<"w">>)
      BY <2>5 DEF BgPut
    <3>3. <<"w">> \in Text
      BY WritesType
    <3> QED
      BY <2>b, <3>1, <3>2, <3>3
  <2>8. CASE RecvValue
    <3>1. chan # <<>> /\ chan' = Tail(chan) /\ UNCHANGED <<stage, values, text, pipe>>
      BY <2>8 DEF RecvValue
    <3>2. Rest(chan', values') /\ Received' = Received + 1 /\ Head(chan) = values[Received + 1] /\ Received' >= 1
      BY <2>a, <3>1, RestShrinks
    <3>3. valueRd' \in {"hold", "prefix", "repr", "newline"} => value' = Head(chan)
      BY <2>8 DEF RecvValue, Hold, onlyValues
    <3> QED
      BY <3>1, <3>2, <3>3
  <2>11. CASE ReadByte
    <3>1. pipe # <<>> /\ pipe' = Tail(pipe) /\ UNCHANGED <<stage, values, chan, text, valueRd, value>>
      BY <2>11 DEF ReadByte
    <3>2. stage # "FilePort" => Rest(pipe', text')
      BY <2>a, <3>1, RestShrinks
    <3> QED
      BY <3>1, <3>2
  <2>12. CASE UNCHANGED <<stage, values, chan, text, pipe, value>> /\ (valueRd' = valueRd \/ valueRd' \in {"recv", "done"})
    BY <2>12
  <2>13. CASE WritePiece
    BY <2>13 DEF WritePiece
  <2>14. CASE BytesEnd
    BY <2>12, <2>14 DEF BytesEnd
  <2>15. CASE TakeInput
    BY <2>12, <2>15 DEF TakeInput
  <2>16. CASE ReturnFromStage
    BY <2>12, <2>16 DEF ReturnFromStage
  <2>17. CASE OpenPort \/ ClosePort \/ ValuesEnd
    BY <2>12, <2>17 DEF OpenPort, ClosePort, ValuesEnd
  <2> QED
    BY <2>3, <2>5, <2>8, <2>11, <2>12, <2>13, <2>14, <2>15, <2>16, <2>17, QuietSteps
<1> QED
  BY <1>1, <1>2, PortTypeAlways, StageOKAlways, PTL DEF PortsSpec

\* One more item on the band b, or on another one.
LEMMA DeliversStep ==
    ASSUME NEW T, NEW items \in Seq(T), NEW it \in T, NEW b, NEW s, Delivers(items, From(items, b), s)
    PROVE  LET size == Cardinality(From(items, b))
               items1 == Append(items, it)
           IN  /\ size \in Nat
               /\ it.band # b => Delivers(items1, From(items1, b), s) /\ Cardinality(From(items1, b)) = size
               /\ it.band = b /\ size + 1 \in DOMAIN s /\ it.x = s[size + 1] =>
                    Delivers(items1, From(items1, b), s) /\ Cardinality(From(items1, b)) = size + 1
<1> DEFINE S == From(items, b)
<1>1. Len(items) \in Nat /\ S \subseteq 1..Len(items)
  BY FromAppend, ElemSeq
<1>2. From(Append(items, it), b) = IF it.band = b THEN S \cup {Len(items) + 1} ELSE S
  BY FromAppend
<1>3. Cardinality(S) \in Nat /\ Cardinality(S \cup {Len(items) + 1}) = Cardinality(S) + 1
  BY <1>1, RankAdd
<1>4. /\ Delivers(Append(items, it), S, s)
      /\ Cardinality(S) + 1 \in DOMAIN s /\ it.x = s[Cardinality(S) + 1] =>
           Delivers(Append(items, it), S \cup {Len(items) + 1}, s)
  BY <1>1, DeliversNext
<1> HIDE DEF S
<1>6. it.band = b => From(Append(items, it), b) = S \cup {Len(items) + 1}
  BY <1>2
<1>7. CASE it.band = b
  BY <1>3, <1>4, <1>6, <1>7 DEF S
<1>8. CASE it.band # b
  BY <1>2, <1>3, <1>4, <1>8 DEF S
<1> QED
  BY <1>7, <1>8

\* A line that is read comes out at once, is held for the function of a stream builtin, or is
\* put by from-lines.
LEMMA LineReadCases ==
    ASSUME NEW s \in Text, NEW atEOF, LineRead(s, atEOF)
    PROVE  \/ /\ stage \in Streams /\ line' = s /\ byteRd' = (IF atEOF THEN "holdLast" ELSE "hold")
              /\ UNCHANGED <<got, sent, outErr>>
           \/ stage = "fromLines" /\ fromLines(ChopLineEnding(s), IF atEOF THEN "done" ELSE "read")
           \/ /\ stage \notin Streams \cup {"fromLines"}
              /\ got' = Append(got, Item("byte", ChopLineEnding(s))) /\ line' = <<>>
              /\ byteRd' = (IF stage = "readLine" \/ atEOF THEN "done" ELSE "read")
              /\ UNCHANGED <<sent, outErr>>
<1>1. CASE stage \in Streams
  BY <1>1 DEF LineRead, Streams, outVars
<1>2. CASE stage = "fromLines"
  BY <1>2 DEF LineRead, Streams
<1>3. CASE stage \notin Streams \cup {"fromLines"}
  BY <1>3 DEF LineRead, outVars
<1> QED
  BY <1>1, <1>2, <1>3

\* What the goroutine that reads bytes does to what has come out.
LEMMA BytesGive ==
    ASSUME PortTypeOK, ReadByte \/ BytesEnd
    PROVE  /\ UNCHANGED <<stage, values, text, chan, valueRd, value, main>>
           /\ got' = got \/ \E x \in Text : got' = Append(got, Item("byte", x))
<1>0. UNCHANGED <<stage, values, text, chan, valueRd, value, main>>
  BY DEF ReadByte, BytesEnd, writerVars
<1>1. ASSUME NEW s \in Text, NEW atEOF, LineRead(s, atEOF)
      PROVE  got' = got \/ \E x \in Text : got' = Append(got, Item("byte", x))
  BY <1>1, LineReadCases, ChopType DEF fromLines
<1>2. CASE ReadByte
  <2>1. pipe # <<>> => Append(line, Head(pipe)) \in Text
    BY AppendSeq, TailSeq DEF PortTypeOK, Text
  <2> QED
    BY <1>0, <1>1, <1>2, <2>1 DEF ReadByte, onlyBytes
<1>3. CASE BytesEnd
  BY <1>0, <1>1, <1>3 DEF BytesEnd, PortTypeOK
<1> QED
  BY <1>2, <1>3

\* What has come out of the value band is the values received so far, in every state.
LEMMA ValuesGotAlways == PortsSpec => []ValuesGot
<1>1. PortsInit => ValuesGot
  <2> SUFFICES ASSUME PortsInit PROVE ValuesGot
    OBVIOUS
  <2>1. values = <<>> /\ chan = <<>> /\ got = <<>> /\ valueRd \in {"recv", "done"}
    BY DEF PortsInit
  <2>2. From(got, "value") = {} /\ Cardinality({}) = 0
    BY <2>1, FS_EmptySet DEF From
  <2> QED
    BY <2>1, <2>2 DEF ValuesGot, Delivers, Received
<1>2. PortTypeOK /\ StageOK /\ BandRests /\ ValuesGot /\ [PortsNext]_portVars => ValuesGot'
  <2> SUFFICES ASSUME PortTypeOK, StageOK, BandRests, ValuesGot, [PortsNext]_portVars, ReadsValues' PROVE ValuesGot'
    BY DEF ValuesGot
  <2> DEFINE size == Cardinality(From(got, "value"))
  <2>0. stage' = stage /\ ReadsValues
    <3>1. stage' = stage
      BY StageFixed
    <3> QED
      BY <3>1 DEF ReadsValues
  <2>a. /\ values \in Seq(Text) /\ chan \in Seq(Text) /\ got \in Seq(GotItems)
        /\ Len(values) \in Nat /\ Len(chan) \in Nat /\ Len(chan) <= Len(values)
        /\ Delivers(got, From(got, "value"), values) /\ size = Received - (IF valueRd = "hold" THEN 1 ELSE 0)
        /\ DOMAIN values = 1..Len(values)
    BY <2>0, ElemSeq DEF PortTypeOK, BandRests, Rest, ValuesGot
  <2> USE DEF ValuesGot
  <2>b. ASSUME NEW v \in Text, chan' = Append(chan, v), values' = Append(values, v), UNCHANGED <<valueRd, got>>
        PROVE  ValuesGot'
    <3>1. Received' = Received
      BY <2>a, <2>b, AppendSeq DEF Received
    <3>2. Delivers(got, From(got, "value"), values')
      BY <2>a, <2>b, DeliversMore
    <3> QED
      BY <2>a, <2>b, <3>1, <3>2
  <2>c. ASSUME NEW x \in Text, got' = Append(got, Item("byte", x)), UNCHANGED <<values, chan, valueRd>>
        PROVE  ValuesGot'
    <3>1. Item("byte", x) \in GotItems /\ Item("byte", x).band = "byte"
      BY <2>c, ItemType
    <3>2. Delivers(got', From(got', "value"), values) /\ Cardinality(From(got', "value")) = size
      BY <2>a, <2>c, <3>1, DeliversStep
    <3> QED
      BY <2>a, <2>c, <3>2 DEF Received
  <2>d. ASSUME NEW x \in Text, got' = Append(got, Item("value", x)), size + 1 \in 1..Len(values), x = values[size + 1],
               values' = values, size + 1 = Received' - (IF valueRd' = "hold" THEN 1 ELSE 0)
        PROVE  ValuesGot'
    <3>1. Item("value", x) \in GotItems /\ Item("value", x).band = "value" /\ Item("value", x).x = x
      BY <2>d, ItemType
    <3>2. Delivers(got', From(got', "value"), values) /\ Cardinality(From(got', "value")) = size + 1
      BY <2>a, <2>d, <3>1, DeliversStep
    <3> QED
      BY <2>d, <3>2
  <2>e. CASE UNCHANGED <<values, chan, got>> /\ (valueRd' = "hold" <=> valueRd = "hold")
    BY <2>a, <2>e DEF Received
  <2>3. CASE Write
    <3>1. writing \in Writes /\ UNCHANGED <<valueRd, got>>
      BY <2>3 DEF Write, PortTypeOK, readersSame
    <3>2. CASE writing.band = "value"
      <4>1. values' = Append(values, writing.x) /\ chan' = Append(chan, writing.x)
        BY <2>3, <3>2 DEF Write
      <4> QED
        BY <2>b, <3>1, <3>2, <4>1, WritesType
    <3>3. CASE writing.band = "byte"
      BY <2>3, <2>e, <3>1, <3>3 DEF Write
    <3> QED
      BY <3>1, <3>2, <3>3, WritesType
  <2>4. CASE BgPut
    <3>1. /\ UNCHANGED <<valueRd, got>>
          /\ \/ UNCHANGED <<chan, values>>
             \/ chan' = Append(chan, <<"w">>) /\ values' = Append(values, <<"w">>)
      BY <2>4 DEF BgPut, readersSame
    <3>2. <<"w">> \in Text
      BY WritesType
    <3> QED
      BY <2>b, <2>e, <3>1, <3>2
  <2>5. CASE RecvValue
    <3>1. valueRd = "recv" /\ chan # <<>> /\ chan' = Tail(chan) /\ UNCHANGED values
      BY <2>5 DEF RecvValue, writerVars
    <3>2. /\ Received' = Received + 1 /\ Received + 1 \in 1..Len(values)
          /\ Head(chan) = values[Received + 1] /\ Head(chan) \in Text
      BY <2>a, <3>1, RestShrinks, TailSeq DEF BandRests, Received
    <3>3. size = Received /\ Received \in Nat
      BY <2>a, <3>1 DEF Received
    <3>4. CASE stage \in Streams
      <4>1. valueRd' = "hold" /\ got' = got
        BY <2>5, <3>4 DEF RecvValue, Hold, Streams
      <4> QED
        BY <2>a, <3>1, <3>2, <3>3, <4>1
    <3>5. CASE stage \notin Streams
      <4>1. got' = Append(got, Item("value", Head(chan))) /\ valueRd' = "recv"
        BY <2>0, <2>5, <3>1, <3>5 DEF RecvValue, ReadsValues, Streams
      <4> QED
        BY <2>d, <3>1, <3>2, <3>3, <4>1
    <3> QED
      BY <3>4, <3>5
  <2>6. CASE WritePiece
    BY <2>0, <2>6 DEF WritePiece, PortTypeOK, ReadsValues, Streams
  <2>7. CASE ReadByte \/ BytesEnd
    BY <2>7, <2>c, <2>e, BytesGive
  <2>8. CASE TakeInput
    <3>1. UNCHANGED <<values, chan>>
      BY <2>8 DEF TakeInput, writerVars
    <3>2. CASE valueRd = "hold" /\ valueRd' = "recv" /\ got' = Append(got, Item("value", value))
      <4>1. size + 1 = Received /\ Received >= 1 /\ value = values[Received] /\ Received <= Len(values) /\ Received' = Received
            /\ Received \in Nat
        BY <2>a, <3>1, <3>2 DEF BandRests, Received
      <4> QED
        BY <2>d, <3>1, <3>2, <4>1 DEF PortTypeOK
    <3>3. CASE got' = Append(got, Item("byte", ChopLineEnding(line))) /\ UNCHANGED valueRd
      BY <2>c, <3>1, <3>3, ChopType DEF PortTypeOK
    <3> QED
      BY <2>8, <3>2, <3>3 DEF TakeInput
  <2>9. CASE ReturnFromStage
    BY <2>9, <2>e DEF ReturnFromStage, inVars, readersSame
  <2>10. CASE OpenPort
    <3>1. valueRd # "hold"
      BY <2>10 DEF OpenPort, StageOK, PortTypeOK, IsCapture, Captures, Streams
    <3> QED
      BY <2>10, <2>e, <3>1 DEF OpenPort, inVars
  <2>11. CASE ClosePort \/ ValuesEnd
    BY <2>11, <2>e DEF ClosePort, ValuesEnd, readersSame, writerVars
  <2> QED
    BY <2>e, <2>3, <2>4, <2>5, <2>6, <2>7, <2>8, <2>9, <2>10, <2>11, QuietSteps
<1> QED
  BY <1>1, <1>2, PortTypeAlways, StageOKAlways, BandRestsAlways, PTL DEF PortsSpec

\* A sequence that starts another, when either gets one more element.
LEMMA StartsStep ==
    ASSUME NEW P, NEW p \in Seq(P), NEW S, NEW s \in Seq(S), Starts(p, s)
    PROVE  /\ Len(p) \in Nat /\ Len(s) \in Nat
           /\ \A e \in S : Starts(p, Append(s, e))
           /\ \A e \in P : Len(p) + 1 <= Len(s) /\ e = s[Len(p) + 1] => Starts(Append(p, e), s)
<1>1. Len(p) \in Nat /\ Len(s) \in Nat /\ Len(p) <= Len(s)
  BY ElemSeq DEF Starts
<1>2. ASSUME NEW e \in S PROVE Starts(p, Append(s, e))
  <2>1. Len(Append(s, e)) = Len(s) + 1 /\ \A i \in 1..Len(s) : Append(s, e)[i] = s[i]
    BY AppendSeq
  <2> QED
    BY <1>1, <2>1 DEF Starts
<1>3. ASSUME NEW e \in P, Len(p) + 1 <= Len(s), e = s[Len(p) + 1] PROVE Starts(Append(p, e), s)
  <2>1. /\ Len(Append(p, e)) = Len(p) + 1 /\ Append(p, e)[Len(p) + 1] = e
        /\ \A i \in 1..Len(p) : Append(p, e)[i] = p[i]
    BY AppendSeq
  <2> QED
    BY <1>1, <1>3, <2>1 DEF Starts
<1> QED
  BY <1>1, <1>2, <1>3

\* The bytes so far, when one is written and when one is read.
LEMMA ByteWritten ==
    ASSUME PortTypeOK, BandRests, Write, stage # "FilePort"
    PROVE  \/ UNCHANGED <<text, pipe>>
           \/ \E b \in Chars : text' = Append(text, b) /\ pipe' = Append(pipe, b) /\ ReadSoFar' = ReadSoFar
<1>1. CASE writing.band = "value"
  BY <1>1 DEF Write
<1>2. CASE writing.band = "byte"
  <2> DEFINE b == Head(writing.x)
  <2>1. text' = Append(text, b) /\ pipe' = Append(pipe, b)
    BY <1>2 DEF Write
  <2>2. b \in Chars
    BY <1>2, WritesType DEF Write, PortTypeOK
  <2> HIDE DEF b
  <2>3. ReadSoFar' = ReadSoFar
    BY <2>1, <2>2, RestGrows DEF ReadSoFar, PortTypeOK, BandRests, Text
  <2> QED
    BY <2>1, <2>2, <2>3
<1> QED
  BY <1>1, <1>2 DEF Write

\* The byte that is read next is the one after those read so far.
LEMMA ByteTaken ==
    ASSUME PortTypeOK, BandRests, ReadByte
    PROVE  /\ text' = text /\ stage # "FilePort" /\ ReadSoFar' = ReadSoFar + 1 /\ Head(pipe) = text[ReadSoFar + 1]
           /\ Head(pipe) \in Chars /\ ReadSoFar \in Nat /\ ReadSoFar + 1 \in 1..Len(text)
<1>1. pipe # <<>> /\ pipe' = Tail(pipe) /\ text' = text
  BY DEF ReadByte, writerVars
<1>2. stage # "FilePort"
  BY DEF ReadByte, ByLine, Streams
<1>3. pipe \in Seq(Chars) /\ text \in Seq(Chars) /\ Rest(pipe, text) /\ Len(pipe) \in Nat /\ Len(text) \in Nat
  BY <1>2, ElemSeq DEF PortTypeOK, Text, BandRests
<1>4. Head(pipe) \in Chars
  BY <1>1, <1>3, TailSeq
<1>5. ReadSoFar \in Nat
  BY <1>3 DEF Rest, ReadSoFar
<1> QED
  BY <1>1, <1>2, <1>3, <1>4, <1>5, RestShrinks DEF ReadSoFar

\* A capture and slurp have the bytes that have been read so far, in every state.
LEMMA BytesGotAlways == PortsSpec => []BytesGot
<1>1. PortsInit => BytesGot
  BY DEF PortsInit, BytesGot, Starts, ReadSoFar
<1>2. PortTypeOK /\ BandRests /\ BytesGot /\ [PortsNext]_portVars => BytesGot'
  <2> SUFFICES ASSUME PortTypeOK, BandRests, BytesGot, [PortsNext]_portVars, stage' \in {"CapturePort", "slurp"}
               PROVE  BytesGot'
    BY DEF BytesGot
  <2>0. stage' = stage /\ stage \in {"CapturePort", "slurp"}
    BY StageFixed
  <2>a. /\ text \in Seq(Chars) /\ gotBytes \in Seq(Chars) /\ pipe \in Seq(Chars)
        /\ Starts(gotBytes, text) /\ Len(gotBytes) = ReadSoFar
    BY <2>0 DEF PortTypeOK, Text, BytesGot
  <2> USE DEF BytesGot
  <2>1. CASE UNCHANGED <<text, pipe, gotBytes>>
    BY <2>a, <2>1 DEF ReadSoFar
  <2>2. CASE Write
    <3>1. gotBytes' = gotBytes
      BY <2>0, <2>2 DEF Write
    <3>2. ASSUME NEW b \in Chars, text' = Append(text, b), ReadSoFar' = ReadSoFar PROVE BytesGot'
      BY <2>a, <3>1, <3>2, StartsStep
    <3> QED
      BY <2>0, <2>1, <2>2, <3>1, <3>2, ByteWritten
  <2>3. CASE ReadByte
    <3>1. gotBytes' = Append(gotBytes, Head(pipe))
      BY <2>0, <2>3 DEF ReadByte, ByLine, Streams
    <3> DEFINE b == Head(pipe)
    <3>2. /\ text' = text /\ ReadSoFar' = ReadSoFar + 1 /\ b = text[ReadSoFar + 1] /\ b \in Chars
          /\ ReadSoFar + 1 <= Len(text)
      BY <2>3, ByteTaken
    <3> HIDE DEF b
    <3>3. Starts(Append(gotBytes, b), text)
      BY <2>a, <3>2, StartsStep
    <3>4. Len(Append(gotBytes, b)) = Len(gotBytes) + 1
      BY <2>a, <3>2, AppendSeq
    <3> QED
      BY <2>a, <3>1, <3>2, <3>3, <3>4 DEF b
  <2>4. CASE BgPut
    BY <2>1, <2>4 DEF BgPut
  <2>5. CASE RecvValue
    BY <2>1, <2>5 DEF RecvValue, writerVars
  <2>6. CASE WritePiece
    BY <2>0, <2>6 DEF WritePiece, PortTypeOK
  <2>7. CASE BytesEnd \/ TakeInput
    BY <2>1, <2>7 DEF BytesEnd, TakeInput, writerVars
  <2>8. CASE ReturnFromStage
    BY <2>1, <2>8 DEF ReturnFromStage, inVars
  <2> QED
    BY <2>1, <2>2, <2>3, <2>4, <2>5, <2>6, <2>7, <2>8, QuietSteps
<1> QED
  BY <1>1, <1>2, PortTypeAlways, BandRestsAlways, PTL DEF PortsSpec

\* only-bytes and only-values have put what they have received, up to an error.
LEMMA PassedSoFarAlways == PortsSpec => []PassedSoFar
<1>1. PortsInit => PassedSoFar
  BY DEF PortsInit, PassedSoFar, Starts, ReadSoFar, Received
<1>2. PortTypeOK /\ StageOK /\ BandRests /\ PassedSoFar /\ [PortsNext]_portVars => PassedSoFar'
  <2> SUFFICES ASSUME PortTypeOK, StageOK, BandRests, PassedSoFar, [PortsNext]_portVars,
                      stage' \in {"onlyBytes", "onlyValues"}
               PROVE  PassedSoFar'
    BY DEF PassedSoFar
  <2>0. stage' = stage /\ stage \in {"onlyBytes", "onlyValues"}
    BY StageFixed
  <2>a. /\ text \in Seq(Chars) /\ values \in Seq(Text) /\ chan \in Seq(Text) /\ sent \in Seq(Outputs)
        /\ Len(sent) \in Nat /\ Len(chan) \in Nat /\ Len(values) \in Nat
    BY ElemSeq DEF PortTypeOK, Text
  <2> USE DEF PassedSoFar
  <2>1. CASE UNCHANGED <<text, values, chan, pipe, sent, outErr>>
    BY <2>0, <2>1 DEF ReadSoFar, Received
  <2>2. ASSUME NEW v \in Text, chan' = Append(chan, v), values' = Append(values, v), UNCHANGED <<text, pipe, sent, outErr>>
        PROVE  PassedSoFar'
    <3>1. Received' = Received /\ ReadSoFar' = ReadSoFar
      BY <2>a, <2>2, AppendSeq DEF Received, ReadSoFar
    <3> QED
      BY <2>0, <2>a, <2>2, <3>1, StartsStep
  <2>3. CASE Write
    <3>1. writing \in Writes /\ UNCHANGED <<sent, outErr>>
      BY <2>3 DEF Write, PortTypeOK, outVars
    <3>2. CASE writing.band = "value"
      <4>1. values' = Append(values, writing.x) /\ chan' = Append(chan, writing.x) /\ UNCHANGED <<text, pipe>>
        BY <2>3, <3>2 DEF Write
      <4> QED
        BY <2>2, <3>1, <3>2, <4>1, WritesType
    <3>3. CASE writing.band = "byte"
      <4>1. UNCHANGED <<values, chan>>
        BY <2>3, <3>3 DEF Write
      <4>2. ASSUME NEW b \in Chars, text' = Append(text, b), ReadSoFar' = ReadSoFar PROVE PassedSoFar'
        <5>1. Received' = Received
          BY <4>1 DEF Received
        <5> QED
          BY <2>0, <2>a, <3>1, <4>1, <4>2, <5>1, StartsStep
      <4> QED
        BY <2>0, <2>1, <2>3, <3>1, <4>1, <4>2, ByteWritten
    <3> QED
      BY <3>1, <3>2, <3>3, WritesType
  <2>4. CASE BgPut
    <3>1. /\ UNCHANGED <<text, pipe, sent, outErr>>
          /\ \/ UNCHANGED <<chan, values>>
             \/ chan' = Append(chan, <<"w">>) /\ values' = Append(values, <<"w">>)
      BY <2>4 DEF BgPut, outVars
    <3>2. <<"w">> \in Text
      BY WritesType
    <3> QED
      BY <2>1, <2>2, <3>1, <3>2
  <2>5. CASE RecvValue
    <3>1. valueRd = "recv" /\ chan # <<>> /\ chan' = Tail(chan) /\ UNCHANGED <<values, text, pipe>>
      BY <2>5 DEF RecvValue, writerVars
    <3>2. /\ Received' = Received + 1 /\ Head(chan) = values[Received + 1] /\ Received + 1 \in 1..Len(values)
          /\ Head(chan) \in Outputs /\ Received \in Nat
      <4>1. Rest(chan, values)
        BY DEF BandRests
      <4>2. Head(chan) \in Outputs
        BY <2>a, <3>1, TailSeq DEF Outputs
      <4>3. Received \in Nat
        BY <2>a, <4>1 DEF Rest, Received
      <4> QED
        BY <2>a, <3>1, <4>1, <4>2, <4>3, RestShrinks DEF Received
    <3>3. CASE stage = "onlyBytes"
      <4>1. UNCHANGED <<sent, outErr>>
        BY <2>5, <3>3 DEF RecvValue, Streams, outVars
      <4> QED
        BY <2>0, <3>1, <3>3, <4>1 DEF ReadSoFar
    <3>4. CASE stage = "onlyValues"
      <4>1. Out(Head(chan)) /\ outErr # "gone"
        <5>1. onlyValues(Head(chan))
          BY <2>5, <3>4 DEF RecvValue, Streams
        <5> QED
          BY <3>1, <3>4, <5>1 DEF StageOK, onlyValues
      <4>2. outErr = "nil" /\ Len(sent) = Received
        BY <3>4, <4>1 DEF StageOK, PortTypeOK
      <4>3. CASE sent' = Append(sent, Head(chan)) /\ UNCHANGED outErr
        <5>1. Starts(sent', values) /\ Len(sent') = Len(sent) + 1
          <6> DEFINE v == Head(chan)
          <6>1. v \in Outputs /\ Starts(sent, values) /\ Len(sent) + 1 <= Len(values) /\ v = values[Len(sent) + 1]
            BY <3>2, <3>4, <4>2
          <6> HIDE DEF v
          <6>2. Starts(Append(sent, v), values)
            BY <2>a, <6>1, StartsStep
          <6>3. Len(Append(sent, v)) = Len(sent) + 1
            BY <2>a, <6>1, AppendSeq
          <6> QED
            BY <4>3, <6>2, <6>3 DEF v
        <5> QED
          BY <2>0, <3>1, <3>2, <3>4, <4>2, <5>1
      <4>4. CASE outErr' = "gone" /\ UNCHANGED sent
        BY <2>0, <3>1, <3>2, <3>4, <4>2, <4>4
      <4> QED
        BY <4>1, <4>3, <4>4 DEF Out
    <3> QED
      BY <2>0, <3>3, <3>4
  <2>6. CASE WritePiece
    BY <2>1, <2>6 DEF WritePiece, writerVars, outVars
  <2>7. CASE ReadByte
    <3>0. UNCHANGED <<values, chan>>
      BY <2>7 DEF ReadByte, writerVars
    <3>1. /\ text' = text /\ ReadSoFar' = ReadSoFar + 1 /\ Head(pipe) = text[ReadSoFar + 1]
          /\ Head(pipe) \in Outputs /\ ReadSoFar + 1 \in 1..Len(text) /\ ReadSoFar \in Nat
      BY <2>7, ByteTaken DEF Outputs
    <3>3. CASE stage = "onlyValues"
      <4>1. UNCHANGED <<sent, outErr>>
        BY <2>7, <3>3 DEF ReadByte, ByLine, Streams, outVars
      <4> QED
        BY <2>0, <3>0, <3>1, <3>3, <4>1 DEF Received
    <3>4. CASE stage = "onlyBytes"
      <4>1. Out(Head(pipe)) /\ outErr # "gone"
        <5>1. onlyBytes(Head(pipe)) /\ byteRd = "read"
          BY <2>7, <3>4 DEF ReadByte, ByLine, Streams
        <5> QED
          BY <3>1, <3>4, <5>1 DEF StageOK, onlyBytes
      <4>2. outErr = "nil" /\ Len(sent) = ReadSoFar
        BY <3>4, <4>1 DEF StageOK, PortTypeOK
      <4>3. CASE sent' = Append(sent, Head(pipe)) /\ UNCHANGED outErr
        <5>1. Starts(sent', text) /\ Len(sent') = Len(sent) + 1
          <6> DEFINE b == Head(pipe)
          <6>1. b \in Outputs /\ Starts(sent, text) /\ Len(sent) + 1 <= Len(text) /\ b = text[Len(sent) + 1]
            BY <3>1, <3>4, <4>2
          <6> HIDE DEF b
          <6>2. Starts(Append(sent, b), text)
            BY <2>a, <6>1, StartsStep
          <6>3. Len(Append(sent, b)) = Len(sent) + 1
            BY <2>a, <6>1, AppendSeq
          <6> QED
            BY <4>3, <6>2, <6>3 DEF b
        <5> QED
          BY <2>0, <3>0, <3>1, <3>4, <4>2, <5>1
      <4>4. CASE outErr' = "gone" /\ UNCHANGED sent
        BY <2>0, <3>0, <3>1, <3>4, <4>2, <4>4
      <4> QED
        BY <4>1, <4>3, <4>4 DEF Out
    <3> QED
      BY <2>0, <3>3, <3>4
  <2>8. CASE BytesEnd
    <3>1. UNCHANGED <<sent, outErr>>
      BY <2>0, <2>8 DEF BytesEnd, LineRead, Streams, outVars
    <3> QED
      BY <2>1, <2>8, <3>1 DEF BytesEnd, writerVars
  <2>9. CASE TakeInput
    BY <2>0, <2>9 DEF TakeInput, PortTypeOK, Streams
  <2>10. CASE ReturnFromStage
    BY <2>0, <2>1, <2>10 DEF ReturnFromStage, AtEnd, inVars, outVars
  <2> QED
    BY <2>1, <2>3, <2>4, <2>5, <2>6, <2>7, <2>8, <2>9, <2>10, QuietSteps
<1> QED
  BY <1>1, <1>2, PortTypeAlways, StageOKAlways, BandRestsAlways, PTL DEF PortsSpec

\* What one, count, slurp and read-line put is put once, when their input has ended.
LEMMA PutAtEndAlways == PortsSpec => []PutAtEnd
<1>1. PortsInit => PutAtEnd
  BY DEF PortsInit, PutAtEnd
<1>2. BandsEnd /\ PortTypeOK /\ StageOK /\ PutAtEnd /\ [PortsNext]_portVars => PutAtEnd'
  <2> SUFFICES ASSUME BandsEnd, PortTypeOK, StageOK, PutAtEnd, [PortsNext]_portVars PROVE PutAtEnd'
    OBVIOUS
  <2>0. stage' = stage
    BY StageFixed
  <2>1. CASE main = "returned"
    <3>1. valueRd = "done" /\ byteRd = "done"
      BY <2>1 DEF BandsEnd, AllRead
    <3>2. ~RecvValue /\ ~WritePiece /\ ~ReadByte /\ ~BytesEnd /\ ~TakeInput /\ ~ReturnFromStage
      BY <2>1, <3>1 DEF RecvValue, WritePiece, ReadByte, BytesEnd, TakeInput, ReturnFromStage
    <3>3. UNCHANGED <<got, sent, outErr>> /\ (stage = "slurp" => gotBytes' = gotBytes)
      BY <3>2, QuietSteps DEF Write, BgPut, readersSame, outVars
    <3> QED
      BY <2>0, <2>1, <3>3 DEF PutAtEnd
  <2>2. CASE ReturnFromStage
    <3>1. /\ UNCHANGED <<got, gotBytes>> /\ AtEnd
          /\ stage \in {"one", "count", "slurp", "readLine"} => outErr = "nil" /\ sent = <<>>
      BY <2>2 DEF ReturnFromStage, readersSame, StageOK
    <3>2. ASSUME NEW x, Out(x), sent = <<>>, outErr' = "nil" PROVE sent' = <<x>>
      BY <3>2 DEF Out
    <3> QED
      BY <2>0, <3>1, <3>2 DEF PutAtEnd, AtEnd, one, count, slurp, readLine
  <2>3. CASE main # "returned" /\ ~ReturnFromStage
    <3>1. main' # "returned"
      BY <2>3, QuietSteps DEF Write, BgPut, RecvValue, WritePiece, ReadByte, BytesEnd, TakeInput, OpenPort, ClosePort,
         ValuesEnd, writerVars
    <3> QED
      BY <3>1 DEF PutAtEnd
  <2> QED
    BY <2>1, <2>2, <2>3
<1> QED
  BY <1>1, <1>2, PortTypeAlways, StageOKAlways, BandsEndAlways, PTL DEF PortsSpec

-----------------------------------------------------------------------------
(* Files.                                                                  *)

\* One more item of a file.
LEMMA FileGrows ==
    ASSUME gotBytes \in Seq(FileItems), NEW it \in FileItems, gotBytes' = Append(gotBytes, it)
    PROVE  LET size == Len(gotBytes)
           IN  /\ size \in Nat /\ FileBytes \subseteq 1..size /\ FilePieces \subseteq 1..size
               /\ gotBytes'[size + 1] = it /\ \A i \in 1..size : gotBytes'[i] = gotBytes[i]
               /\ it.band = "byte" => FileBytes' = FileBytes \cup {size + 1} /\ FilePieces' = FilePieces
               /\ it.band # "byte" => FileBytes' = FileBytes /\ FilePieces' = FilePieces \cup {size + 1}
<1> DEFINE size == Len(gotBytes)
<1>1. /\ size \in Nat /\ gotBytes'[size + 1] = it /\ (\A i \in 1..size : gotBytes'[i] = gotBytes[i])
      /\ DOMAIN gotBytes = 1..size /\ gotBytes' \in Seq(FileItems) /\ Len(gotBytes') = size + 1
  BY AppendSeq, ElemSeq
<1>2. DOMAIN gotBytes' = (1..size) \cup {size + 1} /\ size + 1 \notin 1..size
  BY <1>1, ElemSeq
<1>3. FileBytes \subseteq 1..size /\ FileBytes' = IF it.band = "byte" THEN FileBytes \cup {size + 1} ELSE FileBytes
  BY FromAppend DEF FileBytes
<1> HIDE DEF size
<1>4. FilePieces \subseteq 1..size
  BY <1>1 DEF FilePieces
<1>5. it.band = "byte" => FilePieces' = FilePieces
  BY <1>1, <1>2, <1>3 DEF FilePieces
<1>6. it.band # "byte" => FilePieces' = FilePieces \cup {size + 1}
  BY <1>1, <1>2, <1>3 DEF FilePieces
<1> QED
  BY <1>1, <1>3, <1>4, <1>5, <1>6 DEF size

\* A file has the bytes written so far and, in order, the pieces of the values received so far.
LEMMA FileGotAlways == PortsSpec => []FileGot
<1>1. PortsInit => FileGot
  <2> SUFFICES ASSUME PortsInit PROVE FileGot
    OBVIOUS
  <2>1. values = <<>> /\ text = <<>> /\ chan = <<>> /\ gotBytes = <<>> /\ valueRd \in {"recv", "done"}
    BY DEF PortsInit
  <2>2. FileBytes = {} /\ FilePieces = {} /\ Cardinality({}) = 0
    BY <2>1, FS_EmptySet DEF From, FileBytes, FilePieces
  <2> QED
    BY <2>1, <2>2 DEF FileGot, Received, PiecesLeft
<1>2. PortTypeOK /\ StageOK /\ BandRests /\ FileGot /\ [PortsNext]_portVars => FileGot'
  <2> SUFFICES ASSUME PortTypeOK, StageOK, BandRests, FileGot, [PortsNext]_portVars, stage' = "FilePort" PROVE FileGot'
    BY DEF FileGot
  <2>0. stage' = stage /\ stage = "FilePort"
    BY StageFixed
  <2>a. /\ text \in Seq(Chars) /\ values \in Seq(Text) /\ chan \in Seq(Text) /\ gotBytes \in Seq(FileItems)
        /\ Len(chan) \in Nat /\ Len(values) \in Nat /\ Len(text) \in Nat /\ Len(chan) <= Len(values)
        /\ DOMAIN values = 1..Len(values) /\ DOMAIN text = 1..Len(text)
    BY <2>0, ElemSeq DEF PortTypeOK, Text, BandRests, Rest
  <2>b. /\ Cardinality(FileBytes) = Len(text)
        /\ \A i \in FileBytes : gotBytes[i].x = <<text[Rank(FileBytes, i)]>>
        /\ \A i \in FilePieces, k \in DOMAIN values : PieceOf(i, k)
        /\ Cardinality(FilePieces) = 3 * Received - PiecesLeft
        /\ PiecesLeft \in 0..3 /\ Received \in 0..Len(values)
    BY <2>0, <2>a DEF FileGot, PiecesLeft, Received
  <2>c. Len(gotBytes) \in Nat /\ FileBytes \subseteq 1..Len(gotBytes) /\ FilePieces \subseteq 1..Len(gotBytes)
    BY <2>a, ElemSeq DEF FileBytes, FilePieces, From
  <2>d. \A i \in FilePieces : Rank(FilePieces, i) \in 1..Cardinality(FilePieces) /\ Cardinality(FilePieces) \in Nat
    BY <2>c, RankAdd
  <2>1. CASE UNCHANGED <<text, values, chan, gotBytes>> /\ PiecesLeft' = PiecesLeft
    <3>1. FileBytes' = FileBytes /\ FilePieces' = FilePieces /\ Received' = Received
      BY <2>1 DEF FileBytes, FilePieces, Received
    <3>2. \A i, k : PieceOf(i, k)' <=> PieceOf(i, k)
      BY <2>1, <3>1 DEF PieceOf
    <3> QED
      BY <2>b, <2>1, <3>1, <3>2 DEF FileGot
  <2>2. ASSUME NEW v \in Text, chan' = Append(chan, v), values' = Append(values, v), UNCHANGED <<text, gotBytes, valueRd>>
        PROVE  FileGot'
    <3>1. Received' = Received /\ PiecesLeft' = PiecesLeft /\ FileBytes' = FileBytes /\ FilePieces' = FilePieces
      BY <2>a, <2>2, AppendSeq DEF Received, PiecesLeft, FileBytes, FilePieces
    <3>2. /\ DOMAIN values' = 1..Len(values) + 1 /\ \A k \in 1..Len(values) : values'[k] = values[k]
      BY <2>a, <2>2, AppendSeq, ElemSeq
    <3>3. ASSUME NEW i \in FilePieces, NEW k \in 1..Len(values) + 1 PROVE PieceOf(i, k)'
      <4>1. Rank(FilePieces, i) <= 3 * Len(values) /\ Rank(FilePieces, i) \in Nat
        BY <2>a, <2>b, <2>d
      <4>2. CASE k = Len(values) + 1
        BY <2>a, <3>1, <4>1, <4>2 DEF PieceOf
      <4>3. CASE k # Len(values) + 1
        <5>1. k \in 1..Len(values)
          BY <2>a, <4>3
        <5>2. PieceOf(i, k)
          BY <2>a, <2>b, <5>1
        <5> QED
          BY <2>2, <3>1, <3>2, <5>1, <5>2 DEF PieceOf
      <4> QED
        BY <4>2, <4>3
    <3> QED
      BY <2>b, <2>2, <3>1, <3>2, <3>3 DEF FileGot
  <2>3. CASE Write
    <3>1. writing \in Writes /\ UNCHANGED valueRd
      BY <2>3 DEF Write, PortTypeOK, readersSame
    <3>2. CASE writing.band = "value"
      <4>1. values' = Append(values, writing.x) /\ chan' = Append(chan, writing.x) /\ UNCHANGED <<text, gotBytes>>
        BY <2>3, <3>2 DEF Write
      <4> QED
        BY <2>2, <3>1, <3>2, <4>1, WritesType
    <3>3. CASE writing.band = "byte"
      <4> DEFINE b == Head(writing.x)  size == Len(gotBytes)
      <4>1. UNCHANGED <<values, chan>> /\ gotBytes' = Append(gotBytes, writing) /\ text' = Append(text, b)
        BY <2>0, <2>3, <3>3 DEF Write
      <4>2. writing \in FileItems /\ b \in Chars /\ writing.x = <<b>>
        BY <3>1, <3>3, WritesType
      <4>3. /\ gotBytes'[size + 1] = writing /\ (\A i \in 1..size : gotBytes'[i] = gotBytes[i])
            /\ FileBytes' = FileBytes \cup {size + 1} /\ FilePieces' = FilePieces
        BY <2>a, <3>3, <4>1, <4>2, FileGrows
      <4>4. /\ Len(text') = Len(text) + 1 /\ text'[Len(text) + 1] = b /\ \A i \in 1..Len(text) : text'[i] = text[i]
        BY <2>a, <4>1, <4>2, AppendSeq
      <4> HIDE DEF b, size
      <4>5. /\ Cardinality(FileBytes') = Len(text') /\ Rank(FileBytes', size + 1) = Len(text) + 1
            /\ \A i \in FileBytes : Rank(FileBytes', i) = Rank(FileBytes, i) /\ Rank(FileBytes, i) \in 1..Len(text)
        <5>1. size \in Nat /\ FileBytes \subseteq 1..size
          BY <2>c DEF size
        <5>2. /\ Cardinality(FileBytes \cup {size + 1}) = Cardinality(FileBytes) + 1
              /\ Rank(FileBytes \cup {size + 1}, size + 1) = Cardinality(FileBytes) + 1
              /\ \A i \in FileBytes : /\ Rank(FileBytes \cup {size + 1}, i) = Rank(FileBytes, i)
                                      /\ Rank(FileBytes, i) \in 1..Cardinality(FileBytes)
          BY <5>1, RankAdd
        <5> QED
          BY <2>b, <4>3, <4>4, <5>2
      <4>6. \A i \in FileBytes' : gotBytes'[i].x = <<text'[Rank(FileBytes', i)]>>
        <5>1. ASSUME NEW i \in FileBytes PROVE gotBytes'[i].x = <<text'[Rank(FileBytes', i)]>>
          BY <2>b, <2>c, <4>3, <4>4, <4>5 DEF size
        <5>2. gotBytes'[size + 1].x = <<text'[Rank(FileBytes', size + 1)]>>
          BY <4>2, <4>3, <4>4, <4>5
        <5> QED
          BY <4>3, <5>1, <5>2
      <4>7. \A i \in FilePieces', k \in DOMAIN values' : PieceOf(i, k)'
        BY <2>b, <2>c, <4>1, <4>3 DEF PieceOf, size
      <4>8. Received' = Received /\ PiecesLeft' = PiecesLeft
        BY <3>1, <4>1 DEF Received, PiecesLeft
      <4> QED
        BY <2>b, <4>3, <4>5, <4>6, <4>7, <4>8 DEF FileGot
    <3> QED
      BY <3>1, <3>2, <3>3, WritesType
  <2>4. CASE BgPut
    <3>1. /\ UNCHANGED <<text, gotBytes, valueRd>>
          /\ \/ UNCHANGED <<chan, values>>
             \/ chan' = Append(chan, <<"w">>) /\ values' = Append(values, <<"w">>)
      BY <2>4 DEF BgPut, readersSame
    <3>2. <<"w">> \in Text
      BY WritesType
    <3> QED
      BY <2>1, <2>2, <3>1, <3>2 DEF PiecesLeft
  <2>5. CASE RecvValue
    <3>1. /\ valueRd = "recv" /\ chan # <<>> /\ chan' = Tail(chan) /\ UNCHANGED <<values, text, gotBytes>>
          /\ valueRd' = "prefix"
      BY <2>0, <2>5 DEF RecvValue, writerVars, Streams, Hold
    <3>2. Received' = Received + 1
      BY <2>a, <3>1, TailSeq DEF Received
    <3>3. PiecesLeft = 0 /\ PiecesLeft' = 3
      BY <3>1 DEF PiecesLeft
    <3>4. FileBytes' = FileBytes /\ FilePieces' = FilePieces /\ \A i, k : PieceOf(i, k)' <=> PieceOf(i, k)
      BY <3>1 DEF FileBytes, FilePieces, PieceOf
    <3>5. Cardinality(FilePieces') = 3 * Received' - PiecesLeft'
      BY <2>b, <3>2, <3>3, <3>4
    <3> QED
      BY <2>b, <3>1, <3>4, <3>5 DEF FileGot
  <2>6. CASE WritePiece
    <3> DEFINE size == Len(gotBytes)  it == Item(valueRd, value)
    <3>1. /\ valueRd \in {"prefix", "repr", "newline"} /\ gotBytes' = Append(gotBytes, it)
          /\ UNCHANGED <<values, text, chan>>
          /\ valueRd' = IF valueRd = "prefix" THEN "repr" ELSE IF valueRd = "repr" THEN "newline" ELSE "recv"
      BY <2>6 DEF WritePiece, writerVars
    <3>2. it \in FileItems /\ it.band # "byte"
      BY <3>1, ItemType DEF PortTypeOK
    <3>3. /\ gotBytes'[size + 1] = it /\ (\A i \in 1..size : gotBytes'[i] = gotBytes[i])
          /\ FileBytes' = FileBytes /\ FilePieces' = FilePieces \cup {size + 1}
      BY <2>a, <3>1, <3>2, FileGrows
    <3>4. Received >= 1 /\ value = values[Received] /\ Received' = Received /\ PiecesLeft' = PiecesLeft - 1
      BY <3>1 DEF BandRests, Received, PiecesLeft
    <3> HIDE DEF size, it
    <3>5. /\ Cardinality(FilePieces') = Cardinality(FilePieces) + 1
          /\ Rank(FilePieces', size + 1) = Cardinality(FilePieces) + 1
          /\ \A i \in FilePieces : Rank(FilePieces', i) = Rank(FilePieces, i)
      <4>1. size \in Nat /\ FilePieces \subseteq 1..size
        BY <2>c DEF size
      <4>2. /\ Cardinality(FilePieces \cup {size + 1}) = Cardinality(FilePieces) + 1
            /\ Rank(FilePieces \cup {size + 1}, size + 1) = Cardinality(FilePieces) + 1
            /\ \A i \in FilePieces : Rank(FilePieces \cup {size + 1}, i) = Rank(FilePieces, i)
        BY <4>1, RankAdd
      <4> QED
        BY <3>3, <4>2
    <3>6. ASSUME NEW k \in DOMAIN values, NEW i, i = size + 1 PROVE PieceOf(i, k)'
      <4>1. k \in Nat /\ Received \in Nat /\ Rank(FilePieces', size + 1) = 3 * Received - PiecesLeft + 1
        BY <2>a, <2>b, <3>5
      <4>0. gotBytes'[i] = it /\ values' = values /\ Rank(FilePieces', i) = Rank(FilePieces', size + 1)
        BY <3>1, <3>3, <3>6
      <4>2. CASE valueRd = "prefix"
        <5>1. Rank(FilePieces', size + 1) = 3 * Received - 2 /\ it = Item("prefix", values[Received])
          BY <3>4, <4>1, <4>2 DEF PiecesLeft, it
        <5> QED
          BY <4>0, <4>1, <5>1 DEF PieceOf
      <4>3. CASE valueRd = "repr"
        <5>1. Rank(FilePieces', size + 1) = 3 * Received - 1 /\ it = Item("repr", values[Received])
          BY <3>4, <4>1, <4>3 DEF PiecesLeft, it
        <5> QED
          BY <4>0, <4>1, <5>1 DEF PieceOf
      <4>4. CASE valueRd = "newline"
        <5>1. Rank(FilePieces', size + 1) = 3 * Received /\ it = Item("newline", values[Received])
          BY <3>4, <4>1, <4>4 DEF PiecesLeft, it
        <5> QED
          BY <4>0, <4>1, <5>1 DEF PieceOf
      <4> QED
        BY <3>1, <4>2, <4>3, <4>4
    <3>7. ASSUME NEW i \in FilePieces, NEW k \in DOMAIN values PROVE PieceOf(i, k)'
      BY <2>b, <2>c, <3>1, <3>3, <3>5 DEF PieceOf, size
    <3>8. \A i \in FileBytes' : gotBytes'[i].x = <<text'[Rank(FileBytes', i)]>>
      BY <2>b, <2>c, <3>1, <3>3 DEF size
    <3>9. Cardinality(FilePieces') = 3 * Received' - PiecesLeft'
      BY <2>b, <3>4, <3>5
    <3> QED
      BY <2>b, <3>1, <3>3, <3>6, <3>7, <3>8, <3>9 DEF FileGot
  <2>7. CASE ReadByte
    BY <2>7, ByteTaken, <2>0
  <2>8. CASE BytesEnd
    BY <2>0, <2>8 DEF BytesEnd, StageOK
  <2>9. CASE TakeInput
    BY <2>0, <2>9 DEF TakeInput, PortTypeOK, Streams
  <2>10. CASE ReturnFromStage
    BY <2>1, <2>10 DEF ReturnFromStage, inVars, readersSame, PiecesLeft
  <2>11. CASE OpenPort
    BY <2>0, <2>11 DEF OpenPort, StageOK
  <2>12. CASE ClosePort
    BY <2>1, <2>12 DEF ClosePort, readersSame, PiecesLeft
  <2>13. CASE ValuesEnd
    BY <2>1, <2>13 DEF ValuesEnd, writerVars, PiecesLeft
  <2>14. CASE UNCHANGED <<text, values, chan, gotBytes, valueRd>>
    BY <2>1, <2>14 DEF PiecesLeft
  <2> QED
    BY <2>3, <2>4, <2>5, <2>6, <2>7, <2>8, <2>9, <2>10, <2>11, <2>12, <2>13, <2>14, QuietSteps
<1> QED
  BY <1>1, <1>2, PortTypeAlways, StageOKAlways, BandRestsAlways, PTL DEF PortsSpec

-----------------------------------------------------------------------------
(* The stream builtins.                                                    *)

\* The inputs that are put, when one more comes.
LEMMA PutsGrow ==
    ASSUME stage \in Streams \ {"one", "count"}, stage' = stage, got \in Seq(GotItems), NEW x, NEW band,
           Item(band, x) \in GotItems, got' = Append(got, Item(band, x))
    PROVE  /\ Puts \subseteq 1..Len(got)
           /\ Puts' = IF PutsNext(x) THEN Puts \cup {Len(got) + 1} ELSE Puts
<1> DEFINE size == Len(got)
<1>1. /\ size \in Nat /\ DOMAIN got = 1..size /\ DOMAIN got' = 1..size + 1
      /\ \A i \in 1..size : got'[i] = got[i]
      /\ got'[size + 1].x = x
  BY AppendSeq, ElemSeq DEF Item
<1>2. /\ \A i : i \in 1..size + 1 <=> i \in 1..size \/ i = size + 1
      /\ size + 1 \notin 1..size
  BY <1>1
<1> HIDE DEF size
<1>3. CASE stage \in {"all", "toLines"}
  BY <1>1, <1>2, <1>3 DEF Puts, PutsNext, size
<1>4. CASE stage = "take"
  <2>1. Puts = (1..size) \cap {1} /\ Puts' = (1..size + 1) \cap {1}
    BY <1>1, <1>4 DEF Puts
  <2>2. PutsNext(x) <=> size = 0
    BY <1>4 DEF PutsNext, size
  <2>3. (1..size + 1) \cap {1} = IF size = 0 THEN ((1..size) \cap {1}) \cup {size + 1} ELSE (1..size) \cap {1}
    BY <1>1
  <2> QED
    BY <2>1, <2>2, <2>3 DEF size
<1>5. CASE stage = "drop"
  <2>1. Puts = (1..size) \ {1} /\ Puts' = (1..size + 1) \ {1}
    BY <1>1, <1>5 DEF Puts
  <2>2. PutsNext(x) <=> size # 0
    BY <1>5 DEF PutsNext, size
  <2>3. (1..size + 1) \ {1} = IF size # 0 THEN ((1..size) \ {1}) \cup {size + 1} ELSE (1..size) \ {1}
    BY <1>1
  <2> QED
    BY <2>1, <2>2, <2>3 DEF size
<1>6. CASE stage = "compact"
  <2>1. /\ Puts = {i \in 1..size : i = 1 \/ got[i].x # got[i - 1].x}
        /\ Puts' = {i \in 1..size + 1 : i = 1 \/ got'[i].x # got'[i - 1].x}
    BY <1>1, <1>6 DEF Puts
  <2>2. PutsNext(x) <=> size = 0 \/ x # got[size].x
    BY <1>6 DEF PutsNext, size
  <2>3. \A i \in 1..size : (i = 1 \/ got'[i].x # got'[i - 1].x) <=> (i = 1 \/ got[i].x # got[i - 1].x)
    BY <1>1
  <2>4. (size + 1 = 1 \/ got'[size + 1].x # got'[(size + 1) - 1].x) <=> PutsNext(x)
    BY <1>1, <2>2
  <2>5. \A i : i \in Puts' <=> i \in Puts \/ (i = size + 1 /\ PutsNext(x))
    BY <1>2, <2>1, <2>3, <2>4
  <2>6. Puts \subseteq 1..size
    BY <2>1
  <2>7. Puts' = IF PutsNext(x) THEN Puts \cup {size + 1} ELSE Puts
    BY <2>5, <2>6, Zenon
  <2> QED
    BY <2>6, <2>7 DEF size
<1>7. CASE stage = "keepIf"
  <2>1. /\ Puts = {i \in 1..size : Callback(got[i].x) = "true" /\ \A j \in 1..i : Callback(got[j].x) # "bad"}
        /\ Puts' = {i \in 1..size + 1 : Callback(got'[i].x) = "true" /\ \A j \in 1..i : Callback(got'[j].x) # "bad"}
    BY <1>1, <1>7 DEF Puts
  <2>2. PutsNext(x) <=> Callback(x) = "true" /\ \A j \in 1..size : Callback(got[j].x) # "bad"
    BY <1>7 DEF PutsNext, size
  <2>3. ASSUME NEW i \in 1..size
        PROVE  /\ Callback(got'[i].x) = Callback(got[i].x)
               /\ (\A j \in 1..i : Callback(got'[j].x) # "bad") <=> (\A j \in 1..i : Callback(got[j].x) # "bad")
    <3>1. 1..i \subseteq 1..size /\ i \in 1..size
      BY <1>1
    <3>2. \A j \in 1..i : Callback(got'[j].x) = Callback(got[j].x)
      BY <1>1, <3>1
    <3> QED
      BY <1>1, <3>1, <3>2
  <2>4. Callback(got'[size + 1].x) = Callback(x)
    BY <1>1
  <2>5. (\A j \in 1..size + 1 : Callback(got'[j].x) # "bad") <=>
           Callback(x) # "bad" /\ \A j \in 1..size : Callback(got[j].x) # "bad"
    BY <1>1, <1>2, <2>4
  <2>6. \A i : i \in Puts' <=> i \in Puts \/ (i = size + 1 /\ PutsNext(x))
    <3>1. ASSUME NEW i \in 1..size PROVE i \in Puts' <=> i \in Puts
      BY <1>2, <2>1, <2>3
    <3>2. size + 1 \in Puts' <=> PutsNext(x)
      BY <1>1, <1>2, <2>1, <2>2, <2>4, <2>5
    <3>3. (\A i \in Puts : i \in 1..size) /\ (\A i \in Puts' : i \in 1..size + 1)
      BY <2>1
    <3> QED
      BY <1>2, <3>1, <3>2, <3>3, Zenon
  <2>7. Puts \subseteq 1..size
    BY <2>1
  <2>8. Puts' = IF PutsNext(x) THEN Puts \cup {size + 1} ELSE Puts
    BY <2>6, <2>7, Zenon
  <2> QED
    BY <2>7, <2>8 DEF size
<1> QED
  BY <1>3, <1>4, <1>5, <1>6, <1>7 DEF Streams

\* The function of a stream builtin puts just those inputs, until an error.
LEMMA CallEachPuts ==
    ASSUME stage \in Streams \ {"one", "count"}, StreamOK, got \in Seq(GotItems), NEW x, CallEach(x), outErr = "nil"
    PROVE  \/ PutsNext(x) /\ sent' = Append(sent, x) /\ outErr' = "nil"
           \/ PutsNext(x) /\ sent' = sent /\ outErr' = "gone"
           \/ ~PutsNext(x) /\ sent' = sent /\ outErr' = "nil" /\ (stage = "keepIf" => Callback(x) # "bad")
           \/ ~PutsNext(x) /\ sent' = sent /\ outErr' = "callback" /\ stage = "keepIf" /\ Callback(x) = "bad"
<1>0. Len(got) \in Nat /\ (got = <<>> <=> Len(got) = 0)
  BY ElemSeq
<1>1. CASE stage = "keepIf"
  <2>1. PutsNext(x) <=> Callback(x) = "true"
    BY <1>1 DEF StreamOK, PutsNext
  <2>2. Callback(x) \in {"bad", "true", "false"}
    BY DEF Callback
  <2>3. keepIf(x)
    BY <1>1 DEF CallEach
  <2> HIDE DEF Callback
  <2> QED
    BY <1>1, <2>1, <2>2, <2>3 DEF keepIf, Out, outVars
<1>2. CASE stage = "compact"
  <2>1. compact(x) <=> PutsNext(x)
    BY <1>0, <1>2 DEF StreamOK, PutsNext, compact
  <2> QED
    BY <1>2, <2>1 DEF CallEach, Out, outVars
<1>3. CASE stage \in {"all", "toLines", "take", "drop"}
  BY <1>0, <1>3 DEF CallEach, Out, outVars, PutsNext, take, drop
<1> QED
  BY <1>1, <1>2, <1>3 DEF Streams

\* One call of the function.
LEMMA StreamCall ==
    ASSUME PortTypeOK, StageOK, StreamPuts, StreamOK, stage \in Streams \ {"one", "count"}, stage' = stage,
           NEW x \in Text, NEW band \in {"value", "byte"}, CallEach(x), got' = Append(got, Item(band, x))
    PROVE  StreamPuts' /\ StreamOK'
<1> DEFINE size == Len(got)  it == Item(band, x)
           Upto(S, m) == {i \in S : i <= m}
           Ok(items, S, s) == Delivers(items, S, s) /\ Cardinality(S) = Len(s)
<1>1. /\ got \in Seq(GotItems) /\ it \in GotItems /\ it.x = x /\ sent \in Seq(Outputs) /\ x \in Outputs
      /\ size \in Nat /\ Len(sent) \in Nat
  BY ItemType, ElemSeq DEF PortTypeOK, Outputs
<1>2. Puts \subseteq 1..size /\ Puts' = IF PutsNext(x) THEN Puts \cup {size + 1} ELSE Puts
  BY <1>1, PutsGrow
<1>3. /\ Len(got') = size + 1 /\ got'[size + 1] = it /\ got' # <<>> /\ \A i \in 1..size : got'[i] = got[i]
  BY <1>1, AppendSeq
<1>4. PICK m \in 0..size : Ok(got, Upto(Puts, m), sent) /\ (outErr # "gone" => m = size)
  BY DEF StreamPuts
<1>5. ASSUME NEW k \in 0..size + 1, Ok(got', Upto(Puts', k), sent'), outErr' # "gone" => k = size + 1
      PROVE  StreamPuts'
  BY <1>3, <1>5 DEF StreamPuts
<1>6. \A k \in 0..size : Upto(Puts', k) = Upto(Puts, k) /\ Upto(Puts, k) \subseteq 1..size
  <2> SUFFICES ASSUME NEW k \in 0..size PROVE Upto(Puts', k) = Upto(Puts, k) /\ Upto(Puts, k) \subseteq 1..size
    OBVIOUS
  <2>1. ~(size + 1 <= k)
    BY <1>1
  <2>2. \A i : i \in Upto(Puts', k) <=> i \in Upto(Puts, k)
    <3>1. \A i : i \in Puts' <=> i \in Puts \/ (i = size + 1 /\ PutsNext(x))
      BY <1>2, Zenon
    <3> QED
      BY <2>1, <3>1
  <2> QED
    BY <1>2, <2>2, Zenon
<1>7. Upto(Puts', size + 1) = Puts' /\ Upto(Puts, size) = Puts
  <2>1. \A i \in Puts : i <= size /\ i <= size + 1
    BY <1>1, <1>2
  <2>2. size + 1 <= size + 1
    BY <1>1
  <2>3. \A i \in Puts' : i <= size + 1
    BY <1>2, <2>1, <2>2, Zenon
  <2> QED
    BY <2>1, <2>3, Zenon
<1> HIDE DEF size, it, Upto
<1>8. \A k \in 0..size : Delivers(got, Upto(Puts, k), sent) => Delivers(got', Upto(Puts, k), sent)
  <2> SUFFICES ASSUME NEW k \in 0..size, Delivers(got, Upto(Puts, k), sent) PROVE Delivers(got', Upto(Puts, k), sent)
    OBVIOUS
  <2>1. Upto(Puts, k) \subseteq 1..Len(got)
    BY <1>6 DEF size
  <2> QED
    BY <1>1, <2>1, DeliversNext DEF it
<1>9. CASE outErr = "nil"
  <2>1. /\ m = size /\ Delivers(got, Puts, sent) /\ Cardinality(Puts) = Len(sent)
        /\ size \in 0..size /\ size + 1 \in 0..size + 1 /\ size \in 0..size + 1
    BY <1>1, <1>4, <1>7, <1>9
  <2>2. CASE PutsNext(x) /\ sent' = Append(sent, x) /\ outErr' = "nil"
    <3>1. Puts' = Puts \cup {size + 1}
      BY <1>2, <2>2
    <3>2. Len(sent') = Len(sent) + 1 /\ sent'[Len(sent) + 1] = x /\ sent' # <<>> /\ sent' \in Seq(Outputs)
      BY <1>1, <2>2, AppendSeq
    <3>3. Delivers(got, Puts, sent')
      BY <1>1, <2>1, <2>2, DeliversMore
    <3>4. Cardinality(Puts) + 1 \in DOMAIN sent' /\ it.x = sent'[Cardinality(Puts) + 1]
      BY <1>1, <2>1, <3>2, ElemSeq
    <3>5. Delivers(got', Puts', sent') /\ Cardinality(Puts') = Len(sent')
      <4>1. Delivers(Append(got, it), Puts \cup {Len(got) + 1}, sent')
        BY <1>1, <1>2, <3>3, <3>4, DeliversNext DEF size
      <4>2. Cardinality(Puts \cup {size + 1}) = Cardinality(Puts) + 1
        BY <1>1, <1>2, RankAdd
      <4> QED
        BY <2>1, <3>1, <3>2, <4>1, <4>2 DEF size, it
    <3>6. StreamPuts'
      BY <1>5, <1>7, <2>1, <3>5
    <3>7. stage = "keepIf" => Callback(x) # "bad"
      BY <2>2 DEF PutsNext, Streams
    <3>8. StreamOK'
      <4>1. stage = "compact" => sent'[Len(sent')] = got'[Len(got')].x
        BY <1>1, <1>3, <3>2
      <4>2. stage = "keepIf" => \A i \in 1..Len(got') : Callback(got'[i].x) # "bad"
        BY <1>1, <1>3, <1>9, <3>7 DEF StreamOK, size
      <4> QED
        BY <1>3, <2>2, <3>2, <4>1, <4>2 DEF StreamOK
    <3> QED
      BY <3>6, <3>8
  <2>3. CASE PutsNext(x) /\ sent' = sent /\ outErr' = "gone"
    <3>1. Ok(got', Upto(Puts', size), sent')
      BY <1>6, <1>7, <1>8, <2>1, <2>3
    <3>2. StreamPuts'
      BY <1>5, <2>1, <2>3, <3>1
    <3> QED
      BY <2>3, <3>2 DEF StreamOK
  <2>4. CASE ~PutsNext(x) /\ sent' = sent /\ outErr' = "nil" /\ (stage = "keepIf" => Callback(x) # "bad")
    <3>1. Puts' = Puts
      BY <1>2, <2>4
    <3>2. Ok(got', Upto(Puts', size + 1), sent')
      BY <1>6, <1>7, <1>8, <2>1, <2>4, <3>1
    <3>3. StreamPuts'
      BY <1>5, <2>1, <3>2
    <3>4. stage = "compact" => sent # <<>> /\ sent[Len(sent)] = got'[Len(got')].x
      <4> SUFFICES ASSUME stage = "compact" PROVE sent # <<>> /\ sent[Len(sent)] = got'[Len(got')].x
        OBVIOUS
      <4>1. size # 0 /\ x = got[size].x
        BY <2>4 DEF PutsNext, size
      <4>2. got # <<>>
        BY <1>1, <4>1, ElemSeq DEF size
      <4> QED
        BY <1>1, <1>3, <1>9, <4>1, <4>2 DEF StreamOK, size
    <3>5. stage = "keepIf" => \A i \in 1..Len(got') : Callback(got'[i].x) # "bad"
      BY <1>1, <1>3, <1>9, <2>4 DEF StreamOK, size
    <3>6. StreamOK'
      BY <1>3, <2>4, <3>4, <3>5 DEF StreamOK
    <3> QED
      BY <3>3, <3>6
  <2>5. CASE ~PutsNext(x) /\ sent' = sent /\ outErr' = "callback" /\ stage = "keepIf" /\ Callback(x) = "bad"
    <3>1. Puts' = Puts
      BY <1>2, <2>5
    <3>2. Ok(got', Upto(Puts', size + 1), sent')
      BY <1>6, <1>7, <1>8, <2>1, <2>5, <3>1
    <3>3. StreamPuts'
      BY <1>5, <2>1, <3>2
    <3>4. size + 1 \in 1..Len(got') /\ Callback(got'[size + 1].x) = "bad"
      BY <1>1, <1>3, <2>5
    <3>5. StreamOK'
      BY <2>5, <3>4 DEF StreamOK
    <3> QED
      BY <3>3, <3>5
  <2> QED
    BY <1>1, <1>9, <2>2, <2>3, <2>4, <2>5, CallEachPuts
<1>10. CASE outErr # "nil"
  <2>1. sent' = sent /\ outErr' = outErr
    BY <1>10 DEF CallEach, outVars
  <2>2. CASE outErr = "gone"
    <3>1. m \in 0..size + 1 /\ Ok(got', Upto(Puts', m), sent')
      BY <1>1, <1>4, <1>6, <1>8, <2>1
    <3>2. StreamPuts'
      BY <1>5, <2>1, <2>2, <3>1
    <3> QED
      BY <2>1, <2>2, <3>2 DEF StreamOK
  <2>3. CASE outErr = "callback"
    <3>0. stage = "keepIf"
      BY <2>3 DEF StageOK
    <3>1. PICK j \in 1..size : Callback(got[j].x) = "bad"
      BY <2>3, <3>0 DEF StreamOK, size
    <3>2. Puts' = Puts
      BY <1>2, <3>0, <3>1 DEF PutsNext, size
    <3>3. m = size /\ Ok(got', Upto(Puts', size + 1), sent') /\ size + 1 \in 0..size + 1
      BY <1>1, <1>4, <1>6, <1>7, <1>8, <2>1, <2>3, <3>2
    <3>4. StreamPuts'
      BY <1>5, <3>3
    <3>5. j \in 1..Len(got') /\ Callback(got'[j].x) = "bad"
      BY <1>1, <1>3, <3>1
    <3>6. StreamOK'
      BY <2>1, <2>3, <3>0, <3>5 DEF StreamOK
    <3> QED
      BY <3>4, <3>6
  <2> QED
    BY <1>10, <2>2, <2>3 DEF PortTypeOK, StageOK
<1> QED
  BY <1>9, <1>10

\* A stream builtin has put just the inputs it should, in every state.
LEMMA StreamAlways == PortsSpec => [](StreamPuts /\ StreamOK)
<1>1. PortsInit => StreamPuts /\ StreamOK
  <2> SUFFICES ASSUME PortsInit PROVE StreamPuts /\ StreamOK
    OBVIOUS
  <2>1. got = <<>> /\ sent = <<>> /\ outErr = "nil"
    BY DEF PortsInit
  <2>2. StreamOK
    BY <2>1 DEF StreamOK
  <2>3. Cardinality({}) = 0 /\ Len(<<>>) = 0
    BY FS_EmptySet
  <2>4. ASSUME stage \in Streams PROVE Puts = {}
    BY <2>1, <2>4 DEF Puts, Streams
  <2>5. stage \in Streams => {i \in Puts : i <= 0} = {}
    BY <2>4
  <2>6. Delivers(got, {}, sent)
    BY DEF Delivers
  <2>7. 0 \in 0..Len(got) /\ 0 = Len(got)
    BY <2>1, <2>3
  <2>8. stage \in Streams => Delivers(got, {i \in Puts : i <= 0}, sent) /\ Cardinality({i \in Puts : i <= 0}) = Len(sent)
    BY <2>1, <2>3, <2>5, <2>6
  <2> QED
    BY <2>2, <2>7, <2>8 DEF StreamPuts
<1>2. PortTypeOK /\ StageOK /\ StreamPuts /\ StreamOK /\ [PortsNext]_portVars => StreamPuts' /\ StreamOK'
  <2> SUFFICES ASSUME PortTypeOK, StageOK, StreamPuts, StreamOK, [PortsNext]_portVars PROVE StreamPuts' /\ StreamOK'
    OBVIOUS
  <2>0. stage' = stage
    BY StageFixed
  <2>1. CASE UNCHANGED <<got, sent, outErr>>
    <3>1. Puts' = Puts
      BY <2>0, <2>1 DEF Puts
    <3>2. StreamPuts'
      BY <2>0, <2>1, <3>1 DEF StreamPuts
    <3> QED
      BY <2>0, <2>1, <3>2 DEF StreamOK
  <2>2. CASE stage \notin Streams \ {"one", "count"}
    BY <2>0, <2>2 DEF StreamPuts, StreamOK, Streams
  <2>3. CASE stage \in Streams \ {"one", "count"} /\ TakeInput
    <3>1. CASE CallEach(value) /\ got' = Append(got, Item("value", value))
      BY <2>0, <2>3, <3>1, StreamCall DEF PortTypeOK
    <3>2. CASE CallEach(ChopLineEnding(line)) /\ got' = Append(got, Item("byte", ChopLineEnding(line)))
      BY <2>0, <2>3, <3>2, StreamCall, ChopType DEF PortTypeOK
    <3> QED
      BY <2>3, <3>1, <3>2 DEF TakeInput
  <2>4. CASE stage \in Streams \ {"one", "count"} /\ ~TakeInput
    <3>1. CASE Write \/ BgPut
      BY <2>1, <3>1 DEF Write, BgPut, readersSame, outVars
    <3>2. CASE RecvValue
      BY <2>1, <2>4, <3>2 DEF RecvValue, Hold, Streams, outVars
    <3>3. CASE WritePiece
      BY <2>1, <3>3 DEF WritePiece, outVars
    <3>4. CASE ReadByte
      BY <2>1, <2>4, <3>4 DEF ReadByte, LineRead, Streams, ByLine, outVars
    <3>5. CASE BytesEnd
      BY <2>1, <2>4, <3>5 DEF BytesEnd, LineRead, Streams, outVars
    <3>6. CASE ReturnFromStage
      BY <2>1, <2>4, <3>6 DEF ReturnFromStage, AtEnd, Streams, readersSame, outVars
    <3> QED
      BY <2>1, <2>4, <3>1, <3>2, <3>3, <3>4, <3>5, <3>6, QuietSteps
  <2> QED
    BY <2>2, <2>3, <2>4
<1> QED
  BY <1>1, <1>2, PortTypeAlways, StageOKAlways, PTL DEF PortsSpec

-----------------------------------------------------------------------------
(* Lines.                                                                  *)

\* The lines between ends.
LEMMA LinesOfType ==
    ASSUME NEW t \in Text, NEW ends \in Seq(Nat), LineEnds(t, ends)
    PROVE  /\ LinesOf(t, ends) \in Seq(Text) /\ Len(LinesOf(t, ends)) = Len(ends)
           /\ DOMAIN LinesOf(t, ends) = 1..Len(ends)
           /\ \A k \in 1..Len(ends) : Before(ends, k) \in Nat /\ ends[k] \in Before(ends, k) + 1 .. Len(t)
<1>1. Len(ends) \in Nat /\ DOMAIN ends = 1..Len(ends) /\ Len(t) \in Nat /\ (\A i \in 1..Len(t) : t[i] \in Chars)
  BY ElemSeq DEF Text
<1>2. ASSUME NEW k \in 1..Len(ends)
      PROVE  Before(ends, k) \in Nat /\ ends[k] \in Before(ends, k) + 1 .. Len(t) /\ ends[k] \in Nat
  <2>1. \A i \in 1..Len(ends) : ends[i] \in Nat
    BY ElemSeq
  <2>2. Before(ends, k) \in Nat
    BY <1>1, <2>1 DEF Before
  <2>3. ends[k] \in Before(ends, k) + 1 .. Len(t)
    BY <1>1 DEF LineEnds
  <2> QED
    BY <2>1, <2>2, <2>3
<1>3. ASSUME NEW k \in 1..Len(ends)
      PROVE  ChopLineEnding(SubSeq(t, Before(ends, k) + 1, ends[k])) \in Text
  <2>1. \A i \in Before(ends, k) + 1 .. ends[k] : t[i] \in Chars
    BY <1>1, <1>2
  <2>2. SubSeq(t, Before(ends, k) + 1, ends[k]) \in Seq(Chars)
    BY <1>2, <2>1, SubSeqProperties
  <2> QED
    BY <2>2, ChopType DEF Text
<1>4. LinesOf(t, ends) \in [1..Len(ends) -> Text]
  BY <1>1, <1>3 DEF LinesOf
<1> QED
  BY <1>1, <1>2, <1>4

\* Lines that have ended stay as they are when text is added.
LEMMA LinesStay ==
    ASSUME NEW t \in Text, NEW b \in Chars, NEW ends \in Seq(Nat), LineEnds(t, ends),
           \A k \in 1..Len(ends) : t[ends[k]] = "\n"
    PROVE  LineEnds(Append(t, b), ends) /\ LinesOf(Append(t, b), ends) = LinesOf(t, ends)
<1> DEFINE t1 == Append(t, b)
<1>1. /\ Len(t) \in Nat /\ Len(t1) = Len(t) + 1 /\ (\A i \in 1..Len(t) : t1[i] = t[i])
      /\ DOMAIN ends = 1..Len(ends) /\ \A i \in 1..Len(t) : t[i] \in Chars
  BY AppendSeq, ElemSeq DEF Text
<1> HIDE DEF t1
<1>2. \A k \in 1..Len(ends) : Before(ends, k) \in Nat /\ ends[k] \in Before(ends, k) + 1 .. Len(t)
  BY LinesOfType
<1>3. LineEnds(t1, ends)
  <2> SUFFICES ASSUME NEW k \in 1..Len(ends)
               PROVE  /\ ends[k] \in Before(ends, k) + 1 .. Len(t1)
                      /\ \A i \in Before(ends, k) + 1 .. ends[k] - 1 : t1[i] # "\n"
                      /\ t1[ends[k]] = "\n"
    BY <1>1 DEF LineEnds
  <2>1. \A i \in Before(ends, k) + 1 .. ends[k] - 1 : t[i] # "\n"
    BY <1>1 DEF LineEnds
  <2> DEFINE p == Before(ends, k)  q == ends[k]
  <2>2. p \in Nat /\ q \in p + 1 .. Len(t) /\ t[q] = "\n"
    BY <1>2
  <2> HIDE DEF p, q
  <2>3. \A i \in p + 1 .. q : i \in 1..Len(t)
    BY <1>1, <2>2
  <2>4. q \in p + 1 .. Len(t1) /\ q \in p + 1 .. q
    BY <1>1, <2>2
  <2>5. \A i \in p + 1 .. q - 1 : i \in p + 1 .. q
    BY <2>2
  <2>6. \A i \in p + 1 .. q - 1 : t1[i] # "\n"
    BY <1>1, <2>1, <2>3, <2>5 DEF p, q
  <2>7. t1[q] = "\n"
    BY <1>1, <2>2, <2>3, <2>4
  <2> QED
    BY <2>4, <2>6, <2>7 DEF p, q
<1>4. ASSUME NEW k \in 1..Len(ends)
      PROVE  SubSeq(t1, Before(ends, k) + 1, ends[k]) = SubSeq(t, Before(ends, k) + 1, ends[k])
  <2> DEFINE p == Before(ends, k) + 1  q == ends[k]
  <2>1. p \in Nat \ {0} /\ q \in p..Len(t)
    BY <1>2
  <2> HIDE DEF p, q
  <2>2. \A i \in p..q : t[i] \in Chars /\ t1[i] \in Chars /\ t1[i] = t[i]
    BY <1>1, <2>1
  <2>3. /\ SubSeq(t, p, q) \in Seq(Chars) /\ SubSeq(t1, p, q) \in Seq(Chars)
        /\ Len(SubSeq(t, p, q)) = Len(SubSeq(t1, p, q)) /\ Len(SubSeq(t, p, q)) = q - p + 1
        /\ \A i \in 1..q - p + 1 : SubSeq(t, p, q)[i] = t[p + i - 1]
        /\ \A i \in 1..q - p + 1 : SubSeq(t1, p, q)[i] = t1[p + i - 1]
    BY <2>1, <2>2, SubSeqProperties
  <2>4. \A i \in 1..q - p + 1 : SubSeq(t, p, q)[i] = SubSeq(t1, p, q)[i]
    BY <2>1, <2>2, <2>3
  <2> QED
    BY <2>3, <2>4, SameSeq DEF p, q
<1>5. LinesOf(t1, ends) = LinesOf(t, ends)
  BY <1>1, <1>4 DEF LinesOf
<1> QED
  BY <1>3, <1>5 DEF t1

\* The next line of t after these ends is s, up to e, and what holds with it.
NextLine(t, ends, s, last, e) ==
    /\ s # <<>> /\ Before(ends, Len(ends) + 1) = last /\ last + Len(s) = e /\ e <= Len(t)
    /\ \A k \in 1..Len(s) : s[k] = t[last + k] /\ (k < Len(s) => s[k] # "\n")
    /\ s[Len(s)] = "\n" \/ (e = Len(t) /\ stage # "StringCapturePort")
LineTaken(t, ends, s, e, ends1) ==
    /\ ends1 \in Seq(Nat) /\ Len(ends1) = Len(ends) + 1 /\ LineEnds(t, ends1)
    /\ LinesOf(t, ends1) = Append(LinesOf(t, ends), ChopLineEnding(s))
    /\ Before(ends1, Len(ends1) + 1) = e /\ ends1[Len(ends) + 1] = e /\ t[e] = s[Len(s)]
    /\ \A k \in 1..Len(ends1) : ends1[k] >= k /\ (k <= Len(ends) => t[ends1[k]] = "\n")

\* The ends of the lines with one more line.
LEMMA LineAdded ==
    ASSUME NEW t \in Text, NEW ends \in Seq(Nat), LineEnds(t, ends), \A k \in 1..Len(ends) : ends[k] >= k,
           NEW s \in Text, NEW last \in Nat, NEW e \in Nat, NextLine(t, ends, s, last, e)
    PROVE  LineTaken(t, ends, s, e, Append(ends, e))
<1>0. /\ s # <<>> /\ Before(ends, Len(ends) + 1) = last /\ last + Len(s) = e /\ e <= Len(t)
      /\ \A k \in 1..Len(s) : s[k] = t[last + k] /\ (k < Len(s) => s[k] # "\n")
      /\ s[Len(s)] = "\n" \/ (e = Len(t) /\ stage # "StringCapturePort")
  BY DEF NextLine
<1> USE <1>0
<1> DEFINE size == Len(ends)  ends1 == Append(ends, e)
<1>1. /\ size \in Nat /\ DOMAIN ends = 1..size /\ Len(t) \in Nat /\ Len(s) \in Nat \ {0}
      /\ \A k \in 1..size : ends[k] \in Nat
      /\ \A i \in 1..Len(t) : t[i] \in Chars
  BY ElemSeq DEF Text
<1>2. last \in Nat /\ e \in Nat /\ last < e /\ (size # 0 => last = ends[size]) /\ (size = 0 => last = 0)
  BY <1>1 DEF Before
<1>3. /\ ends1 \in Seq(Nat) /\ Len(ends1) = size + 1 /\ ends1[size + 1] = e /\ DOMAIN ends1 = 1..size + 1
      /\ \A k \in 1..size : ends1[k] = ends[k]
  BY <1>1, <1>2, AppendSeq, ElemSeq
<1> HIDE DEF size, ends1
<1>4. \A k \in 1..size : Before(ends1, k) = Before(ends, k)
  BY <1>1, <1>3 DEF Before
<1>5. Before(ends1, size + 1) = last /\ Before(ends1, size + 2) = e
  <2>1. CASE size = 0
    BY <1>2, <1>3, <2>1 DEF Before
  <2>2. CASE size # 0
    BY <1>1, <1>2, <1>3, <2>2 DEF Before
  <2> QED
    BY <2>1, <2>2
<1>6. \A k \in 1..size : t[ends[k]] = "\n"
  <2> SUFFICES ASSUME NEW k \in 1..size PROVE t[ends[k]] = "\n"
    OBVIOUS
  <2>1. t[ends[k]] = "\n" \/ (k = size /\ ends[k] = Len(t))
    BY <1>1 DEF LineEnds, size
  <2> QED
    BY <1>1, <1>2, <2>1
<1>7. t[e] = s[Len(s)]
  <2>1. Len(s) \in 1..Len(s)
    BY <1>1
  <2> QED
    BY <2>1
<1>8. \A i \in last + 1 .. e - 1 : t[i] # "\n"
  <2> SUFFICES ASSUME NEW i \in last + 1 .. e - 1 PROVE t[i] # "\n"
    OBVIOUS
  <2>1. i - last \in 1..Len(s) /\ i - last < Len(s) /\ last + (i - last) = i
    BY <1>1, <1>2
  <2> QED
    BY <2>1
<1>9. LineEnds(t, ends1)
  <2> SUFFICES ASSUME NEW k \in 1..size + 1
               PROVE  /\ ends1[k] \in Before(ends1, k) + 1 .. Len(t)
                      /\ \A i \in Before(ends1, k) + 1 .. ends1[k] - 1 : t[i] # "\n"
                      /\ t[ends1[k]] = "\n" \/ (k = Len(ends1) /\ ends1[k] = Len(t) /\ stage # "StringCapturePort")
    BY <1>3 DEF LineEnds
  <2>1. CASE k = size + 1
    <3>1. ends1[k] = e /\ Before(ends1, k) = last /\ k = Len(ends1)
      BY <1>3, <1>5, <2>1
    <3>2. e \in last + 1 .. Len(t)
      BY <1>1, <1>2
    <3>3. t[e] = "\n" \/ (e = Len(t) /\ stage # "StringCapturePort")
      BY <1>7
    <3> QED
      BY <1>8, <3>1, <3>2, <3>3
  <2>2. CASE k # size + 1
    <3>1. k \in 1..size
      BY <1>1, <2>2
    <3> QED
      BY <1>1, <1>3, <1>4, <1>6, <3>1 DEF LineEnds
  <2> QED
    BY <2>1, <2>2
<1>10. SubSeq(t, last + 1, e) = s
  <2>1. \A i \in last + 1 .. e : t[i] \in Chars
    BY <1>1, <1>2
  <2>2. last + 1 \in Int /\ e \in Int /\ last + 1 <= e /\ e - (last + 1) + 1 = Len(s)
    BY <1>1, <1>2
  <2>3. /\ SubSeq(t, last + 1, e) \in Seq(Chars)
        /\ Len(SubSeq(t, last + 1, e)) = e - (last + 1) + 1
        /\ \A i \in 1..e - (last + 1) + 1 : SubSeq(t, last + 1, e)[i] = t[last + 1 + i - 1]
    BY <2>1, <2>2, SubSeqProperties
  <2>4. \A i \in 1..Len(s) : last + 1 + i - 1 = last + i
    BY <1>1, <1>2
  <2>5. \A i \in 1..Len(s) : SubSeq(t, last + 1, e)[i] = s[i]
    BY <2>2, <2>3, <2>4
  <2> QED
    BY <2>2, <2>3, <2>5, SameSeq DEF Text
<1>11. LinesOf(t, ends1) = Append(LinesOf(t, ends), ChopLineEnding(s))
  <2> DEFINE L == LinesOf(t, ends)  L1 == LinesOf(t, ends1)  c == ChopLineEnding(s)
  <2>1. /\ L \in Seq(Text) /\ Len(L) = size /\ L1 \in Seq(Text) /\ Len(L1) = size + 1 /\ c \in Text
    BY <1>3, <1>9, LinesOfType, ChopType DEF size
  <2>2. \A k \in 1..size : L1[k] = L[k]
    BY <1>1, <1>2, <1>3, <1>4 DEF LinesOf
  <2>3. L1[size + 1] = c
    <3>1. size + 1 \in DOMAIN ends1
      BY <1>1, <1>3
    <3>2. L1[size + 1] = ChopLineEnding(SubSeq(t, Before(ends1, size + 1) + 1, ends1[size + 1]))
      BY <3>1, Zenon DEF LinesOf
    <3> QED
      BY <1>3, <1>5, <1>10, <3>2
  <2> HIDE DEF L, L1, c
  <2>4. /\ Append(L, c) \in Seq(Text) /\ Len(Append(L, c)) = size + 1 /\ Append(L, c)[size + 1] = c
        /\ \A k \in 1..size : Append(L, c)[k] = L[k]
    BY <2>1, AppendSeq
  <2>5. \A k \in 1..size + 1 : L1[k] = Append(L, c)[k]
    BY <1>1, <2>2, <2>3, <2>4
  <2> QED
    BY <2>1, <2>4, <2>5, SameSeq DEF L, L1, c
<1>12. \A k \in 1..size + 1 : ends1[k] >= k /\ (k <= size => t[ends1[k]] = "\n")
  <2> SUFFICES ASSUME NEW k \in 1..size + 1 PROVE ends1[k] >= k /\ (k <= size => t[ends1[k]] = "\n")
    OBVIOUS
  <2>1. CASE k = size + 1
    <3>1. last >= size
      BY <1>1, <1>2 DEF size
    <3> QED
      BY <1>1, <1>2, <1>3, <2>1, <3>1
  <2>2. CASE k # size + 1
    <3>1. k \in 1..size /\ ends[k] >= k
      BY <1>1, <2>2 DEF size
    <3> QED
      BY <1>3, <1>6, <3>1
  <2> QED
    BY <2>1, <2>2
<1>13. Before(ends1, Len(ends1) + 1) = e
  <2>1. Len(ends1) + 1 = size + 2
    BY <1>1, <1>3
  <2> QED
    BY <1>5, <2>1
<1> QED
  BY <1>3, <1>7, <1>9, <1>11, <1>12, <1>13 DEF size, ends1, LineTaken

\* A line comes out: it is handed to the caller, or put by from-lines.
LEMMA LineComesOut ==
    ASSUME PortTypeOK, stage' = stage, NEW ends \in Seq(Nat), LinesOut(ends),
           NEW s \in Text, NEW last \in Nat, NEW e \in Nat, NextLine(text, ends, s, last, e),
           fileOpen => s[Len(s)] = "\n",
           UNCHANGED <<text, fileOpen>>, line' = <<>>, ReadSoFar' = e, byteRd' \in {"read", "done"},
           stage = "readLine" => Len(ends) = 0 /\ byteRd' = "done",
           ReadsLines => got' = Append(got, Item("byte", ChopLineEnding(s))),
           stage = "fromLines" => sent' = Append(sent, ChopLineEnding(s))
    PROVE  Append(ends, e) \in Seq(Nat) /\ LinesOut(Append(ends, e))' /\ LinesIn(Append(ends, e))'
<1> DEFINE ends1 == Append(ends, e)  L == LinesOf(text, ends)  c == ChopLineEnding(s)
<1>1. text \in Text /\ got \in Seq(GotItems) /\ c \in Text /\ LineEnds(text, ends) /\ Len(ends) \in Nat
  BY ChopType, ElemSeq DEF PortTypeOK, LinesOut
<1>2. \A k \in 1..Len(ends) : ends[k] >= k
  BY DEF LinesOut
<1>3. /\ ends1 \in Seq(Nat) /\ Len(ends1) = Len(ends) + 1 /\ LineEnds(text, ends1)
      /\ LinesOf(text, ends1) = Append(L, c)
      /\ Before(ends1, Len(ends1) + 1) = e /\ ends1[Len(ends) + 1] = e /\ text[e] = s[Len(s)]
      /\ \A k \in 1..Len(ends1) : ends1[k] >= k /\ (k <= Len(ends) => text[ends1[k]] = "\n")
  <2>1. LineTaken(text, ends, s, e, ends1)
    BY <1>1, <1>2, LineAdded
  <2> QED
    BY <2>1 DEF LineTaken
<1>5. L \in Seq(Text) /\ Len(L) = Len(ends)
  BY <1>1, LinesOfType
<1> HIDE DEF ends1, L, c
<1>6. /\ Append(L, c) \in Seq(Text) /\ Append(L, c)[Len(ends) + 1] = c /\ DOMAIN Append(L, c) = 1..Len(ends) + 1
  BY <1>1, <1>5, AppendSeq, ElemSeq
<1>7. LineEnds(text, ends1)'
  BY <1>3 DEF LineEnds
<1>8. \A k \in 1..Len(ends1) : ends1[k] >= k /\ (fileOpen' => text'[ends1[k]] = "\n")
  <2> SUFFICES ASSUME NEW k \in 1..Len(ends1), fileOpen, k = Len(ends) + 1 PROVE text[ends1[k]] = "\n"
    BY <1>1, <1>3
  <2> QED
    BY <1>3
<1>9. LinesOf(text', ends1) = Append(L, c)
  BY <1>3
<1>10. ReadsLines' => /\ Delivers(got', From(got', "byte"), LinesOf(text', ends1))
                      /\ Cardinality(From(got', "byte")) = Len(ends1)
  <2> SUFFICES ASSUME ReadsLines PROVE /\ Delivers(got', From(got', "byte"), Append(L, c))
                                       /\ Cardinality(From(got', "byte")) = Len(ends) + 1
    BY <1>3, <1>9 DEF ReadsLines
  <2>1. Delivers(got, From(got, "byte"), L) /\ Cardinality(From(got, "byte")) = Len(ends)
    BY DEF LinesOut, L
  <2>2. Delivers(got, From(got, "byte"), Append(L, c))
    BY <1>5, <2>1, DeliversMore
  <2>3. Item("byte", c) \in GotItems /\ Item("byte", c).band = "byte" /\ Item("byte", c).x = c
    BY <1>1, ItemType
  <2>4. Len(ends) + 1 \in DOMAIN Append(L, c)
    BY <1>1, <1>6
  <2>5. got' = Append(got, Item("byte", c))
    BY DEF c
  <2> DEFINE it == Item("byte", c)  got1 == Append(got, it)  S == From(got, "byte")  L1 == Append(L, c)
  <2>6. Cardinality(S) + 1 \in DOMAIN L1 /\ it.x = L1[Cardinality(S) + 1]
    BY <1>6, <2>1, <2>3, <2>4
  <2>7. Delivers(got1, From(got1, "byte"), L1) /\ Cardinality(From(got1, "byte")) = Cardinality(S) + 1
    <3>1. Delivers(got, S, L1) /\ it \in GotItems /\ it.band = "byte"
      BY <2>2, <2>3
    <3> HIDE DEF it, L1
    <3> QED
      BY <1>1, <2>6, <3>1, DeliversStep
  <2> QED
    BY <2>1, <2>5, <2>7
<1>11. stage' = "fromLines" => sent' = LinesOf(text', ends1)
  BY <1>9 DEF LinesOut, L, c
<1>12. LinesOut(ends1)'
  BY <1>7, <1>8, <1>10, <1>11 DEF LinesOut
<1>13. LineAfter(Before(ends1, Len(ends1) + 1))'
  <2>1. Len(line') = 0 /\ e + 0 = e
    OBVIOUS
  <2> QED
    BY <1>3, <2>1 DEF LineAfter
<1>14. LinesIn(ends1)'
  BY <1>1, <1>3, <1>13 DEF LinesIn
<1> QED
  BY <1>3, <1>12, <1>14 DEF ends1

\* What has come out stays as it is while no line does.
LEMMA LinesOutStays ==
    ASSUME PortTypeOK, stage' = stage, NEW ends \in Seq(Nat), LinesOut(ends), text' = text, fileOpen' => fileOpen,
           stage = "fromLines" => sent' = sent,
           ReadsLines => got' = got \/ \E x \in Text : got' = Append(got, Item("value", x))
    PROVE  LinesOut(ends)'
<1>1. LineEnds(text, ends)'
  BY DEF LinesOut, LineEnds
<1>2. LinesOf(text, ends)' = LinesOf(text, ends)
  OBVIOUS
<1>3. ASSUME ReadsLines
      PROVE  Delivers(got', From(got', "byte"), LinesOf(text, ends)) /\ Cardinality(From(got', "byte")) = Len(ends)
  <2> DEFINE L == LinesOf(text, ends)
  <2>1. Delivers(got, From(got, "byte"), L) /\ Cardinality(From(got, "byte")) = Len(ends) /\ got \in Seq(GotItems)
    BY <1>3 DEF LinesOut, PortTypeOK
  <2> HIDE DEF L
  <2>2. ASSUME NEW x \in Text, got' = Append(got, Item("value", x))
        PROVE  Delivers(got', From(got', "byte"), L) /\ Cardinality(From(got', "byte")) = Len(ends)
    <3>1. Item("value", x) \in GotItems /\ Item("value", x).band # "byte"
      BY ItemType
    <3> QED
      BY <2>1, <2>2, <3>1, DeliversStep
  <2> QED
    BY <1>3, <2>1, <2>2 DEF L
<1>4. ReadsLines' <=> ReadsLines
  BY DEF ReadsLines
<1> QED
  BY <1>1, <1>2, <1>3, <1>4 DEF LinesOut

\* So do the line that is read, and what is held.
LEMMA LinesInStays ==
    ASSUME stage' = stage, NEW ends \in Seq(Nat), LinesIn(ends), UNCHANGED <<text, pipe, line, byteRd>>,
           stage = "fromLines" => outErr' = outErr, BytesOver => BytesOver'
    PROVE  LinesIn(ends)'
BY DEF LinesIn, LineAfter, ReadSoFar

\* What has come out of the byte band is its lines so far, and the line that is being read begins
\* after the last of them, in every state.
LEMMA LinesGotAlways == PortsSpec => []LinesGot
<1>1. PortsInit => LinesGot
  <2>0. <<>> \in Seq(Nat)
    OBVIOUS
  <2> SUFFICES ASSUME PortsInit, ByLine PROVE LinesOut(<<>>) /\ LinesIn(<<>>)
    BY <2>0 DEF LinesGot
  <2>1. /\ text = <<>> /\ pipe = <<>> /\ got = <<>> /\ sent = <<>> /\ line = <<>> /\ byteRd = "read"
    BY DEF PortsInit, ByLine, Streams
  <2>2. LineEnds(text, <<>>) /\ Len(<<>>) = 0
    BY DEF LineEnds
  <2>3. LinesOf(text, <<>>) = <<>>
    <3>1. text \in Text /\ <<>> \in Seq(Nat)
      BY <2>1, WritesType
    <3>2. LinesOf(text, <<>>) \in Seq(Text) /\ Len(LinesOf(text, <<>>)) = 0
      BY <2>2, <3>1, LinesOfType
    <3> QED
      BY <3>2, ElemSeq
  <2>4. From(got, "byte") = {} /\ Cardinality({}) = 0
    BY <2>1, FS_EmptySet DEF From
  <2>5. LinesOut(<<>>)
    <3>1. Delivers(got, From(got, "byte"), LinesOf(text, <<>>)) /\ Cardinality(From(got, "byte")) = Len(<<>>)
      BY <2>2, <2>4 DEF Delivers
    <3>2. \A k \in 1..Len(<<>>) : FALSE
      BY <2>2
    <3> QED
      BY <2>1, <2>2, <2>3, <3>1, <3>2 DEF LinesOut
  <2>6. LinesIn(<<>>)
    BY <2>1, <2>2 DEF LinesIn, LineAfter, Before, ReadSoFar
  <2> QED
    BY <2>5, <2>6
<1>2. BandsEnd /\ PortTypeOK /\ StageOK /\ BandRests /\ LinesGot /\ [PortsNext]_portVars => LinesGot'
  <2> SUFFICES ASSUME BandsEnd, PortTypeOK, StageOK, BandRests, LinesGot, [PortsNext]_portVars, ByLine' PROVE LinesGot'
    BY DEF LinesGot
  <2>0. stage' = stage /\ ByLine /\ stage # "FilePort" /\ (ReadsLines <=> stage # "fromLines")
    <3>1. stage' = stage
      BY StageFixed
    <3> QED
      BY <3>1 DEF ByLine, ReadsLines, Streams
  <2>1. PICK ends \in Seq(Nat) : LinesOut(ends) /\ LinesIn(ends)
    BY <2>0 DEF LinesGot
  <2>2. ASSUME NEW ends1 \in Seq(Nat), LinesOut(ends1)', LinesIn(ends1)' PROVE LinesGot'
    BY <2>2 DEF LinesGot
  <2> DEFINE last == Before(ends, Len(ends) + 1)
  <2>3. /\ text \in Text /\ pipe \in Text /\ line \in Text /\ Len(text) \in Nat /\ Len(pipe) \in Nat /\ Len(line) \in Nat
        /\ Len(pipe) <= Len(text) /\ ReadSoFar \in 0..Len(text) /\ Len(ends) \in Nat /\ last \in Nat
        /\ pipe = <<>> => ReadSoFar = Len(text)
    <3>1. text \in Text /\ pipe \in Text /\ line \in Text
      BY DEF PortTypeOK
    <3>2. Len(text) \in Nat /\ Len(pipe) \in Nat /\ Len(line) \in Nat /\ (pipe = <<>> => Len(pipe) = 0)
      BY <3>1, ElemSeq DEF Text
    <3>3. Len(pipe) <= Len(text)
      BY <2>0 DEF BandRests, Rest
    <3>4. Len(ends) \in Nat /\ last \in Nat
      BY ElemSeq DEF Before
    <3> QED
      BY <3>1, <3>2, <3>3, <3>4 DEF ReadSoFar
  <2>4. (stage = "fromLines" /\ outErr = "gone") \/ LineAfter(last)
    BY <2>1 DEF LinesIn
  <2> HIDE DEF last
  \* A line comes out.
  <2>5. ASSUME NEW s \in Text, s # <<>>, LineAfter(last), last + Len(s) <= Len(text), ReadSoFar' = last + Len(s),
               \A k \in 1..Len(s) : s[k] = text[last + k] /\ (k < Len(s) => s[k] # "\n"),
               s[Len(s)] = "\n" \/ (last + Len(s) = Len(text) /\ stage # "StringCapturePort" /\ ~fileOpen),
               UNCHANGED <<text, fileOpen>>, line' = <<>>, byteRd' \in {"read", "done"},
               stage = "readLine" => byteRd = "read" /\ byteRd' = "done",
               ReadsLines => got' = Append(got, Item("byte", ChopLineEnding(s))),
               stage = "fromLines" => sent' = Append(sent, ChopLineEnding(s))
        PROVE  LinesGot'
    <3>1. Len(s) \in Nat
      BY ElemSeq DEF Text
    <3>2. PICK e \in Nat : e = last + Len(s)
      BY <2>3, <3>1
    <3>3. NextLine(text, ends, s, last, e)
      BY <2>5, <3>2 DEF NextLine, last
    <3>4. stage = "readLine" => Len(ends) = 0 /\ byteRd' = "done"
      BY <2>1, <2>5 DEF LinesIn
    <3>5. ReadSoFar' = e /\ (fileOpen => s[Len(s)] = "\n")
      BY <2>5, <3>2
    <3>6. Append(ends, e) \in Seq(Nat) /\ LinesOut(Append(ends, e))' /\ LinesIn(Append(ends, e))'
      BY <2>0, <2>1, <2>3, <2>5, <3>2, <3>3, <3>4, <3>5, LineComesOut
    <3> QED
      BY <2>2, <3>6
  \* No line does, and the bytes are left alone.
  <2>6. ASSUME UNCHANGED <<text, pipe, line, byteRd>>, fileOpen' => fileOpen,
               stage = "fromLines" => UNCHANGED <<sent, outErr>>,
               ReadsLines => got' = got \/ \E x \in Text : got' = Append(got, Item("value", x))
        PROVE  LinesGot'
    <3>1. LinesOut(ends)'
      BY <2>0, <2>1, <2>6, LinesOutStays
    <3>2. LinesIn(ends)'
      BY <2>0, <2>1, <2>6, LinesInStays DEF BytesOver
    <3> QED
      BY <2>2, <3>1, <3>2
  <2>7. CASE Write
    <3>1. UNCHANGED <<line, byteRd, fileOpen, sent, outErr, got>> /\ fileOpen
      BY <2>7 DEF Write, readersSame, outVars, BandsEnd
    <3>2. ASSUME NEW b \in Chars, text' = Append(text, b), pipe' = Append(pipe, b), ReadSoFar' = ReadSoFar
          PROVE  LinesGot'
      <4>1. /\ LineEnds(text, ends) /\ \A k \in 1..Len(ends) : text[ends[k]] = "\n"
        BY <2>1, <3>1 DEF LinesOut
      <4>2. LineEnds(text', ends) /\ LinesOf(text', ends) = LinesOf(text, ends)
        BY <2>3, <3>2, <4>1, LinesStay
      <4>3. LineEnds(text, ends)'
        BY <2>0, <4>2 DEF LineEnds
      <4>4. \A i \in 1..Len(text) : text'[i] = text[i]
        BY <2>3, <3>2, AppendSeq DEF Text
      <4>5. \A k \in 1..Len(ends) : ends[k] >= k /\ text'[ends[k]] = "\n"
        <5>1. \A k \in 1..Len(ends) : ends[k] \in 1..Len(text)
          BY <2>3, <4>1, LinesOfType
        <5> QED
          BY <2>1, <4>1, <4>4, <5>1 DEF LinesOut
      <4>6. LinesOut(ends)'
        BY <2>0, <2>1, <3>1, <4>2, <4>3, <4>5 DEF LinesOut, ReadsLines
      <4>7. LineAfter(last) => LineAfter(last)'
        <5> SUFFICES ASSUME LineAfter(last) PROVE LineAfter(last)'
          OBVIOUS
        <5>1. last' = last
          BY DEF last
        <5>2. \A k \in 1..Len(line) : last + k \in 1..Len(text)
          BY <2>3 DEF LineAfter
        <5> QED
          BY <2>0, <3>1, <3>2, <4>4, <5>1, <5>2 DEF LineAfter
      <4>8. LinesIn(ends)'
        BY <2>0, <2>1, <2>4, <3>1, <4>7 DEF LinesIn, BytesOver, last
      <4> QED
        BY <2>2, <4>6, <4>8
    <3> QED
      BY <2>0, <2>6, <2>7, <3>1, <3>2, ByteWritten
  <2>8. CASE BgPut
    BY <2>6, <2>8 DEF BgPut, readersSame, outVars
  <2>9. CASE RecvValue
    <3>1. UNCHANGED <<text, pipe, line, byteRd, fileOpen>> /\ Head(chan) \in Text
      BY <2>9, TailSeq DEF RecvValue, writerVars, PortTypeOK
    <3>2. stage = "fromLines" => UNCHANGED <<sent, outErr>>
      BY <2>9 DEF RecvValue, Streams, outVars
    <3>3. got' = got \/ got' = Append(got, Item("value", Head(chan)))
      BY <2>9 DEF RecvValue, Hold, onlyValues
    <3> QED
      BY <2>6, <3>1, <3>2, <3>3
  <2>10. CASE WritePiece
    BY <2>0, <2>10 DEF WritePiece, PortTypeOK
  <2>11. CASE ReadByte
    <3> DEFINE b == Head(pipe)  s == Append(line, b)
    <3>1. /\ byteRd = "read" /\ pipe # <<>> /\ UNCHANGED <<text, fileOpen>>
          /\ (b # "\n" /\ line' = s /\ UNCHANGED <<byteRd, got, sent, outErr>>) \/ (b = "\n" /\ LineRead(s, FALSE))
      BY <2>0, <2>11 DEF ReadByte, writerVars, outVars, ByLine, Streams
    <3>2. /\ ReadSoFar' = ReadSoFar + 1 /\ b = text[ReadSoFar + 1] /\ b \in Chars /\ ReadSoFar \in Nat
          /\ ReadSoFar + 1 \in 1..Len(text)
      BY <2>11, ByteTaken
    <3>3. LineAfter(last)
      BY <2>4, <3>1 DEF StageOK
    <3>0. last + Len(line) = ReadSoFar
      BY <3>3 DEF LineAfter
    <3>4. \A k \in 1..Len(line) : line[k] = text[last + k] /\ line[k] # "\n"
      BY <3>1, <3>3 DEF LineAfter
    <3>5. /\ s \in Text /\ Len(s) = Len(line) + 1 /\ s[Len(line) + 1] = b /\ s # <<>>
          /\ \A i \in 1..Len(line) : s[i] = line[i]
      <4>1. line \in Seq(Chars) /\ b \in Chars
        BY <2>3, <3>2 DEF Text
      <4> HIDE DEF b
      <4> QED
        BY <4>1, AppendSeq DEF Text
    <3> HIDE DEF s, b
    <3>6. last + Len(s) = ReadSoFar' /\ last + Len(s) <= Len(text)
      BY <2>3, <3>0, <3>2, <3>5
    <3>7. \A k \in 1..Len(s) : s[k] = text[last + k] /\ (k < Len(s) => s[k] # "\n")
      <4> SUFFICES ASSUME NEW k \in 1..Len(s) PROVE s[k] = text[last + k] /\ (k < Len(s) => s[k] # "\n")
        OBVIOUS
      <4>1. CASE k = Len(line) + 1
        <5>1. last + k = ReadSoFar + 1
          BY <2>3, <3>0, <4>1
        <5> QED
          BY <2>3, <3>2, <3>5, <4>1, <5>1
      <4>2. CASE k # Len(line) + 1
        <5>1. k \in 1..Len(line)
          BY <2>3, <3>5, <4>2
        <5> QED
          BY <3>4, <3>5, <5>1
      <4> QED
        BY <4>1, <4>2
    <3>8. s[Len(s)] = b
      BY <3>5
    <3>9. ASSUME LinesOut(ends)', line' = s, byteRd' \in {"read", "hold"}, byteRd' = "hold" <=> b = "\n",
                 byteRd' = "hold" => stage # "readLine"
          PROVE  LinesGot'
      <4>1. last' = last
        BY DEF last
      <4>2. \A k \in 1..Len(s) : s[k] = "\n" <=> (k = Len(s) /\ byteRd' = "hold")
        BY <2>3, <3>5, <3>7, <3>8, <3>9
      <4>3. LineAfter(last)'
        BY <3>1, <3>5, <3>6, <3>7, <3>9, <4>1, <4>2 DEF LineAfter
      <4>4. LinesIn(ends)'
        BY <2>0, <2>1, <3>1, <3>9, <4>3 DEF LinesIn, last
      <4> QED
        BY <2>2, <3>9, <4>4
    <3>10. CASE b # "\n" /\ line' = s /\ UNCHANGED <<byteRd, got, sent, outErr>>
      <4>1. LinesOut(ends)'
        BY <2>0, <2>1, <3>1, <3>10, LinesOutStays
      <4> QED
        BY <3>1, <3>9, <3>10, <4>1
    <3>11. CASE b = "\n" /\ LineRead(s, FALSE)
      <4>1. CASE stage \in Streams /\ line' = s /\ byteRd' = "hold" /\ UNCHANGED <<got, sent, outErr>>
        <5>1. LinesOut(ends)'
          BY <2>0, <2>1, <3>1, <4>1, LinesOutStays
        <5> QED
          BY <3>9, <3>11, <4>1, <5>1 DEF Streams
      <4>2. CASE stage = "fromLines" /\ fromLines(ChopLineEnding(s), "read")
        <5>1. CASE sent' = Append(sent, ChopLineEnding(s)) /\ UNCHANGED outErr
          <6>1. line' = <<>> /\ byteRd' \in {"read", "done"} /\ stage # "readLine" /\ ~ReadsLines
            BY <2>0, <4>2 DEF fromLines
          <6> QED
            BY <2>5, <3>1, <3>3, <3>5, <3>6, <3>7, <3>8, <3>11, <4>2, <5>1, <6>1
        <5>2. CASE outErr' = "gone" /\ UNCHANGED sent
          <6>1. LinesOut(ends)'
            BY <2>0, <2>1, <3>1, <4>2, <5>2, LinesOutStays
          <6>2. LinesIn(ends)'
            BY <2>0, <4>2, <5>2 DEF LinesIn
          <6> QED
            BY <2>2, <6>1, <6>2
        <5> QED
          BY <4>2, <5>1, <5>2 DEF fromLines, Out
      <4>3. CASE /\ stage \notin Streams \cup {"fromLines"}
                 /\ got' = Append(got, Item("byte", ChopLineEnding(s))) /\ line' = <<>>
                 /\ byteRd' = (IF stage = "readLine" THEN "done" ELSE "read")
        <5>1. byteRd' \in {"read", "done"} /\ (stage = "readLine" => byteRd = "read" /\ byteRd' = "done")
          BY <3>1, <4>3
        <5> QED
          BY <2>5, <3>1, <3>3, <3>5, <3>6, <3>7, <3>8, <3>11, <4>3, <5>1
      <4> QED
        BY <3>5, <3>11, <4>1, <4>2, <4>3, LineReadCases
    <3> QED
      BY <3>1, <3>10, <3>11
  <2>12. CASE BytesEnd
    <3>1. /\ byteRd = "read" /\ pipe = <<>> /\ ~fileOpen /\ UNCHANGED <<text, pipe, fileOpen>>
          /\ \/ line # <<>> /\ KeepsRest /\ LineRead(line, TRUE)
             \/ (line = <<>> \/ ~KeepsRest) /\ byteRd' = "done" /\ UNCHANGED <<line, got, sent, outErr>>
      BY <2>12 DEF BytesEnd, writerVars, outVars
    <3>2. ReadSoFar' = ReadSoFar /\ ReadSoFar = Len(text)
      BY <2>3, <3>1 DEF ReadSoFar
    <3>3. LineAfter(last)
      BY <2>4, <3>1 DEF StageOK
    <3>4. last + Len(line) = Len(text) /\ \A k \in 1..Len(line) : line[k] = text[last + k] /\ line[k] # "\n"
      BY <3>1, <3>2, <3>3 DEF LineAfter
    <3>7. /\ last + Len(line) <= Len(text) /\ ReadSoFar' = last + Len(line) /\ last + Len(line) = Len(text)
          /\ \A k \in 1..Len(line) : line[k] = text[last + k] /\ (k < Len(line) => line[k] # "\n")
      BY <2>3, <3>2, <3>4
    <3>5. CASE (line = <<>> \/ ~KeepsRest) /\ byteRd' = "done" /\ UNCHANGED <<line, got, sent, outErr>>
      <4>1. LinesOut(ends)'
        BY <2>0, <2>1, <3>1, <3>5, LinesOutStays
      <4>2. LineAfter(last)'
        <5>1. last' = last
          BY DEF last
        <5> QED
          BY <2>0, <3>1, <3>2, <3>4, <3>5, <5>1 DEF LineAfter, KeepsRest
      <4>3. LinesIn(ends)'
        BY <2>0, <2>1, <3>1, <3>5, <4>2 DEF LinesIn, BytesOver, last
      <4> QED
        BY <2>2, <4>1, <4>3
    <3>6. CASE line # <<>> /\ KeepsRest /\ LineRead(line, TRUE)
      <4>1. CASE stage \in Streams /\ line' = line /\ byteRd' = "holdLast" /\ UNCHANGED <<got, sent, outErr>>
        <5>1. LinesOut(ends)'
          BY <2>0, <2>1, <3>1, <4>1, LinesOutStays
        <5>2. LineAfter(last)'
          <6>1. last' = last
            BY DEF last
          <6> QED
            BY <3>1, <3>2, <3>4, <3>6, <4>1, <6>1 DEF LineAfter
        <5>3. LinesIn(ends)'
          BY <2>0, <4>1, <5>2 DEF LinesIn, last, Streams
        <5> QED
          BY <2>2, <5>1, <5>3
      <4>2. CASE stage = "fromLines" /\ fromLines(ChopLineEnding(line), "done")
        <5>1. CASE sent' = Append(sent, ChopLineEnding(line)) /\ UNCHANGED outErr
          <6>1. /\ line' = <<>> /\ byteRd' \in {"read", "done"} /\ ~ReadsLines
                /\ stage # "readLine" /\ stage # "StringCapturePort"
            BY <2>0, <4>2 DEF fromLines
          <6> QED
            BY <2>3, <2>5, <3>1, <3>3, <3>6, <3>7, <4>2, <5>1, <6>1
        <5>2. CASE outErr' = "gone" /\ UNCHANGED sent
          <6>1. LinesOut(ends)'
            BY <2>0, <2>1, <3>1, <4>2, <5>2, LinesOutStays
          <6>2. LinesIn(ends)'
            BY <2>0, <4>2, <5>2 DEF LinesIn
          <6> QED
            BY <2>2, <6>1, <6>2
        <5> QED
          BY <4>2, <5>1, <5>2 DEF fromLines, Out
      <4>3. CASE /\ stage \notin Streams \cup {"fromLines"}
                 /\ got' = Append(got, Item("byte", ChopLineEnding(line))) /\ line' = <<>> /\ byteRd' = "done"
        <5>1. stage # "StringCapturePort"
          BY <3>6 DEF KeepsRest
        <5> QED
          BY <2>3, <2>5, <3>1, <3>3, <3>6, <3>7, <4>3, <5>1
      <4> QED
        BY <2>3, <3>6, <4>1, <4>2, <4>3, LineReadCases
    <3> QED
      BY <3>1, <3>5, <3>6
  <2>13. CASE TakeInput
    <3>1. UNCHANGED <<text, pipe, fileOpen>> /\ stage \in Streams
      BY <2>13 DEF TakeInput, writerVars, PortTypeOK
    <3>2. CASE got' = Append(got, Item("value", value)) /\ UNCHANGED <<byteRd, line>>
      BY <2>6, <3>1, <3>2 DEF PortTypeOK, Streams
    <3>3. CASE /\ byteRd \in {"hold", "holdLast"} /\ byteRd' = (IF byteRd = "hold" THEN "read" ELSE "done")
               /\ got' = Append(got, Item("byte", ChopLineEnding(line))) /\ line' = <<>>
      <4>1. LineAfter(last) /\ line # <<>> /\ last + Len(line) = ReadSoFar /\ ReadSoFar' = ReadSoFar
        BY <2>4, <3>1, <3>3 DEF LineAfter, Streams, ReadSoFar
      <4>2. \A k \in 1..Len(line) : line[k] = text[last + k] /\ (k < Len(line) => line[k] # "\n")
        BY <2>3, <4>1 DEF LineAfter
      <4>3. line[Len(line)] = "\n" \/ (last + Len(line) = Len(text) /\ stage # "StringCapturePort" /\ ~fileOpen)
        <5>1. CASE byteRd = "hold"
          <6>1. Len(line) \in 1..Len(line)
            BY <2>3, <4>1, ElemSeq DEF Text
          <6> QED
            BY <4>1, <5>1, <6>1 DEF LineAfter
        <5>2. CASE byteRd = "holdLast"
          <6>1. BytesOver
            BY <3>1, <5>2 DEF BandsEnd, TakesAllBytes, StageOK, IsCapture, Captures, Streams
          <6> QED
            BY <2>3, <3>1, <4>1, <6>1 DEF BytesOver, Streams
        <5> QED
          BY <3>3, <5>1, <5>2
      <4>4. byteRd' \in {"read", "done"} /\ stage \notin {"readLine", "fromLines"}
        BY <3>1, <3>3 DEF Streams
      <4>5. last + Len(line) <= Len(text) /\ ReadSoFar' = last + Len(line)
        BY <2>3, <4>1
      <4> QED
        BY <2>3, <2>5, <3>1, <3>3, <4>1, <4>2, <4>3, <4>4, <4>5
    <3> QED
      BY <2>13, <3>2, <3>3 DEF TakeInput
  <2>14. CASE ReturnFromStage
    <3>1. UNCHANGED <<text, pipe, line, byteRd, fileOpen, got>>
      BY <2>14 DEF ReturnFromStage, readersSame, inVars
    <3>2. stage = "fromLines" => UNCHANGED <<sent, outErr>>
      BY <2>14 DEF ReturnFromStage, AtEnd, outVars
    <3> QED
      BY <2>6, <3>1, <3>2
  <2>15. CASE OpenPort
    <3>1. CASE byteRd' = byteRd
      BY <2>6, <2>15, <3>1 DEF OpenPort, inVars, outVars
    <3>2. CASE byteRd' = "done"
      <4>1. UNCHANGED <<text, pipe, line, fileOpen, got, sent, outErr>> /\ text = <<>> /\ stage \in Captures
        BY <2>15 DEF OpenPort, inVars, outVars, StageOK, IsCapture
      <4>2. LinesOut(ends)'
        BY <2>0, <2>1, <4>1, LinesOutStays
      <4>3. LineAfter(last) /\ stage \notin {"readLine", "fromLines"}
        BY <2>4, <4>1 DEF Captures
      <4>4. Len(line) = 0 /\ line = <<>> /\ last = 0
        <5>1. Len(text) = 0
          BY <4>1
        <5>2. Len(line) = 0 /\ last = 0
          BY <2>3, <4>3, <5>1 DEF LineAfter
        <5> QED
          BY <2>3, <5>2, ElemSeq DEF Text
      <4>5. LineAfter(last)'
        <5>1. last' = last /\ ReadSoFar' = ReadSoFar
          BY <4>1 DEF last, ReadSoFar
        <5> QED
          BY <3>2, <4>1, <4>3, <4>4, <5>1 DEF LineAfter
      <4>6. LinesIn(ends)'
        BY <2>0, <4>3, <4>5 DEF LinesIn, last
      <4> QED
        BY <2>2, <4>2, <4>6
    <3> QED
      BY <2>15, <3>1, <3>2 DEF OpenPort
  <2>16. CASE ClosePort
    <3>1. UNCHANGED <<text, pipe, line, byteRd, got, sent, outErr>>
      BY <2>16 DEF ClosePort, readersSame, outVars
    <3>2. fileOpen' => fileOpen
      BY <2>0, <2>16 DEF ClosePort
    <3> QED
      BY <2>6, <3>1, <3>2
  <2>17. CASE ValuesEnd
    BY <2>6, <2>17 DEF ValuesEnd, writerVars, outVars
  <2>18. CASE UNCHANGED <<text, pipe, line, byteRd, fileOpen, got, sent, outErr>>
    BY <2>6, <2>18
  <2> QED
    BY <2>7, <2>8, <2>9, <2>10, <2>11, <2>12, <2>13, <2>14, <2>15, <2>16, <2>17, <2>18, QuietSteps
<1> QED
  BY <1>1, <1>2, PortTypeAlways, BandsEndAlways, StageOKAlways, BandRestsAlways, PTL DEF PortsSpec

-----------------------------------------------------------------------------
(* What the ports deliver.                                                 *)

\* What is left in a band that is over.
LEMMA OverMeansAll ==
    ASSUME PortTypeOK, BandRests
    PROVE  /\ Len(values) \in Nat /\ Len(text) \in Nat /\ Received \in 0..Len(values)
           /\ stage # "FilePort" => ReadSoFar \in 0..Len(text)
           /\ ValuesOver => Received = Len(values)
           /\ BytesOver => ReadSoFar = Len(text)
<1>1. Len(values) \in Nat /\ Len(chan) \in Nat /\ Len(text) \in Nat /\ Len(pipe) \in Nat
  BY ElemSeq DEF PortTypeOK, Text
<1>2. Len(chan) <= Len(values) /\ (stage # "FilePort" => Len(pipe) <= Len(text))
  BY DEF BandRests, Rest
<1>3. (ValuesOver => Len(chan) = 0) /\ (BytesOver => Len(pipe) = 0)
  BY DEF ValuesOver, BytesOver
<1> QED
  BY <1>1, <1>2, <1>3 DEF Received, ReadSoFar

\* The lines that have come out are the lines of the text, and all of them at the end.
LEMMA LinesAreDelivered ==
    ASSUME BandsEnd, PortTypeOK, StageOK, BandRests, LinesGot
    PROVE  LinesDelivered
<1>1. Len(text) \in Nat /\ text \in Text /\ line \in Text /\ Len(line) \in Nat /\ (text = <<>> <=> Len(text) = 0)
      /\ (line = <<>> => Len(line) = 0)
  BY ElemSeq DEF PortTypeOK, Text
<1>2. CASE ~ByLine
  <2> DEFINE none == [k \in 1..0 |-> 1]
  <2>1. none \in [1..0 -> 1..Len(text)] /\ DOMAIN none = {} /\ 0 \in 0..Len(text)
    BY <1>1
  <2>2. LineEnds(text, none)
    BY <2>1 DEF LineEnds
  <2>3. ~ReadsLines /\ stage \notin {"fromLines", "readLine"}
    BY <1>2 DEF ByLine, ReadsLines
  <2> HIDE DEF none
  <2> QED
    BY <2>1, <2>2, <2>3 DEF LinesDelivered
<1>3. CASE ByLine
  <2>1. PICK ends \in Seq(Nat) : LinesOut(ends) /\ LinesIn(ends)
    BY <1>3 DEF LinesGot
  <2> DEFINE size == Len(ends)  last == Before(ends, size + 1)
  <2>2. LineEnds(text, ends) /\ size \in Nat /\ DOMAIN ends = 1..size
    BY <2>1, ElemSeq DEF LinesOut
  <2>3. \A k \in 1..size : ends[k] \in 1..Len(text) /\ ends[k] >= k
    <3>1. \A k \in 1..size : Before(ends, k) \in Nat /\ ends[k] \in Before(ends, k) + 1 .. Len(text)
      BY <1>1, <2>2, LinesOfType
    <3> QED
      BY <1>1, <2>1, <3>1 DEF LinesOut
  <2>4. size \in 0..Len(text) /\ ends \in [1..size -> 1..Len(text)]
    <3>1. size # 0 => size \in 1..size
      BY <2>2
    <3>2. size <= Len(text)
      BY <1>1, <2>2, <2>3, <3>1
    <3>3. ends = [k \in 1..size |-> ends[k]]
      BY <2>2
    <3> QED
      BY <1>1, <2>2, <2>3, <3>2, <3>3
  <2>5. last \in Nat /\ (size = 0 => last = 0)
    BY <2>2, <2>3 DEF Before
  <2>6. (stage = "fromLines" /\ outErr = "gone") \/ LineAfter(last)
    BY <2>1 DEF LinesIn
  <2> HIDE DEF size, last
  <2>7. ASSUME BytesOver, byteRd = "done", LineAfter(last)
        PROVE  NoMoreLines(text, ends) /\ (stage # "StringCapturePort" => last = Len(text))
    <3>1. last + Len(line) = Len(text)
      BY <2>7, OverMeansAll DEF LineAfter
    <3>2. CASE stage # "StringCapturePort"
      <4>1. last = Len(text)
        BY <1>1, <2>5, <2>7, <3>1, <3>2 DEF LineAfter
      <4> QED
        BY <4>1 DEF NoMoreLines, last, size
    <3>3. CASE stage = "StringCapturePort"
      <4>1. ASSUME NEW i \in last + 1 .. Len(text) PROVE text[i] # "\n"
        <5>1. i - last \in 1..Len(line) /\ last + (i - last) = i
          BY <1>1, <2>5, <3>1
        <5>2. line[i - last] = text[last + (i - last)] /\ line[i - last] # "\n"
          BY <2>7, <5>1 DEF LineAfter
        <5> QED
          BY <5>1, <5>2
      <4> QED
        BY <3>3, <4>1 DEF NoMoreLines, last, size
    <3> QED
      BY <3>2, <3>3
  <2>8. Returned => byteRd = "done" /\ main # "pipeFailed"
    BY DEF Returned, BandsEnd, AllRead
  <2>9. Returned /\ ReadsLines /\ stage # "readLine" => NoMoreLines(text, ends)
    <3>1. ReadsLines /\ stage # "readLine" => TakesAllBytes /\ stage # "fromLines"
      BY DEF ReadsLines, TakesAllBytes, Captures, Streams
    <3> QED
      BY <2>6, <2>7, <2>8, <3>1 DEF BandsEnd
  <2>10. Returned /\ stage = "readLine" => size = (IF text = <<>> THEN 0 ELSE 1)
    <3> SUFFICES ASSUME Returned, stage = "readLine" PROVE size = (IF text = <<>> THEN 0 ELSE 1)
      OBVIOUS
    <3>1. size <= 1 /\ (size = 0 => BytesOver) /\ LineAfter(last)
      BY <2>1, <2>6, <2>8 DEF LinesIn, size
    <3>2. size = 0 => Len(text) = 0
      BY <2>5, <2>7, <2>8, <3>1
    <3>3. size = 1 => Len(text) # 0
      BY <1>1, <2>3
    <3> QED
      BY <1>1, <2>4, <3>1, <3>2, <3>3
  <2>11. Returned /\ stage = "fromLines" /\ outErr = "nil" => NoMoreLines(text, ends)
    BY <2>6, <2>7, <2>8 DEF StageOK
  <2>12. /\ ReadsLines => /\ Delivers(got, From(got, "byte"), LinesOf(text, ends))
                          /\ Cardinality(From(got, "byte")) = size
         /\ stage = "fromLines" => sent = LinesOf(text, ends)
    BY <2>1 DEF LinesOut, size
  <2> QED
    BY <2>2, <2>4, <2>9, <2>10, <2>11, <2>12 DEF LinesDelivered
<1> QED
  BY <1>2, <1>3

\* The parts of the invariant give what the ports promise.
LEMMA InvDelivers == PortInv => PortsDeliver
<1> SUFFICES ASSUME PortInv PROVE PortsDeliver
  OBVIOUS
<1>1. /\ BandsEnd /\ PortTypeOK /\ StageOK /\ BandRests
      /\ ValuesGot /\ LinesGot /\ BytesGot /\ FileGot /\ StreamPuts /\ StreamOK /\ PassedSoFar /\ PutAtEnd
  BY DEF PortInv
<1>2. Returned => valueRd = "done" /\ byteRd = "done" /\ main = "returned" /\ main # "pipeFailed"
  BY <1>1 DEF Returned, BandsEnd, AllRead
<1>3. ValuesDelivered
  <2>1. ReadsValues => TakesAllValues
    BY DEF ReadsValues, TakesAllValues, Captures
  <2>2. Returned /\ ReadsValues => Received = Len(values)
    BY <1>1, <1>2, <2>1, OverMeansAll DEF BandsEnd
  <2>3. Received \in Nat
    BY <1>1, OverMeansAll
  <2> QED
    BY <1>1, <1>2, <2>2, <2>3 DEF ValuesDelivered, ValuesGot
<1>4. LinesDelivered
  BY <1>1, LinesAreDelivered
<1>5. BytesDelivered
  <2> SUFFICES ASSUME stage \in {"CapturePort", "slurp"} PROVE BytesDelivered
    BY DEF BytesDelivered
  <2>1. Starts(gotBytes, text) /\ Len(gotBytes) = ReadSoFar /\ DOMAIN gotBytes = 1..Len(gotBytes)
    BY <1>1, ElemSeq DEF BytesGot, PortTypeOK, Text
  <2>2. Returned => ReadSoFar = Len(text)
    BY <1>1, <1>2, OverMeansAll DEF BandsEnd, TakesAllBytes, Captures
  <2> QED
    BY <2>1, <2>2 DEF BytesDelivered, Starts
<1>6. FileDelivered
  <2> SUFFICES ASSUME stage = "FilePort" PROVE FileDelivered
    BY DEF FileDelivered
  <2>1. /\ Cardinality(FileBytes) = Len(text)
        /\ \A i \in FileBytes : gotBytes[i].x = <<text[Rank(FileBytes, i)]>>
        /\ \A i \in FilePieces, k \in DOMAIN values : PieceOf(i, k)
        /\ Cardinality(FilePieces) = 3 * Received - PiecesLeft
    BY <1>1 DEF FileGot
  <2>2. Returned => Received = Len(values) /\ PiecesLeft = 0
    BY <1>1, <1>2, OverMeansAll DEF BandsEnd, TakesAllValues, Captures, PiecesLeft
  <2>3. Returned => Cardinality(FilePieces) = 3 * Len(values)
    BY <1>1, <2>1, <2>2, OverMeansAll
  <2> QED
    BY <2>1, <2>3 DEF FileDelivered, FileBytes, FilePieces, PieceOf
<1>7. OthersPut
  <2>1. stage = "onlyBytes" => BandPassed(text)
    <3> SUFFICES ASSUME stage = "onlyBytes" PROVE BandPassed(text)
      OBVIOUS
    <3>1. Starts(sent, text) /\ (outErr = "nil" => Len(sent) = ReadSoFar) /\ DOMAIN sent = 1..Len(sent)
      BY <1>1, ElemSeq DEF PassedSoFar, PortTypeOK
    <3>2. Returned /\ outErr = "nil" => ReadSoFar = Len(text)
      BY <1>1, <1>2, OverMeansAll DEF StageOK
    <3> QED
      BY <3>1, <3>2 DEF BandPassed, Starts
  <2>2. stage = "onlyValues" => BandPassed(values)
    <3> SUFFICES ASSUME stage = "onlyValues" PROVE BandPassed(values)
      OBVIOUS
    <3>1. Starts(sent, values) /\ (outErr = "nil" => Len(sent) = Received) /\ DOMAIN sent = 1..Len(sent)
      BY <1>1, ElemSeq DEF PassedSoFar, PortTypeOK
    <3>2. Returned /\ outErr = "nil" => Received = Len(values)
      BY <1>1, <1>2, OverMeansAll DEF StageOK
    <3> QED
      BY <3>1, <3>2 DEF BandPassed, Starts
  <2> QED
    BY <1>1, <2>1, <2>2 DEF OthersPut, PutAtEnd, Returned, StageOK
<1> QED
  BY <1>1, <1>3, <1>4, <1>5, <1>6, <1>7 DEF PortsDeliver

\* For any capacity of the buffers, any number of writes and every interleaving of the writer, a
\* background job, the two goroutines that read and the stage, what has come out of each band is
\* what was written to it, in order; a capture or a builtin that has returned has all of it, and has
\* put just what its inputs call for, unless the reader of its own output has gone.
THEOREM PortsDeliverTheorem == PortsSpec => []PortsDeliver
<1>1. BandsEnd /\ PortTypeOK /\ StageOK /\ BandRests /\ ValuesGot /\ LinesGot /\ BytesGot /\ FileGot
        /\ (StreamPuts /\ StreamOK) /\ PassedSoFar /\ PutAtEnd => PortInv
  BY DEF PortInv
<1> QED
  BY <1>1, InvDelivers, BandsEndAlways, PortTypeAlways, StageOKAlways, BandRestsAlways, ValuesGotAlways, LinesGotAlways,
     BytesGotAlways, FileGotAlways, StreamAlways, PassedSoFarAlways, PutAtEndAlways, PTL

-----------------------------------------------------------------------------
(* The composition.                                                        *)

\* In the composition each part behaves as its own module says.
LEMMA PartsOfForms == MCSpec => Spec /\ RedirSpec /\ PeachSpec /\ PortsSpec
<1>1. MCInit => Init /\ RedirInit /\ PeachInit /\ PortsInit
  BY DEF MCInit
<1>2. ASSUME [MCNext]_allVars
      PROVE  [Next]_vars /\ [RedirNext]_redirVars /\ [PeachNext]_peachVars /\ [PortsNext]_portVars
  BY <1>2 DEF MCNext, allVars, ChunkStep, RedirectionsStep, PeachStep, PortsStep
<1> QED
  BY <1>1, <1>2, PTL DEF MCSpec, Spec, RedirSpec, PeachSpec, PortsSpec

\* The variables of chunk, redirections and peach are as declared in every behaviour of the
\* composition.
THEOREM FormsTypesTheorem == MCSpec => []TypesOK
<1>1. (TypeOK /\ AtPipeline) /\ (RedirTypeOK /\ OpenedCounted) /\ (PeachTypeOK /\ SpawnedSoFar) => TypesOK
  BY DEF TypesOK
<1> QED
  BY <1>1, PartsOfForms, PipelineTypeCorrect, RedirTypeCorrect, PeachTypeCorrect, PTL

\* In every behaviour of the composition what comes out of a port is what was written to it.
THEOREM FormsDeliverTheorem == MCSpec => []PortsDeliver
BY PartsOfForms, PortsDeliverTheorem, PTL
=============================================================================
