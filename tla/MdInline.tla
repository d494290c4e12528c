------------------------------ MODULE MdInline ------------------------------
(***************************************************************************)
(* The inline structure of Markdown (pkg/md/inline.go).                    *)
(*                                                                         *)
(* A text is a sequence of tokens: a punctuation, a space, a newline, a    *)
(* run of letters or of digits.  A character reference is the token "&"    *)
(* followed by one that holds the rest of it, such as "NewLine;"; the      *)
(* backquote is the token "bq".                                            *)
(*                                                                         *)
(* The parser is a function on its state p: the text, the position of the  *)
(* next token, the delimiter stack and the pieces of the output.  A        *)
(* delimiter is known by the piece it stands for (bufIdx).                 *)
(***************************************************************************)
EXTENDS Integers, Sequences, FiniteSetsExt, SequencesExt, TLC

NL == "\n"
asciiPuncts == {"!", "\"", "#", "$", "%", "&", "'", "(", ")", "*", "+", ",", "-", ".", "/", ":", ";", "<",
                "=", ">", "?", "@", "[", "\\", "]", "^", "_", "bq", "{", "|", "}", "~"}
SpaceTab == {" ", "\t"}
UnicodeSpaces == SpaceTab \cup {NL, "nbsp"}
Digits == {"0", "1", "2", "3", "4", "999999999"}
Letters == {"a", "b", "c", "div", "pre", "http", "kbd"}

\* The character references, named and numeric, with what they stand for.
NamedRefs == ("lt;" :> "<") @@ ("gt;" :> ">") @@ ("amp;" :> "&") @@ ("Tab;" :> "\t") @@ ("NewLine;" :> NL) @@ ("nbsp;" :> "nbsp")
NumericRefs == ("#9;" :> "\t") @@ ("#10;" :> NL) @@ ("#32;" :> " ") @@ ("#97;" :> "a") @@ ("#98;" :> "b")
                 @@ ("#99;" :> "c") @@ ("#160;" :> "nbsp") @@ ("#48;" :> "0") @@ ("#49;" :> "1")
UnescapeHTML == NamedRefs @@ NumericRefs
leadingCharRef(s, i) == i < Len(s) /\ s[i] = "&" /\ s[i + 1] \in DOMAIN UnescapeHTML

isASCIIPunct(t) == t \in asciiPuncts
isASCIILetter(t) == t \in Letters
\* Whether the first and the last character of a token is a punctuation.
StartsWithPunct(t) == t \in asciiPuncts \cup DOMAIN NumericRefs
EndsWithPunct(t) == t \in asciiPuncts \cup DOMAIN UnescapeHTML
isMeta(t) == t \in {"!", "[", "]", "*", "_", "bq", "\\", "&", "<", NL}

\* The first position from i on of a token in S, and the first of one out of S.
FirstIn(s, i, S) == Min({j \in i .. Len(s) : s[j] \in S} \cup {Len(s) + 1})
FirstNotIn(s, i, S) == Min({j \in i .. Len(s) : s[j] \notin S} \cup {Len(s) + 1})
From(s, i) == SubSeq(s, i, Len(s))
TrimLeft(s, S) == From(s, FirstNotIn(s, 1, S))
TrimRight(s, S) == SubSeq(s, 1, Max({j \in 1 .. Len(s) : s[j] \notin S} \cup {0}))
Trim(s, S) == TrimLeft(TrimRight(s, S), S)
HasPrefixAt(s, i, t) == i + Len(t) - 1 <= Len(s) /\ SubSeq(s, i, i + Len(t) - 1) = t
HasSuffix(s, t) == Len(s) >= Len(t) /\ From(s, Len(s) - Len(t) + 1) = t
\* The first position from i on where t occurs, 0 if there is none.
Index(s, t, i) ==
  LET at == {j \in i .. Len(s) : HasPrefixAt(s, j, t)} IN IF at = {} THEN 0 ELSE Min(at)

InlineOp(type, text) == [type |-> type, text |-> text, dest |-> <<>>, alt |-> <<>>]
LinkOp(type, dest, title, alt) == [type |-> type, text |-> title, dest |-> dest, alt |-> alt]
piece(op) == [before |-> <<>>, main |-> op, after |-> <<>>]
textPiece(text) == piece(InlineOp("Text", text))
htmlPiece(html) == piece(InlineOp("RawHTML", html))
push(p, pc) == [p EXCEPT !.pieces = Append(@, pc)]
\* The text content of an operation, for the alternative text of an image.
String(op) ==
  CASE op.type \in {"Text", "CodeSpan", "RawHTML", "Autolink"} -> op.text
    [] op.type = "NewLine" -> <<NL>>
    [] op.type = "Image" -> op.alt
    [] OTHER -> <<>>

\* Plain text from begin to the next token with a meaning.
parseText(p, begin) ==
  LET e    == Min({j \in p.pos .. Len(p.text) : isMeta(p.text[j])} \cup {Len(p.text) + 1})
      t    == SubSeq(p.text, begin, e - 1)
      line == e <= Len(p.text) /\ p.text[e] = NL
      p1   == push([p EXCEPT !.pos = e], textPiece(IF line THEN TrimRight(t, {" "}) ELSE t))
  IN  IF line /\ HasSuffix(t, <<" ", " ">>) THEN push(p1, piece(InlineOp("HardLineBreak", <<>>))) ELSE p1

(***************************************************************************)
(* Emphasis.                                                               *)
(***************************************************************************)
delim(typ, bufIdx, n, canOpen, canClose) ==
  [typ |-> typ, bufIdx |-> bufIdx, n |-> n, canOpen |-> canOpen, canClose |-> canClose, inactive |-> FALSE]

\* prev and next are tokens, NL at the start and the end of the text.
canOpenCloseEmphasis(b, prev, next) ==
  LET prevSpace == prev \in UnicodeSpaces
      nextSpace == next \in UnicodeSpaces
      left  == ~nextSpace /\ (~StartsWithPunct(next) \/ prevSpace \/ EndsWithPunct(prev))
      right == ~prevSpace /\ (~EndsWithPunct(prev) \/ nextSpace \/ StartsWithPunct(next))
  IN  IF b = "*" THEN <<left, right>>
      ELSE <<left /\ (~right \/ EndsWithPunct(prev)), right /\ (~left \/ StartsWithPunct(next))>>

parseDelimRun(p, begin) ==
  LET b  == p.text[begin]
      e  == FirstNotIn(p.text, p.pos, {b})
      oc == canOpenCloseEmphasis(b, IF begin = 1 THEN NL ELSE p.text[begin - 1],
                                 IF e > Len(p.text) THEN NL ELSE p.text[e])
      p1 == push([p EXCEPT !.pos = e], textPiece(SubSeq(p.text, begin, e - 1)))
  IN  [p1 EXCEPT !.delims = Append(@, delim(b, Len(p1.pieces), e - begin, oc[1], oc[2]))]

Matches(o, c) ==
  /\ o.canOpen /\ o.typ = c.typ
  /\ (~o.canClose /\ ~c.canOpen) \/ (o.n + c.n) % 3 # 0 \/ (o.n % 3 = 0 /\ c.n % 3 = 0)

\* One emphasis, or a strong one where both runs have two tokens left.
Emphasize(pieces, o, c) ==
  LET strong == Len(pieces[o].main.text) >= 2 /\ Len(pieces[c].main.text) >= 2
      k      == IF strong THEN 2 ELSE 1
      kind   == IF strong THEN "StrongEmphasis" ELSE "Emphasis"
  IN  [pieces EXCEPT ![o].main.text = From(@, k + 1),
                     ![o].after = Append(@, InlineOp(kind \o "Start", <<>>)),
                     ![c].main.text = From(@, k + 1),
                     ![c].before = Append(@, InlineOp(kind \o "End", <<>>))]

RECURSIVE processFrom(_, _, _, _)
\* The loop of processEmphasis: i is the closer, bottom the position of the
\* bottom in the stack and bottoms the recorded limits of the search for an
\* opener, as the bufIdx of a delimiter.
processFrom(p, bottom, i, bottoms) ==
  IF i > Len(p.delims) THEN p
  ELSE LET c    == p.delims[i]
           slot == <<c.typ, c.n % 3, c.canOpen>>
           lim  == IF slot \in DOMAIN bottoms THEN bottoms[slot] ELSE 0
           low  == Max({j \in bottom + 1 .. i - 1 : p.delims[j].bufIdx = lim} \cup {bottom})
           os   == {j \in low + 1 .. i - 1 : Matches(p.delims[j], c)}
       IN  IF ~c.canClose THEN processFrom(p, bottom, i + 1, bottoms)
           ELSE IF os = {}
           THEN LET bs == (slot :> (IF i = bottom + 1 THEN 0 ELSE p.delims[i - 1].bufIdx)) @@ bottoms
                IN  IF c.canOpen THEN processFrom(p, bottom, i + 1, bs)
                    ELSE processFrom([p EXCEPT !.delims = RemoveAt(@, i)], bottom, i, bs)
           ELSE LET o     == Max(os)
                    ps    == Emphasize(p.pieces, p.delims[o].bufIdx, c.bufIdx)
                    Live(d) == ps[d.bufIdx].main.text # <<>>
                    keepO == IF Live(p.delims[o]) THEN <<p.delims[o]>> ELSE <<>>
                    keepC == IF Live(c) THEN <<c>> ELSE <<>>
                    ds    == SubSeq(p.delims, 1, o - 1) \o keepO \o keepC \o From(p.delims, i + 1)
                IN  processFrom([p EXCEPT !.pieces = ps, !.delims = ds], bottom, o + Len(keepO), bottoms)

processEmphasis(p, bottom) ==
  [processFrom(p, bottom, bottom + 1, [x \in {} |-> 0]) EXCEPT !.delims = SubSeq(@, 1, bottom)]

(***************************************************************************)
(* Links and images.                                                       *)
(***************************************************************************)
\* One character of a destination or title, with the number of its tokens.
parseBackslash(s, i) ==
  IF i < Len(s) /\ isASCIIPunct(s[i + 1]) THEN <<s[i + 1], 2>> ELSE <<"\\", 1>>
parseCharRef(s, i) == IF leadingCharRef(s, i) THEN <<UnescapeHTML[s[i + 1]], 2>> ELSE <<"&", 1>>
LinkChar(s, i) ==
  CASE s[i] = "\\" -> parseBackslash(s, i) [] s[i] = "&" -> parseCharRef(s, i) [] OTHER -> <<s[i], 1>>

NoLink == [end |-> 0, val |-> <<>>]
RECURSIVE angleDest(_, _, _), bareDest(_, _, _, _), titleTail(_, _, _, _, _)
angleDest(s, i, acc) ==
  IF i > Len(s) \/ s[i] \in {NL, "<"} THEN NoLink
  ELSE IF s[i] = ">" THEN [end |-> i + 1, val |-> acc]
  ELSE LET c == LinkChar(s, i) IN angleDest(s, i + c[2], Append(acc, c[1]))

bareDest(s, i, acc, parens) ==
  IF i > Len(s) \/ s[i] \in SpaceTab \cup {NL} \/ (s[i] = ")" /\ parens = 0)
  THEN IF parens # 0 THEN NoLink ELSE [end |-> i, val |-> acc]
  ELSE LET c == LinkChar(s, i)
           d == CASE s[i] = "(" -> parens + 1 [] s[i] = ")" -> parens - 1 [] OTHER -> parens
       IN  bareDest(s, i + c[2], Append(acc, c[1]), d)

\* A title that is not closed ends with the text.
titleTail(s, i, acc, opener, closer) ==
  IF i > Len(s) THEN [end |-> i, val |-> acc]
  ELSE IF s[i] = closer THEN [end |-> i + 1, val |-> acc]
  ELSE IF s[i] = opener THEN NoLink
  ELSE LET c == LinkChar(s, i) IN titleTail(s, i + c[2], Append(acc, c[1]), opener, closer)

titleOpeners == {"'", "\"", "("}
skipWhitespaces(s, i) == FirstNotIn(s, i, {" ", "\t", NL})

\* The tail of a link at i: the position after it (0 if there is none), the
\* destination and the title.
parseLinkTail(s, i) ==
  LET d1   == skipWhitespaces(s, i + 1)
      dest == IF s[d1] = "<" THEN angleDest(s, d1 + 1, <<>>) ELSE bareDest(s, d1, <<>>, 0)
      t1   == skipWhitespaces(s, dest.end)
      title == IF t1 <= Len(s) /\ s[t1] \in titleOpeners
               THEN titleTail(s, t1 + 1, <<>>, s[t1], IF s[t1] = "(" THEN ")" ELSE s[t1])
               ELSE [end |-> t1, val |-> <<>>]
      e    == skipWhitespaces(s, title.end)
      none == [end |-> 0, dest |-> <<>>, title |-> <<>>]
  IN  IF i >= Len(s) \/ s[i] # "(" THEN none
      ELSE IF d1 > Len(s) THEN none
      ELSE IF dest.end = 0 THEN none
      ELSE IF title.end = 0 THEN none
      ELSE IF e > Len(s) THEN none
      ELSE IF s[e] # ")" THEN none
      ELSE [end |-> e + 1, dest |-> dest.val, title |-> title.val]

parseOpenBracket(p, kind, text) ==
  LET p1 == push(p, textPiece(text))
  IN  [p1 EXCEPT !.delims = Append(@, delim(kind, Len(p1.pieces), 0, FALSE, FALSE))]

\* The delimiter at position `at` and a tail make a link or an image.  The
\* openers before a link become inactive: links do not nest.
CloseLink(p, at, tail) ==
  LET o    == p.delims[at]
      p1   == processEmphasis([p EXCEPT !.pos = tail.end], at)
      ds   == [j \in 1 .. at - 1 |-> IF o.typ = "[" /\ p1.delims[j].typ = "["
                                     THEN [p1.delims[j] EXCEPT !.inactive = TRUE] ELSE p1.delims[j]]
      p2   == [p1 EXCEPT !.delims = ds]
      alt  == FlattenSeq([j \in 1 .. Len(p1.pieces) - o.bufIdx |-> String(p1.pieces[o.bufIdx + j].main)])
  IN  IF o.typ = "["
      THEN push([p2 EXCEPT !.pieces[o.bufIdx] =
                             [before |-> <<LinkOp("LinkStart", tail.dest, tail.title, <<>>)>>,
                              main |-> InlineOp("Text", <<>>), after |-> <<>>]],
                [piece(InlineOp("Text", <<>>)) EXCEPT !.after = <<LinkOp("LinkEnd", tail.dest, tail.title, <<>>)>>])
      ELSE push([p2 EXCEPT !.pieces = SubSeq(@, 1, o.bufIdx - 1)],
                piece(LinkOp("Image", tail.dest, tail.title, alt)))

parseCloseBracket(p) ==
  LET at   == Max({j \in 1 .. Len(p.delims) : p.delims[j].typ \in {"[", "!"}} \cup {0})
      tail == parseLinkTail(p.text, p.pos)
      text == push(p, textPiece(<<"]">>))
  IN  IF at = 0 THEN text
      ELSE IF p.delims[at].inactive \/ tail.end = 0 THEN [text EXCEPT !.delims = RemoveAt(@, at)]
      ELSE CloseLink(p, at, tail)

(***************************************************************************)
(* Code spans.                                                             *)
(***************************************************************************)
\* The next run of exactly n backquotes from i on, 0 if there is none.
findBacktickRun(s, n, i) ==
  LET runs == {j \in i .. Len(s) : /\ s[j] = "bq" /\ (j = i \/ s[j - 1] # "bq")
                                   /\ FirstNotIn(s, j, {"bq"}) = j + n}
  IN  IF runs = {} THEN 0 ELSE Min(runs)

normalizeCodeSpanContent(s) ==
  LET t == [i \in 1 .. Len(s) |-> IF s[i] = NL THEN " " ELSE s[i]]
  IN  IF Len(t) > 1 /\ t[1] = " " /\ t[Len(t)] = " " /\ Trim(t, {" "}) # <<>> THEN SubSeq(t, 2, Len(t) - 1) ELSE t

parseCodeSpan(p, begin) ==
  LET e == FirstNotIn(p.text, p.pos, {"bq"})
      c == findBacktickRun(p.text, e - begin, e)
  IN  IF c = 0 THEN parseText([p EXCEPT !.pos = e], begin)
      ELSE push([p EXCEPT !.pos = c + (e - begin)],
                piece(InlineOp("CodeSpan", normalizeCodeSpanContent(SubSeq(p.text, e, c - 1)))))

(***************************************************************************)
(* Raw HTML, autolinks, escapes.                                           *)
(***************************************************************************)
Blanks == {" ", "\t", NL}
\* The end of an attribute value at i: a quoted one, or one without quotes; 0 if there is none.
AttributeValueEnd(s, i) ==
  IF i > Len(s) THEN 0
  ELSE IF s[i] \in {"'", "\""} THEN LET q == FirstIn(s, i + 1, {s[i]}) IN IF q > Len(s) THEN 0 ELSE q + 1
  ELSE LET e == FirstIn(s, i, Blanks \cup {"\"", "'", "=", "<", ">", "bq"}) IN IF e = i THEN 0 ELSE e
RECURSIVE attributesEnd(_, _)
attributesEnd(s, i) ==
  LET n == FirstNotIn(s, i, Blanks)
      q == FirstNotIn(s, n + 1, Blanks)
      v == IF q <= Len(s) /\ s[q] = "=" THEN AttributeValueEnd(s, FirstNotIn(s, q + 1, Blanks)) ELSE 0
  IN  IF n = i \/ n > Len(s) THEN i
      ELSE IF ~isASCIILetter(s[n]) THEN i
      ELSE attributesEnd(s, IF v # 0 THEN v ELSE n + 1)
\* The position after a tag that starts at i, 0 if there is none.
openTag(s, i) ==
  LET a == FirstNotIn(s, attributesEnd(s, i + 2), Blanks)
      e == IF a <= Len(s) /\ s[a] = "/" THEN a + 1 ELSE a
  IN  IF i >= Len(s) \/ s[i] # "<" THEN 0
      ELSE IF ~isASCIILetter(s[i + 1]) THEN 0
      ELSE IF e > Len(s) \/ s[e] # ">" THEN 0 ELSE e + 1
closingTag(s, i) ==
  LET e == FirstNotIn(s, i + 3, Blanks)
  IN  IF i + 2 > Len(s) \/ s[i] # "<" \/ s[i + 1] # "/" THEN 0
      ELSE IF ~isASCIILetter(s[i + 2]) \/ e > Len(s) \/ s[e] # ">" THEN 0 ELSE e + 1

uriAutolink(s, i) ==
  LET e == FirstIn(s, i + 3, Blanks \cup {"<", ">"})
  IN  IF i + 2 > Len(s) \/ s[i + 1] \notin {"http", "div", "pre", "kbd"} \/ s[i + 2] # ":" \/ e > Len(s) THEN 0
      ELSE IF s[e] = ">" THEN e + 1 ELSE 0
emailAutolink(s, i) ==
  IF i + 4 <= Len(s) /\ s[i + 1] \in Letters \cup Digits \cup {".", "&", "*", "-"} /\ s[i + 2] = "@"
     /\ s[i + 3] \in Letters \cup Digits /\ s[i + 4] = ">" THEN i + 5 ELSE 0

\* Character references in a text, replaced.
RECURSIVE Unescape(_)
Unescape(s) ==
  IF s = <<>> THEN <<>>
  ELSE IF leadingCharRef(s, 1) THEN <<UnescapeHTML[s[2]]>> \o Unescape(From(s, 3))
  ELSE <<s[1]>> \o Unescape(Tail(s))

\* The end of raw HTML that starts at begin, 0 if none does.
rawHTML(s, begin) ==
  LET n == begin + 1
      CloserEnd(closer) == LET at == Index(s, closer, n) IN IF at = 0 THEN 0 ELSE at + Len(closer)
  IN  CASE s[n] = "!" -> IF HasPrefixAt(s, n + 1, <<"-", "-">>) THEN CloserEnd(<<"-", "-", ">">>)
                         ELSE IF HasPrefixAt(s, n + 1, <<"[", "CDATA", "[">>) THEN CloserEnd(<<"]", "]", ">">>)
                         ELSE IF n < Len(s) /\ isASCIILetter(s[n + 1]) THEN CloserEnd(<<">">>) ELSE 0
        [] s[n] = "?" -> CloserEnd(<<"?", ">">>)
        [] s[n] = "/" -> closingTag(s, begin)
        [] OTHER -> openTag(s, begin)

parseLt(p, begin) ==
  LET s     == p.text
      html  == rawHTML(s, begin)
      uri   == uriAutolink(s, begin)
      email == emailAutolink(s, begin)
      link  == IF uri # 0 THEN uri ELSE email
      text  == Unescape(SubSeq(s, begin + 1, link - 2))
      dest  == IF uri # 0 THEN text ELSE <<"mailto:">> \o text
  IN  IF p.pos > Len(s) THEN parseText(p, begin)
      ELSE IF html # 0 THEN push([p EXCEPT !.pos = html], htmlPiece(SubSeq(s, begin, html - 1)))
      ELSE IF s[p.pos] \notin {"!", "?", "/"} /\ link # 0
      THEN push([p EXCEPT !.pos = link], piece(LinkOp("Autolink", dest, text, <<>>)))
      ELSE parseText(p, begin)

parseAmpersand(p, begin) ==
  IF leadingCharRef(p.text, begin)
  THEN push([p EXCEPT !.pos = begin + 2], textPiece(<<UnescapeHTML[p.text[begin + 1]]>>))
  ELSE parseText(p, begin)

parseEscape(p, begin) ==
  IF p.pos > Len(p.text) THEN parseText(p, begin)
  ELSE IF p.text[p.pos] = NL THEN push(p, piece(InlineOp("HardLineBreak", <<>>)))
  ELSE IF isASCIIPunct(p.text[p.pos]) THEN parseText([p EXCEPT !.pos = @ + 1], begin + 1)
  ELSE parseText(p, begin)

parseNewLine(p) ==
  push([p EXCEPT !.pos = FirstNotIn(p.text, p.pos, {" "})], piece(InlineOp("NewLine", <<>>)))

parseBang(p, begin) ==
  IF p.pos <= Len(p.text) /\ p.text[p.pos] = "["
  THEN parseOpenBracket([p EXCEPT !.pos = @ + 1], "!", <<"!", "[">>)
  ELSE parseText(p, begin)

(***************************************************************************)
(* The whole.                                                              *)
(***************************************************************************)
RECURSIVE renderFrom(_)
renderFrom(p0) ==
  IF p0.pos > Len(p0.text) THEN processEmphasis(p0, 0)
  ELSE LET begin == p0.pos
           b     == p0.text[begin]
           p     == [p0 EXCEPT !.pos = @ + 1]
       IN  renderFrom(CASE b = "[" -> parseOpenBracket(p, "[", <<"[">>)
                        [] b = "!" -> parseBang(p, begin)
                        [] b \in {"*", "_"} -> parseDelimRun(p, begin)
                        [] b = "]" -> parseCloseBracket(p)
                        [] b = "bq" -> parseCodeSpan(p, begin)
                        [] b = "<" -> parseLt(p, begin)
                        [] b = "&" -> parseAmpersand(p, begin)
                        [] b = "\\" -> parseEscape(p, begin)
                        [] b = NL -> parseNewLine(p)
                        [] OTHER -> parseText(p, begin))

\* The operations of a piece: what was put before it, itself, what was put
\* after it, the last first.
iterate(pc) == pc.before \o <<pc.main>> \o Reverse(pc.after)

\* Adds an operation: texts that meet are merged, and a newline in a text
\* becomes an operation of its own.
AddOp(ops, op) ==
  LET Lines == [i \in 1 .. Len(op.text) |-> IF op.text[i] = NL THEN <<InlineOp("NewLine", <<>>)>>
                                            ELSE <<InlineOp("Text", <<op.text[i]>>)>>]
      Merge(acc, x) == IF x.type = "Text" /\ acc # <<>> /\ Last(acc).type = "Text"
                       THEN [acc EXCEPT ![Len(acc)].text = @ \o x.text] ELSE Append(acc, x)
  IN  IF op.type # "Text" THEN Append(ops, op) ELSE FoldLeft(Merge, ops, FlattenSeq(Lines))
opsOf(pieces) == FoldLeft(AddOp, <<>>, FlattenSeq([i \in 1 .. Len(pieces) |-> iterate(pieces[i])]))

renderInline(text) ==
  opsOf(renderFrom([text |-> text, pos |-> 1, delims |-> <<>>, pieces |-> <<>>]).pieces)
=============================================================================
