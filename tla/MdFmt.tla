------------------------------- MODULE MdFmt -------------------------------
(***************************************************************************)
(* The Markdown formatter (pkg/md/fmt.go): it writes a document with the   *)
(* operations it receives, escaping what would be read as something else.  *)
(*                                                                         *)
(* The codec is a function on its state c: the text written so far, the    *)
(* open containers with the markers they will write next, the length of    *)
(* the text when the last container was opened, the punctuation of the     *)
(* list that was just closed and the type of the last operation.           *)
(***************************************************************************)
EXTENDS MdBlock

write(c, s) == [c EXCEPT !.out = @ \o s]
finishLine(c) == write(c, <<NL>>)
Width(s) == FoldLeft(LAMBDA n, t : n + (IF t \in {"bq", "nbsp", "bullet"} THEN 1 ELSE Len(t)), 0, s)
Ref(r) == <<"&", r>>
NumericRef(t) == Ref(CHOOSE r \in DOMAIN NumericRefs : NumericRefs[r] = t)

(***************************************************************************)
(* Containers and their markers.                                           *)
(***************************************************************************)
fmtContainer(typ, punct, number, marker) == [typ |-> typ, punct |-> punct, number |-> number, marker |-> marker]
\* What a marker becomes once it is written.
usedMarker(ct) == IF ct.typ = "Blockquote" THEN ct.marker ELSE Run(Width(ct.marker), " ")
Markers(c) == FlattenSeq([i \in 1 .. Len(c.containers) |-> c.containers[i].marker])
useMarker(ct) == [ct EXCEPT !.marker = usedMarker(ct)]
useMarkers(c) == [c EXCEPT !.containers = [i \in 1 .. Len(@) |-> useMarker(@[i])]]
startLine(c) == useMarkers(write(c, Markers(c)))
\* A blank line has no trailing spaces.
writeLine(c, s) ==
  IF s = <<>> THEN finishLine(useMarkers(write(c, TrimRight(Markers(c), {" "}))))
  ELSE finishLine(write(startLine(c), s))

pickPunct(def, alt, banned) == IF def # banned THEN def ELSE alt
bulletMarker(punct) == <<punct, " ", " ", " ">>
orderedMarker(number, punct) ==
  LET m == <<CHOOSE t \in DOMAIN NumValue : NumValue[t] = number, punct, " ">>
  IN  m \o Run(IF Width(m) < 4 THEN 4 - Width(m) ELSE 0, " ")

needNewStanza(cur, last) ==
  CASE cur \in {"ThematicBreak", "Heading", "CodeBlock", "HTMLBlock", "Paragraph",
                "BlockquoteStart", "BulletListStart", "OrderedListStart"} -> last \notin {"BlockquoteStart", "ListItemStart"}
    [] cur = "ListItemStart" -> last \notin {"BulletListStart", "OrderedListStart"}
    [] OTHER -> FALSE

(***************************************************************************)
(* Escapes.                                                                *)
(***************************************************************************)
isWord(t) == t \notin UnicodeSpaces /\ ~StartsWithPunct(t)
isWordEnd(t) == t \notin UnicodeSpaces /\ ~EndsWithPunct(t)
Subst(s, Repl(_)) == FlattenSeq([i \in 1 .. Len(s) |-> Repl(i)])
escapeNewLines(s) == Subst(s, LAMBDA i : IF s[i] = NL THEN Ref("NewLine;") ELSE <<s[i]>>)
escapeAmpersandBackslash(s, set) ==
  Subst(s, LAMBDA i : IF s[i] \in {"\\"} \cup set \/ leadingCharRef(s, i) THEN <<"\\", s[i]>> ELSE <<s[i]>>)

canBeSpecialAfterLt(t) == t # "/" \/ t \in {".", "!", "#", "$", "%", "&", "'", "*", "+", "/", "=", "?", "^", "_", "{", "|", "}", "~", "-"}
escapeText(s) ==
  Subst(s, LAMBDA i :
    CASE s[i] \in {"[", "]", "*", "bq", "\\"} -> <<"\\", s[i]>>
      [] s[i] = "_" -> IF i > 1 /\ i < Len(s) /\ isWordEnd(s[i - 1]) /\ isWord(s[i + 1]) THEN <<"_">> ELSE <<"\\", "_">>
      [] s[i] = "&" -> IF leadingCharRef(s, i) THEN <<"\\", "&">> ELSE <<"&">>
      [] s[i] = "<" -> IF i < Len(s) /\ ~canBeSpecialAfterLt(s[i + 1]) THEN <<"<">> ELSE <<"\\", "<">>
      [] s[i] = "nbsp" -> Ref("nbsp;")
      [] OTHER -> <<s[i]>>)

escapeAutolink(s) ==
  Subst(s, LAMBDA i :
    CASE s[i] \in Blanks -> NumericRef(s[i])
      [] s[i] = "&" -> IF leadingCharRef(s, i) THEN Ref("amp;") ELSE <<"&">>
      [] s[i] = "<" -> Ref("lt;")
      [] s[i] = ">" -> Ref("gt;")
      [] OTHER -> <<s[i]>>)

escapeCodeFenceInfo(s) == escapeNewLines(escapeAmpersandBackslash(s, {}))

SpaceRef(t) == IF t = " " THEN Ref("#32;") ELSE Ref("Tab;")
escapeLeadingSpaceTab(s) == IF s[1] \in SpaceTab THEN SpaceRef(s[1]) \o Tail(s) ELSE s
escapeTrailingSpaceTab(s) == IF Last(s) \in SpaceTab THEN Front(s) \o SpaceRef(Last(s)) ELSE s
startsWithSpaceOrTab(s) == s # <<>> /\ s[1] \in SpaceTab
endsWithSpaceOrTab(s) == s # <<>> /\ Last(s) \in SpaceTab

\* The dashes, with spaces, that end the text written so far.
trailingDashes(s) ==
  LET b == Max({i \in 1 .. Len(s) : s[i] \notin {"-", " "}} \cup {0})
  IN  From(s, FirstIn(s, b + 1, {"-"}))
thematicBreakLookalike(s) == s[1] \in {"-", "_"} /\ \A i \in 1 .. Len(s) : s[i] \in {s[1]} \cup SpaceTab

escapeStartOfLine_ignoreMarkers(c, s0, startOfParagraph, endOfLine) ==
  LET s == escapeLeadingSpaceTab(s0)
      Opens(tail) == startsWithSpaceOrTab(tail) \/ (tail = <<>> /\ endOfLine)
      hash  == RunEnd(s, 1) - 1
      ordered == Len(s) >= 2 /\ s[1] \in Digits /\ s[2] \in {".", ")"}
  IN  IF \/ s[1] \in {"-", "+"} /\ (startsWithSpaceOrTab(Tail(s)) \/ (Len(s) = 1 /\ startOfParagraph /\ endOfLine))
         \/ s[1] = ">"
         \/ s[1] = "#" /\ Opens(From(s, (IF hash > 6 THEN 6 ELSE hash) + 1))
         \/ HasPrefixAt(s, 1, <<"~", "~", "~">>)
         \/ ~ordered /\ endOfLine /\ thematicBreakLookalike(s) /\ thematicBreak(s)
      THEN <<"\\">> \o s
      ELSE IF ordered /\ Opens(From(s, 3)) /\ (startOfParagraph \/ s[1] = "1")
      THEN <<s[1], "\\", s[2]>> \o From(s, 3)
      ELSE s

\* What starts a line is escaped if it could be read as the start of a block,
\* or as a thematic break together with the bullets before it.
escapeStartOfLine(c, s0, startOfParagraph, endOfLine) ==
  LET s == escapeLeadingSpaceTab(s0)
      Opens(tail) == startsWithSpaceOrTab(tail) \/ (tail = <<>> /\ endOfLine)
      hash  == RunEnd(s, 1) - 1
      ordered == Len(s) >= 2 /\ s[1] \in Digits /\ s[2] \in {".", ")"}
      line  == IF startOfParagraph /\ s[1] = "-" THEN trailingDashes(c.out) \o s ELSE s
  IN  IF \/ s[1] \in {"-", "+"} /\ (startsWithSpaceOrTab(Tail(s)) \/ (Len(s) = 1 /\ startOfParagraph /\ endOfLine))
         \/ s[1] = ">"
         \/ s[1] = "#" /\ Opens(From(s, (IF hash > 6 THEN 6 ELSE hash) + 1))
         \/ HasPrefixAt(s, 1, <<"~", "~", "~">>)
         \/ ~ordered /\ endOfLine /\ thematicBreakLookalike(s) /\ thematicBreak(line)
      THEN <<"\\">> \o s
      ELSE IF ordered /\ Opens(From(s, 3)) /\ (startOfParagraph \/ s[1] = "1")
      THEN <<s[1], "\\", s[2]>> \o From(s, 3)
      ELSE s

canStartHTMLBlock(s, startOfParagraph) ==
  HasPrefixAt(s, 1, <<"<">>) /\ (htmlKind(s) \in 1 .. 6 \/ (htmlKind(s) = 7 /\ startOfParagraph))

(***************************************************************************)
(* Links, code spans and code fences.                                      *)
(***************************************************************************)
balancedParens(s) ==
  LET Balance(i) == Cardinality({j \in 1 .. i : s[j] = "("}) - Cardinality({j \in 1 .. i : s[j] = ")"})
  IN  (\A i \in 1 .. Len(s) : Balance(i) >= 0) /\ Balance(Len(s)) = 0

wrapAndEscapeLinkTitle(t) ==
  LET Count(S) == Cardinality({i \in 1 .. Len(t) : t[i] \in S})
      dq == Count({"\""})
      sq == Count({"'"})
      parens == Count({"(", ")"})
      In(o, set, e) == <<o>> \o escapeAmpersandBackslash(t, set) \o <<e>>
  IN  IF dq = 0 THEN In("\"", {}, "\"")
      ELSE IF sq = 0 THEN In("'", {}, "'")
      ELSE IF parens = 0 THEN In("(", {}, ")")
      ELSE IF dq <= sq /\ dq <= parens THEN In("\"", {"\""}, "\"")
      ELSE IF sq <= parens THEN In("'", {"'"}, "'") ELSE In("(", {"(", ")"}, ")")

formatLinkTail(dest, title) ==
  LET bare == escapeAmpersandBackslash(dest, {})
      d == IF FirstIn(dest, 1, Blanks) <= Len(dest) \/ ~balancedParens(dest)
           THEN <<"<">> \o escapeNewLines(escapeAmpersandBackslash(dest, {"<", ">"})) \o <<">">>
           ELSE IF dest = <<>> /\ title # <<>> THEN <<"<", ">">>
           ELSE IF HasPrefixAt(bare, 1, <<"<">>) THEN <<"\\">> \o bare ELSE bare
  IN  <<"(">> \o d \o (IF title = <<>> THEN <<>> ELSE <<" ">> \o escapeNewLines(wrapAndEscapeLinkTitle(title))) \o <<")">>

\* The lengths of the runs of t in a text.
matchLens(s, t) == {RunEnd(s, i) - i : i \in {j \in 1 .. Len(s) : s[j] = t /\ (j = 1 \/ s[j - 1] # t)}}

codeSpan(text) ==
  LET delimiter == Run(Min({n \in 1 .. Len(text) + 1 : n \notin matchLens(text, "bq")}), "bq")
      f   == text[1]
      l   == Last(text)
      pad == IF f = "bq" \/ l = "bq" \/ (f = " " /\ l = " " /\ Trim(text, {" "}) # <<>>) THEN <<" ">> ELSE <<>>
  IN  delimiter \o pad \o text \o pad \o delimiter

\* The opening and the closing fence of a code block.
codeFences(info, lines) ==
  LET t    == IF \E i \in 1 .. Len(info) : info[i] = "bq" THEN "~" ELSE "bq"
      n    == Max({3} \cup {k + 1 : k \in UNION {matchLens(lines[i], t) : i \in 1 .. Len(lines)}})
      gap  == IF t = "~" /\ HasPrefixAt(info, 1, <<"~">>) THEN <<" ">> ELSE <<>>
  IN  <<Run(n, t) \o gap \o escapeCodeFenceInfo(info), Run(n, t)>>

(***************************************************************************)
(* Inline content, first turned into segments.                             *)
(***************************************************************************)
isEmphasisStart(op) == op.type \in {"EmphasisStart", "StrongEmphasisStart"}
isEmphasisEnd(op) == op.type \in {"EmphasisEnd", "StrongEmphasisEnd"}
emphasisOutputStartsWithPunct(op) ==
  op.type = "Text" => op.text # <<>> /\ (op.text[1] \in UnicodeSpaces \/ StartsWithPunct(op.text[1]))
emphasisOutputEndsWithPunct(op) ==
  op.type = "Text" => op.text # <<>> /\ (Last(op.text) \in UnicodeSpaces \/ EndsWithPunct(Last(op.text)))

segment(typ, text) == [typ |-> typ, text |-> text]
Seg(s) == IF s = <<>> THEN <<>> ELSE <<segment("Text", s)>>

textSegments(ops, i) ==
  LET t      == ops[i].text
      After(Test(_)) == i > 1 /\ Test(ops[i - 1])
      Before(Test(_)) == i < Len(ops) /\ Test(ops[i + 1])
      first  == \/ After(isEmphasisStart) /\ t[1] \in UnicodeSpaces
                \/ ~After(isEmphasisStart) /\ i > 2 /\ After(isEmphasisEnd) /\ emphasisOutputEndsWithPunct(ops[i - 2]) /\ isWord(t[1])
      t1     == IF first THEN Tail(t) ELSE t
      bang   == t1 # <<>> /\ Last(t1) = "!" /\ Before(LAMBDA op : op.type = "LinkStart")
      last   == /\ t1 # <<>>
                /\ \/ Before(isEmphasisEnd) /\ Last(t1) \in UnicodeSpaces
                   \/ /\ ~Before(isEmphasisEnd) /\ i < Len(ops) - 1 /\ Before(isEmphasisStart)
                      /\ emphasisOutputStartsWithPunct(ops[i + 2]) /\ isWordEnd(Last(t1))
      suffix == IF bang THEN <<"\\", "!">> ELSE IF last THEN NumericRef(Last(t1)) ELSE <<>>
  IN  (IF first THEN Seg(NumericRef(t[1])) ELSE <<>>)
        \o Seg(escapeText(IF bang \/ last THEN Front(t1) ELSE t1)) \o Seg(suffix)

opSegments(ops, i) ==
  LET op   == ops[i]
      LinkTail == segment("TextNoReflow", formatLinkTail(op.dest, op.text))
  IN  CASE op.type = "Text" -> textSegments(ops, i)
        [] op.type = "RawHTML" -> <<segment("HTML", op.text)>>
        [] op.type = "NewLine" ->
             IF (i > 1 /\ isEmphasisStart(ops[i - 1])) \/ (i < Len(ops) /\ isEmphasisEnd(ops[i + 1]))
             THEN Seg(Ref("NewLine;")) ELSE <<segment("NewLine", <<>>)>>
        [] op.type = "CodeSpan" -> <<segment("TextNoReflow", codeSpan(op.text))>>
        [] op.type \in {"EmphasisStart", "EmphasisEnd"} -> Seg(<<"*">>)
        [] op.type \in {"StrongEmphasisStart", "StrongEmphasisEnd"} -> Seg(<<"*", "*">>)
        [] op.type = "LinkStart" -> <<segment("LinkOrImageStart", <<>>)>> \o Seg(<<"[">>)
        [] op.type = "LinkEnd" -> Seg(<<"]">>) \o <<LinkTail, segment("LinkOrImageEnd", <<>>)>>
        [] op.type = "Image" -> <<segment("LinkOrImageStart", <<>>)>> \o Seg(<<"!", "[">>) \o Seg(escapeNewLines(escapeText(op.alt)))
                                  \o Seg(<<"]">>) \o <<LinkTail, segment("LinkOrImageEnd", <<>>)>>
        [] op.type = "Autolink" ->
             Seg(<<"<">>) \o Seg(IF op.dest = <<"mailto:">> \o op.text THEN op.text ELSE escapeAutolink(op.text)) \o Seg(<<">">>)
        [] op.type = "HardLineBreak" -> <<segment("HardLineBreak", <<>>)>>

buildSegments(ops) == FlattenSeq([i \in 1 .. Len(ops) |-> opSegments(ops, i)])

\* Emphasis nested in or next to emphasis, which the formatter does not support.
unsupported(ops) ==
  \E i \in 1 .. Len(ops) :
    /\ isEmphasisStart(ops[i])
    /\ \/ i > 1 /\ isEmphasisEnd(ops[i - 1])
       \/ Cardinality({j \in 1 .. i : isEmphasisStart(ops[j])}) - Cardinality({j \in 1 .. i : isEmphasisEnd(ops[j])}) >= 2

(***************************************************************************)
(* Segments written as a heading, as a paragraph, and as a paragraph that  *)
(* is reflowed to a width.                                                 *)
(***************************************************************************)
headingText(segs, i) ==
  LET s  == segs[i].text
      t1 == IF i = 1 THEN escapeLeadingSpaceTab(s) ELSE s
      t2 == IF i = Len(segs) THEN escapeTrailingSpaceTab(t1) ELSE t1
      h  == TrimRight(t2, {"#"})
  IN  IF i = Len(segs) /\ Len(h) < Len(t2) /\ (endsWithSpaceOrTab(h) \/ (h = <<>> /\ i = 1))
      THEN h \o <<"\\">> \o From(t2, Len(h) + 1) ELSE t2
writeSegmentsATXHeading(c, segs) ==
  write(c, Subst(segs, LAMBDA i : CASE segs[i].typ = "Text" -> headingText(segs, i)
                                    [] segs[i].typ \in {"HTML", "TextNoReflow"} -> segs[i].text
                                    [] segs[i].typ = "NewLine" -> Ref("NewLine;")
                                    [] OTHER -> <<>>))

SplitLines(s) ==
  FoldLeft(LAMBDA acc, t : IF t = NL THEN Append(acc, <<>>) ELSE [acc EXCEPT ![Len(acc)] = Append(@, t)], <<<<>>>>, s)
writeOnLines(c, lines) ==
  FoldLeft(LAMBDA d, l : write(startLine(finishLine(d)), l), write(c, lines[1]), Tail(lines))

RECURSIVE paragraphFrom(_, _, _)
paragraphFrom(c, segs, i) ==
  LET seg   == segs[i]
      Is(j, typ) == j \in 1 .. Len(segs) /\ segs[j].typ = typ
      start == i = 1 \/ (Is(i - 1, "NewLine") /\ ~Is(i - 2, "NewLine"))
      end   == i = Len(segs) \/ Is(i + 1, "NewLine")
      text  == IF end THEN escapeTrailingSpaceTab(seg.text) ELSE seg.text
      lines == SplitLines(seg.text)
      block == start /\ canStartHTMLBlock(lines[1], i = 1)
      Go(d) == paragraphFrom(d, segs, i + 1)
  IN  IF i > Len(segs) THEN c
      ELSE CASE seg.typ = "Text" -> Go(write(c, IF start THEN escapeStartOfLine(c, text, i = 1, end) ELSE text))
             [] seg.typ = "HTML" ->
                  IF block /\ i = 1 /\ Len(lines) = 1 /\ Is(2, "NewLine")
                  THEN paragraphFrom(write(c, lines[1] \o Ref("NewLine;")), segs, i + 2)
                  ELSE Go(writeOnLines(IF block /\ i > 1 THEN write(c, Run(4, " ")) ELSE c, lines))
             [] seg.typ = "TextNoReflow" -> Go(write(c, seg.text))
             [] seg.typ = "NewLine" -> Go(IF i = 1 \/ i = Len(segs) \/ Is(i - 1, "NewLine")
                                          THEN write(c, Ref("NewLine;")) ELSE startLine(finishLine(c)))
             [] seg.typ = "HardLineBreak" -> Go(write(c, <<"\\">>))
             [] OTHER -> Go(c)
writeSegmentsParagraph(c, segs) == paragraphFrom(c, segs, 1)

\* The parts of a text between its runs of whitespace.
SplitAtBlanks(s) ==
  FoldLeft(LAMBDA acc, i : IF s[i] \notin Blanks THEN [acc EXCEPT ![Len(acc)] = Append(@, s[i])]
                           ELSE IF i > 1 /\ s[i - 1] \in Blanks THEN acc ELSE Append(acc, <<>>),
           <<<<>>>>, [i \in 1 .. Len(s) |-> i])
Coalesce(s) == FoldLeft(LAMBDA acc, i : IF i = 1 THEN SplitAtBlanks(s)[1] ELSE acc \o <<" ">> \o SplitAtBlanks(s)[i],
                        <<>>, [i \in 1 .. Len(SplitAtBlanks(s)) |-> i])

\* Spans are written whole, with whitespace between them; a link is one span.
FinishSpan(r) == IF r.cur = <<>> THEN r ELSE [r EXCEPT !.spans = Append(@, r.cur), !.cur = <<>>]
AddToSpan(r, s) == [r EXCEPT !.cur = @ \o s]
AddSegment(r, seg) ==
  LET parts == SplitAtBlanks(seg.text)
      joined == Coalesce(seg.text)
  IN  CASE seg.typ = "Text" /\ r.link > 0 ->
             AddToSpan(r, IF parts[1] = <<>> /\ HasSuffix(r.cur, <<" ">>) THEN Tail(joined) ELSE joined)
        [] seg.typ = "Text" /\ r.link = 0 ->
             FoldLeft(LAMBDA q, part : AddToSpan(FinishSpan(q), part), AddToSpan(r, parts[1]), Tail(parts))
        [] seg.typ = "TextNoReflow" -> AddToSpan(r, seg.text)
        [] seg.typ = "HTML" -> AddToSpan(r, joined)
        [] seg.typ = "NewLine" -> IF r.link = 0 THEN FinishSpan(r)
                                  ELSE IF HasSuffix(r.cur, <<" ">>) THEN r ELSE AddToSpan(r, <<" ">>)
        [] seg.typ = "HardLineBreak" -> IF r.link > 0 THEN AddToSpan(r, <<"<", "br", " ", "/", ">">>)
                                        ELSE FinishSpan(AddToSpan(r, <<"\\", NL>>))
        [] seg.typ = "LinkOrImageStart" -> [r EXCEPT !.link = @ + 1]
        [] seg.typ = "LinkOrImageEnd" -> [r EXCEPT !.link = @ - 1]
buildSpans(segs) == FinishSpan(FoldLeft(AddSegment, [spans |-> <<>>, cur |-> <<>>, link |-> 0], segs)).spans

writeCurrentLine(r) ==
  LET s    == escapeStartOfLine(r.c, r.line, r.start, TRUE)
      html == canStartHTMLBlock(s, r.start)
      s1   == IF ~html THEN s ELSE IF r.start THEN Ref("NewLine;") \o s ELSE Run(4, " ") \o s
  IN  write(IF r.start THEN r.c ELSE startLine(r.c), s1)
startNewLine(r, line) == [c |-> finishLine(writeCurrentLine(r)), line |-> line, start |-> FALSE]

fits(r, span, maxWidth) ==
  LET w    == Width(r.line) + 1 + Width(span)
      line == r.line \o <<" ">> \o span
  IN  w < maxWidth \/ (w = maxWidth /\ escapeStartOfLine(r.c, line, r.start, TRUE) = line)

writeSegmentsParagraphReflow(c, segs, maxWidth0) ==
  LET spans == buildSpans(segs)
      maxWidth == maxWidth0 - Len(Markers(c))
      Place(r, i) ==
        LET hard == HasSuffix(spans[i], <<NL>>)
            span == IF hard THEN Front(spans[i]) ELSE spans[i]
            r1   == IF r.line = <<>> THEN [r EXCEPT !.line = span]
                    ELSE IF fits(r, span, maxWidth) THEN [r EXCEPT !.line = @ \o <<" ">> \o span]
                    ELSE startNewLine(r, span)
        IN  IF hard THEN startNewLine(r1, IF i = Len(spans) THEN Ref("NewLine;") ELSE <<>>) ELSE r1
      r0 == FoldLeft(Place, [c |-> c, line |-> <<>>, start |-> TRUE], [i \in 1 .. Len(spans) |-> i])
  IN  IF spans = <<>> THEN write(c, Ref("NewLine;"))
      ELSE IF r0.line = <<>> THEN r0.c ELSE writeCurrentLine(r0)

(***************************************************************************)
(* The operations.                                                         *)
(***************************************************************************)
FmtThematicBreak(c) ==
  writeLine(c, Run(3, IF c.containers # <<>> /\ Trim(Last(c.containers).marker, {" "}) = <<"*">> THEN "-" ELSE "*"))

FmtHeading(c, op) ==
  LET c1 == writeSegmentsATXHeading(write(startLine(c), Run(op.number, "#") \o <<" ">>), buildSegments(op.content))
  IN  finishLine(IF op.info = <<>> THEN c1 ELSE write(c1, <<" ", "{">> \o op.info \o <<"}">>))

FmtCodeBlock(c, op) ==
  LET f == codeFences(op.info, op.lines) IN FoldLeft(writeLine, c, <<f[1]>> \o op.lines \o <<f[2]>>)

\* An HTML block that starts an item and is indented starts on a line of its own.
FmtHTMLBlock(c, op) ==
  LET n  == Len(c.containers)
      c1 == [c EXCEPT !.containers[n].marker = Append(TrimRight(@, {" "}), " ")]
  IN  FoldLeft(writeLine,
               IF c.lastOpType = "ListItemStart" /\ HasPrefixAt(op.lines[1], 1, <<" ">>) THEN writeLine(c1, <<>>) ELSE c,
               op.lines)

FmtParagraph(c, op, width) ==
  LET segs == buildSegments(op.content)
  IN  finishLine(IF width > 0 THEN writeSegmentsParagraphReflow(startLine(c), segs, width)
                 ELSE writeSegmentsParagraph(startLine(c), segs))

pushContainer(c, ct) == [c EXCEPT !.containers = Append(@, ct)]
popContainer(c) == [c EXCEPT !.containers = Front(@)]
FmtBlockquoteEnd(c) == popContainer(IF c.containerStart = Len(c.out) THEN writeLine(c, <<>>) ELSE c)

FmtListItemStart(c) ==
  LET n == Len(c.containers)
      m == IF c.containers[n].typ = "BulletItem" THEN bulletMarker(c.containers[n].punct)
           ELSE orderedMarker(c.containers[n].number, c.containers[n].punct)
  IN  [c EXCEPT !.containerStart = Len(c.out), !.containers[n].marker = m]

allDashBullets(cts) == \A i \in 1 .. Len(cts) : cts[i].marker = bulletMarker("-")
\* The line of an empty item must not be read as a thematic break: three
\* equal bullets in a row are varied.
VaryBullets(cts) ==
  FoldLeft(LAMBDA cs, i : IF i >= 3 /\ allDashBullets(SubSeq(cs, i - 2, i))
                          THEN [cs EXCEPT ![i].punct = pickPunct("-", "*", cs[i].punct),
                                          ![i].marker = bulletMarker(pickPunct("-", "*", cs[i].punct))]
                          ELSE cs, cts, [i \in 1 .. Len(cts) |-> i])
MaxItemNumber == 999999999
FmtListItemEnd(c) ==
  LET c1 == IF c.containerStart = Len(c.out) THEN writeLine([c EXCEPT !.containers = VaryBullets(@)], <<>>) ELSE c
      n  == Len(c.containers)
  IN  [c1 EXCEPT !.containers[n].marker = <<>>, !.containers[n].number = IF @ < MaxItemNumber THEN @ + 1 ELSE @]

FmtOp(c, op, width) ==
  CASE op.type = "ThematicBreak" -> FmtThematicBreak(c)
    [] op.type = "Heading" -> FmtHeading(c, op)
    [] op.type = "CodeBlock" -> FmtCodeBlock(c, op)
    [] op.type = "HTMLBlock" -> FmtHTMLBlock(c, op)
    [] op.type = "Paragraph" -> FmtParagraph(c, op, width)
    [] op.type = "BlockquoteStart" ->
         pushContainer([c EXCEPT !.containerStart = Len(c.out)], fmtContainer("Blockquote", "", 0, <<">", " ">>))
    [] op.type = "BlockquoteEnd" -> FmtBlockquoteEnd(c)
    [] op.type = "ListItemStart" -> FmtListItemStart(c)
    [] op.type = "ListItemEnd" -> FmtListItemEnd(c)
    [] op.type = "BulletListStart" -> pushContainer(c, fmtContainer("BulletItem", pickPunct("-", "*", c.poppedListPunct), 0, <<>>))
    [] op.type = "OrderedListStart" -> pushContainer(c, fmtContainer("OrderedItem", pickPunct(".", ")", c.poppedListPunct), op.number, <<>>))
    [] op.type \in {"BulletListEnd", "OrderedListEnd"} -> popContainer(c)

FmtDo(c, op, width) ==
  LET c1 == IF c.out # <<>> /\ needNewStanza(op.type, c.lastOpType) THEN writeLine(c, <<>>) ELSE c
      popped == IF op.type \in {"BulletListEnd", "OrderedListEnd"} THEN Last(c.containers).punct ELSE "none"
  IN  [FmtOp(c1, op, width) EXCEPT !.poppedListPunct = popped, !.lastOpType = op.type]

\* The formatted document, as lines.
Format(ops, width) ==
  LET c0 == [out |-> <<>>, containers |-> <<>>, containerStart |-> 0, poppedListPunct |-> "none", lastOpType |-> "ThematicBreak"]
      out == FoldLeft(LAMBDA c, op : FmtDo(c, op, width), c0, ops).out
  IN  IF out = <<>> THEN <<>> ELSE Front(SplitLines(out))
Unsupported(ops) == \E i \in 1 .. Len(ops) : unsupported(ops[i].content)
=============================================================================
