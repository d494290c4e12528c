------------------------------ MODULE MdBlock ------------------------------
(***************************************************************************)
(* The block structure of Markdown (pkg/md/md.go).  A document is a        *)
(* sequence of lines, a line a sequence of tokens as in MdInline.          *)
(*                                                                         *)
(* The parser is a function on its state p: the lines, the number of lines *)
(* read, the path of open containers, the lines of the open paragraph and  *)
(* the operations passed to the codec so far.  Line numbers are left out   *)
(* of the operations.                                                      *)
(***************************************************************************)
EXTENDS MdInline

Op(type) == [type |-> type, number |-> 0, info |-> <<>>, lines |-> <<>>, content |-> <<>>]
Do(p, op) == [p EXCEPT !.ops = Append(@, op)]

more(p) == p.read < Len(p.doc)
nextLine(p) == p.doc[p.read + 1]
skipLine(p) == [p EXCEPT !.read = @ + 1]
\* Most callers look at a line first and take it only if it is theirs: what
\* backup undoes in the code is not done here.

(***************************************************************************)
(* The regular expressions for lines.                                      *)
(***************************************************************************)
Indent(l) == FirstNotIn(l, 1, {" "}) - 1
isBlankLine(l) == Trim(l, SpaceTab) = <<>>
RunEnd(l, i) == IF i > Len(l) THEN i ELSE FirstNotIn(l, i, {l[i]})
Run(n, t) == [i \in 1 .. n |-> t]

thematicBreak(l) ==
  /\ Indent(l) <= 3
  /\ LET r == From(l, Indent(l) + 1) IN
       /\ r # <<>> /\ r[1] \in {"-", "_", "*"}
       /\ \A i \in 1 .. Len(r) : r[i] \in {r[1]} \cup SpaceTab
       /\ Cardinality({i \in 1 .. Len(r) : r[i] = r[1]}) >= 3

\* The end of the opener of an ATX heading, 0 if there is none.
atxHeading(l) ==
  LET b == Indent(l) + 1
      e == RunEnd(l, b)
  IN  IF b <= 4 /\ b <= Len(l) /\ l[b] = "#" /\ e - b <= 6 /\ (e > Len(l) \/ l[e] \in SpaceTab) THEN e ELSE 0
\* The line without the closer of an ATX heading.
WithoutCloser(l) ==
  LET h == TrimRight(TrimRight(l, SpaceTab), {"#"})
  IN  IF Len(h) < Len(TrimRight(l, SpaceTab)) /\ h # <<>> /\ Last(h) \in SpaceTab THEN TrimRight(h, SpaceTab) ELSE l
\* Where the attributes of a heading start, 0 if there are none.
attributeStart(l) ==
  LET s == {i \in 1 .. Len(l) - 3 : /\ l[i] = " " /\ l[i + 1] = "{" /\ l[Len(l)] = "}"
                                    /\ \A j \in i + 2 .. Len(l) - 1 : l[j] # "}"}
  IN  IF s = {} THEN 0 ELSE Min(s)

\* Where the info string of a code fence starts, 0 if the line is no fence.
codeFence(l) ==
  LET b == Indent(l) + 1
      e == RunEnd(l, b)
  IN  IF b > 4 \/ b > Len(l) THEN 0
      ELSE IF l[b] \notin {"bq", "~"} \/ e - b < 3 THEN 0
      ELSE IF l[b] = "bq" /\ FirstIn(l, e, {"bq"}) <= Len(l) THEN 0 ELSE e
closesFence(l, opener) ==
  LET b == Indent(l) + 1
      e == RunEnd(l, b)
  IN  b <= 4 /\ b <= Len(l) /\ l[b] = opener[1] /\ e - b >= 3 /\ e - b >= Len(opener) /\ isBlankLine(From(l, e))

htmlBlockTags == {"div"}
preTags == {"pre"}
\* The kind of HTML block, 1 to 7, that a line can start; 0 if none.
htmlKind(l) ==
  LET b    == Indent(l) + 1
      At(t) == HasPrefixAt(l, b, t)
      name == IF At(<<"<", "/">>) THEN b + 2 ELSE b + 1
      tag  == IF openTag(l, b) # 0 THEN openTag(l, b) ELSE closingTag(l, b)
  IN  IF b > 4 \/ b >= Len(l) \/ ~At(<<"<">>) THEN 0
      ELSE IF l[b + 1] \in preTags THEN 1
      ELSE IF At(<<"<", "!", "-", "-">>) THEN 2
      ELSE IF l[b + 1] = "?" THEN 3
      ELSE IF l[b + 1] = "!" /\ b + 2 <= Len(l) /\ isASCIILetter(l[b + 2]) THEN 4
      ELSE IF At(<<"<", "!", "[", "CDATA", "[">>) THEN 5
      ELSE IF name <= Len(l) /\ l[name] \in htmlBlockTags
              /\ (name = Len(l) \/ l[name + 1] \in SpaceTab \cup {">"} \/ HasPrefixAt(l, name + 1, <<"/", ">">>)) THEN 6
      ELSE IF tag # 0 /\ isBlankLine(From(l, tag)) THEN 7 ELSE 0
htmlCloses(l, kind) ==
  CASE kind = 1 -> \E t \in preTags : Index(l, <<"<", "/", t>>, 1) # 0
    [] kind = 2 -> Index(l, <<"-", "-", ">">>, 1) # 0
    [] kind = 3 -> Index(l, <<"?", ">">>, 1) # 0
    [] kind = 4 -> Index(l, <<">">>, 1) # 0
    [] kind = 5 -> Index(l, <<"]", "]", ">">>, 1) # 0

(***************************************************************************)
(* Containers.                                                             *)
(***************************************************************************)
NumValue == ("0" :> 0) @@ ("1" :> 1) @@ ("2" :> 2) @@ ("3" :> 3) @@ ("4" :> 4) @@ ("999999999" :> 999999999)
container(typ, punct, start, indent) == [typ |-> typ, punct |-> punct, start |-> start, indent |-> indent]
isList(c) == c.typ \in {"BulletList", "OrderedList"}
isItem(c) == c.typ \in {"BulletItem", "OrderedItem"}
itemToList(typ) == IF typ = "BulletItem" THEN "BulletList" ELSE "OrderedList"
containerOpenOp(typ) == (IF typ \in {"BulletItem", "OrderedItem"} THEN "ListItem" ELSE typ) \o "Start"
containerCloseOp(typ) == (IF typ \in {"BulletItem", "OrderedItem"} THEN "ListItem" ELSE typ) \o "End"

\* The length of a blockquote marker at the start of a line, 0 if none.
blockquoteMarker(l) ==
  LET b == Indent(l) + 1
  IN  IF b > 4 \/ b > Len(l) THEN 0
      ELSE IF l[b] # ">" THEN 0 ELSE IF b < Len(l) /\ l[b + 1] = " " THEN b + 1 ELSE b

closeParagraph(p) ==
  LET text == FoldLeft(LAMBDA acc, l : IF acc = <<>> THEN l ELSE acc \o <<NL>> \o l, <<>>, p.paragraph)
  IN  IF p.paragraph = <<>> THEN p
      ELSE Do([p EXCEPT !.paragraph = <<>>],
              [Op("Paragraph") EXCEPT !.content = renderInline(Trim(text, SpaceTab))])

closeBlocks(p, keep) ==
  LET p1    == closeParagraph(p)
      n     == Len(p.containers)
      close == [i \in 1 .. n - keep |-> Op(containerCloseOp(p.containers[n + 1 - i].typ))]
  IN  [p1 EXCEPT !.ops = @ \o close, !.containers = SubSeq(@, 1, keep)]

\* What is left of a line after the marker that continues a container, as a
\* sequence of one, empty if the marker is missing.
matchContinuationMarker(c, l) ==
  CASE c.typ = "Blockquote" -> IF blockquoteMarker(l) = 0 THEN <<>> ELSE <<From(l, blockquoteMarker(l) + 1)>>
    [] isList(c) -> <<l>>
    [] isItem(c) -> IF Indent(l) >= c.indent THEN <<From(l, c.indent + 1)>> ELSE <<>>

RECURSIVE matchFrom(_, _, _)
matchFrom(cs, l, i) ==
  LET rest == matchContinuationMarker(cs[i], l)
  IN  IF i > Len(cs) THEN [line |-> l, matched |-> i - 1]
      ELSE IF rest = <<>> THEN [line |-> l, matched |-> i - 1] ELSE matchFrom(cs, rest[1], i + 1)
matchContinuationMarkers(p, l) == matchFrom(p.containers, l, 1)

\* The position of the first open blockquote past the matched containers, 0 if none.
unmatchedBlockquote(p, matched) ==
  LET at == {i \in matched + 1 .. Len(p.containers) : p.containers[i].typ = "Blockquote"}
  IN  IF at = {} THEN 0 ELSE Min(at)

\* The marker of a list item at the start of a line.  len = 0 if there is none.
itemMarker(l, newParagraph) ==
  LET b      == Indent(l) + 1
      bullet == l[b] \in {"-", "+", "*"}
      order  == l[b] \in Digits /\ b < Len(l)
      e      == IF bullet THEN b + 1 ELSE b + 2
      spaces == FirstNotIn(l, e, {" "}) - e
      blank  == isBlankLine(From(l, e))
      len    == IF spaces >= 5 THEN e ELSE e - 1 + spaces
      width  == b - 1 + Len(l[b]) + (IF bullet THEN 0 ELSE 1)
      none   == [len |-> 0, c |-> container("none", "", 0, 0)]
  IN  IF b > 4 \/ b > Len(l) THEN none
      ELSE IF ~bullet /\ ~(order /\ l[e - 1] \in {".", ")"}) THEN none
      ELSE IF spaces = 0 /\ ~(newParagraph /\ blank) THEN none
      ELSE [len |-> IF spaces = 0 THEN Len(l) ELSE len,
            c   |-> container(IF bullet THEN "BulletItem" ELSE "OrderedItem", l[e - 1],
                              IF bullet THEN 0 ELSE NumValue[l[b]],
                              IF blank THEN width + 1 ELSE width + len - (e - 1))]

RECURSIVE startingMarkersFrom(_, _, _)
startingMarkersFrom(l, newParagraph, cs) ==
  LET m == itemMarker(l, newParagraph)
  IN  IF thematicBreak(l) THEN [line |-> l, containers |-> cs]
      ELSE IF blockquoteMarker(l) # 0
      THEN startingMarkersFrom(From(l, blockquoteMarker(l) + 1), newParagraph, Append(cs, container("Blockquote", "", 0, 0)))
      ELSE IF m.len = 0 \/ (m.c.typ = "OrderedItem" /\ m.c.start # 1 /\ ~newParagraph)
      THEN [line |-> l, containers |-> cs]
      ELSE startingMarkersFrom(From(l, m.len + 1), TRUE, Append(cs, m.c))
parseStartingMarkers(l, newParagraph) == startingMarkersFrom(l, newParagraph, <<>>)

\* A new container, and the list it is in unless it continues one.
openContainer(p, c, inList) ==
  LET list == container(itemToList(c.typ), c.punct, c.start, 0)
      p1   == IF isItem(c) /\ ~inList
              THEN Do([p EXCEPT !.containers = Append(@, list)],
                      [Op(containerOpenOp(list.typ)) EXCEPT !.number = list.start])
              ELSE p
  IN  Do([p1 EXCEPT !.containers = Append(@, c)], Op(containerOpenOp(c.typ)))

processContainerMarkers(p, l) ==
  LET m      == matchContinuationMarkers(p, l)
      s      == parseStartingMarkers(m.line, p.paragraph = <<>> \/ m.matched # Len(p.containers))
      inList == m.matched > 0 /\ isList(p.containers[m.matched])
      continueList == inList /\ s.containers # <<>> /\ s.containers[1].punct = p.containers[m.matched].punct
      matched == IF inList /\ ~continueList THEN m.matched - 1 ELSE m.matched
      Open(q, i) == openContainer(q, s.containers[i], continueList /\ i = 1)
      p1     == FoldLeft(Open, closeBlocks(p, matched), [i \in 1 .. Len(s.containers) |-> i])
  IN  IF s.containers = <<>> THEN [p |-> p, line |-> s.line, matched |-> matched, newItem |-> FALSE]
      ELSE [p |-> p1, line |-> s.line, matched |-> Len(p1.containers), newItem |-> isItem(Last(s.containers))]

(***************************************************************************)
(* Blocks that take several lines.                                         *)
(***************************************************************************)
\* Code fence info strings are verbatim but for backslashes and references.
RECURSIVE processCodeFenceInfo(_)
processCodeFenceInfo(s) ==
  IF s = <<>> THEN <<>>
  ELSE LET c == IF s[1] \in {"\\", "&"} THEN LinkChar(s, 1) ELSE <<s[1], 1>>
       IN  <<c[1]>> \o processCodeFenceInfo(From(s, c[2] + 1))

RECURSIVE fencedFrom(_, _, _, _)
fencedFrom(p, op, indent, opener) ==
  LET m    == matchContinuationMarkers(p, nextLine(p))
      bq   == unmatchedBlockquote(p, m.matched)
      keep == From(m.line, (IF Indent(m.line) < indent THEN Indent(m.line) ELSE indent) + 1)
  IN  IF ~more(p) THEN Do(p, op)
      ELSE IF isBlankLine(m.line) /\ bq # 0 THEN closeBlocks(Do(skipLine(p), op), bq - 1)
      ELSE IF ~isBlankLine(m.line) /\ m.matched < Len(p.containers) THEN Do(p, op)
      ELSE IF closesFence(m.line, opener) THEN Do(skipLine(p), op)
      ELSE fencedFrom(skipLine(p), [op EXCEPT !.lines = Append(@, keep)], indent, opener)
parseFencedCodeBlock(p, l) ==
  LET b == Indent(l) + 1
  IN  fencedFrom(p, [Op("CodeBlock") EXCEPT !.info = Trim(processCodeFenceInfo(From(l, codeFence(l))), SpaceTab)],
                 b - 1, SubSeq(l, b, codeFence(l) - 1))

indentedCodePrefix == <<" ", " ", " ", " ">>
TrimCodePrefix(l) == IF HasPrefixAt(l, 1, indentedCodePrefix) THEN From(l, 5) ELSE l
RECURSIVE indentedFrom(_, _, _)
indentedFrom(p, op, saved) ==
  LET m  == matchContinuationMarkers(p, nextLine(p))
      bq == unmatchedBlockquote(p, m.matched)
      code == HasPrefixAt(m.line, 1, indentedCodePrefix)
  IN  IF ~more(p) THEN Do(p, op)
      ELSE IF isBlankLine(m.line)
      THEN IF bq # 0 THEN closeBlocks(Do(skipLine(p), op), bq - 1)
           ELSE indentedFrom(skipLine(p), op, Append(saved, IF code THEN TrimCodePrefix(m.line) ELSE <<>>))
      ELSE IF m.matched < Len(p.containers) \/ ~code THEN Do(p, op)
      ELSE indentedFrom(skipLine(p), [op EXCEPT !.lines = @ \o saved \o <<TrimCodePrefix(m.line)>>], <<>>)
parseIndentedCodeBlock(p, l) == indentedFrom(p, [Op("CodeBlock") EXCEPT !.lines = <<TrimCodePrefix(l)>>], <<>>)

RECURSIVE htmlToCloser(_, _, _, _)
htmlToCloser(p, op, saved, kind) ==
  LET m   == matchContinuationMarkers(p, nextLine(p))
      bq  == unmatchedBlockquote(p, m.matched)
      op1 == [op EXCEPT !.lines = @ \o saved \o <<m.line>>]
  IN  IF ~more(p) THEN Do(p, op)
      ELSE IF isBlankLine(m.line)
      THEN IF bq # 0 THEN closeBlocks(Do(skipLine(p), op), bq - 1)
           ELSE htmlToCloser(skipLine(p), op, Append(saved, m.line), kind)
      ELSE IF m.matched < Len(p.containers) THEN Do(p, op)
      ELSE IF htmlCloses(m.line, kind) THEN Do(skipLine(p), op1) ELSE htmlToCloser(skipLine(p), op1, <<>>, kind)
parseCloserTerminatedHTMLBlock(p, l, kind) ==
  LET op == [Op("HTMLBlock") EXCEPT !.lines = <<l>>]
  IN  IF htmlCloses(l, kind) THEN Do(p, op) ELSE htmlToCloser(p, op, <<>>, kind)

RECURSIVE htmlToBlank(_, _)
htmlToBlank(p, op) ==
  LET m  == matchContinuationMarkers(p, nextLine(p))
      bq == unmatchedBlockquote(p, m.matched)
      p1 == Do(skipLine(p), op)
  IN  IF ~more(p) THEN Do(p, op)
      ELSE IF isBlankLine(m.line) THEN IF bq # 0 THEN closeBlocks(p1, bq - 1) ELSE p1
      ELSE IF m.matched < Len(p.containers) THEN Do(p, op)
      ELSE htmlToBlank(skipLine(p), [op EXCEPT !.lines = Append(@, m.line)])
parseBlankLineTerminatedHTMLBlock(p, l) == htmlToBlank(p, [Op("HTMLBlock") EXCEPT !.lines = <<l>>])

(***************************************************************************)
(* The main loop, a line at a time.                                        *)
(***************************************************************************)
\* A blank line closes a blockquote whose marker is missing, and an item
\* that starts with two of them.
blankLine(p, matched, newItem) ==
  LET bq    == unmatchedBlockquote(p, matched)
      blank == newItem /\ more(p) /\ isBlankLine(matchContinuationMarkers(p, nextLine(p)).line)
  IN  IF bq # 0 THEN closeBlocks(p, bq - 1)
      ELSE closeParagraph(IF blank THEN closeBlocks(p, Len(p.containers) - 1) ELSE p)

parseATXHeading(p, l) ==
  LET e  == atxHeading(l)
      t  == WithoutCloser(TrimRight(From(l, e), SpaceTab))
      a  == attributeStart(t)
      t1 == IF a = 0 THEN t ELSE SubSeq(t, 1, a - 1)
  IN  Do(p, [Op("Heading") EXCEPT !.number = e - 1 - Indent(l), !.content = renderInline(Trim(t1, SpaceTab)),
                                  !.info = IF a = 0 THEN <<>> ELSE SubSeq(t, a + 2, Len(t) - 1)])

parseLine(p0) ==
  LET r    == processContainerMarkers(skipLine(p0), nextLine(p0))
      p    == r.p
      l    == r.line
      kind == htmlKind(l)
      closed == closeBlocks(p, r.matched)
  IN  CASE isBlankLine(l) -> blankLine(p, r.matched, r.newItem)
        [] ~isBlankLine(l) ->
             IF thematicBreak(l) THEN Do(closed, Op("ThematicBreak"))
             ELSE IF atxHeading(l) # 0 THEN parseATXHeading(closed, l)
             ELSE IF codeFence(l) # 0 THEN parseFencedCodeBlock(closed, l)
             ELSE IF p.paragraph = <<>> /\ HasPrefixAt(l, 1, indentedCodePrefix) THEN parseIndentedCodeBlock(closed, l)
             ELSE IF kind \in 1 .. 5 THEN parseCloserTerminatedHTMLBlock(closed, l, kind)
             ELSE IF kind = 6 \/ (p.paragraph = <<>> /\ kind = 7) THEN parseBlankLineTerminatedHTMLBlock(closed, l)
             ELSE LET q == IF p.paragraph = <<>> THEN closed ELSE p IN [q EXCEPT !.paragraph = Append(@, l)]

RECURSIVE renderFromLine(_)
renderFromLine(p) == IF more(p) THEN renderFromLine(parseLine(p)) ELSE closeBlocks(p, 0)

\* The operations a document passes to a codec.
Render(doc) == renderFromLine([doc |-> doc, read |-> 0, containers |-> <<>>, paragraph |-> <<>>, ops |-> <<>>]).ops
=============================================================================
