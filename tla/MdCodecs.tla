------------------------------ MODULE MdCodecs ------------------------------
(***************************************************************************)
(* The other codecs of pkg/md: HTML (html.go), the terminal (tty.go), text *)
(* (text.go) and smart punctuation (smart_puncts.go); and what formatting  *)
(* a document must not change.                                             *)
(***************************************************************************)
EXTENDS MdFmt

(***************************************************************************)
(* HTML, as a sequence of tokens (without ConvertCodeBlock).               *)
(***************************************************************************)
escapeHTML(s) ==
  [i \in 1 .. Len(s) |-> CASE s[i] = "&" -> "&amp;" [] s[i] = "\"" -> "&quot;" [] s[i] = "<" -> "&lt;" [] s[i] = ">" -> "&gt;"
                           [] OTHER -> s[i]]
escapeURL(s) ==
  [i \in 1 .. Len(s) |-> CASE s[i] = "\"" -> "%22" [] s[i] = "\\" -> "%5C" [] s[i] = " " -> "%20" [] s[i] = "bq" -> "%60"
                           [] s[i] = "[" -> "%5B" [] s[i] = "]" -> "%5D" [] s[i] = "<" -> "%3C" [] s[i] = ">" -> "%3E"
                           [] OTHER -> s[i]]
attr(k, v) == <<k, "=\"">> \o escapeHTML(v) \o <<"\"">>
titleAttr(t) == IF t = <<>> THEN <<>> ELSE attr(" title", t)

doInline(op) ==
  CASE op.type = "Text" -> escapeHTML(op.text)
    [] op.type = "CodeSpan" -> <<"<code>">> \o escapeHTML(op.text) \o <<"</code>">>
    [] op.type = "RawHTML" -> op.text
    [] op.type = "LinkStart" -> <<"<a">> \o attr(" href", escapeURL(op.dest)) \o titleAttr(op.text) \o <<">">>
    [] op.type = "Image" -> <<"<img">> \o attr(" src", escapeURL(op.dest)) \o attr(" alt", op.alt) \o titleAttr(op.text) \o <<" />">>
    [] op.type = "Autolink" -> <<"<a">> \o attr(" href", escapeURL(op.dest)) \o <<">">> \o escapeHTML(op.text) \o <<"</a>">>
    [] op.type = "NewLine" -> <<NL>>
    [] op.type = "HardLineBreak" -> <<"<br />">>
    [] OTHER -> <<"tag " \o op.type>>
RenderInlineContentToHTML(ops) == FlattenSeq([i \in 1 .. Len(ops) |-> doInline(ops[i])])

Lines(ls) == FlattenSeq([i \in 1 .. Len(ls) |-> Append(ls[i], NL)])
HTMLDo(op) ==
  CASE op.type = "Heading" ->
         <<"<h" \o ToString(op.number)>> \o (IF HasPrefixAt(op.info, 1, <<"#">>) THEN attr(" id", Tail(op.info)) ELSE <<>>) \o <<">">>
           \o RenderInlineContentToHTML(op.content) \o <<"</h" \o ToString(op.number) \o ">", NL>>
    [] op.type = "CodeBlock" ->
         <<"<pre><code">>
           \o (IF op.info = <<>> THEN <<>> ELSE attr(" class", <<"language-">> \o SubSeq(op.info, 1, FirstIn(op.info, 1, {" "}) - 1)))
           \o <<">">> \o escapeHTML(Lines(op.lines)) \o <<"</code></pre>", NL>>
    [] op.type = "HTMLBlock" -> Lines(op.lines)
    [] op.type = "Paragraph" -> <<"<p>">> \o RenderInlineContentToHTML(op.content) \o <<"</p>", NL>>
    [] op.type = "OrderedListStart" ->
         <<"<ol">> \o (IF op.number = 1 THEN <<>> ELSE attr(" start", <<ToString(op.number)>>)) \o <<">", NL>>
    [] OTHER -> <<"tag " \o op.type, NL>>
HTML(ops) == FlattenSeq([i \in 1 .. Len(ops) |-> HTMLDo(ops[i])])

(***************************************************************************)
(* Text, and smart punctuation.                                            *)
(***************************************************************************)
TextDo(op) ==
  CASE op.type \in {"Heading", "Paragraph"} ->
         FlattenSeq([i \in 1 .. Len(op.content) |->
           CASE op.content[i].type \in {"Text", "CodeSpan", "Autolink"} -> op.content[i].text
             [] op.content[i].type = "NewLine" -> <<" ">>
             [] op.content[i].type = "HardLineBreak" -> <<NL>>
             [] OTHER -> <<>>])
    [] op.type = "CodeBlock" -> FlattenSeq([i \in 1 .. Len(op.lines) |-> IF i = 1 THEN op.lines[1] ELSE <<NL>> \o op.lines[i]])
    [] OTHER -> <<>>

applySmartQuotes(s) ==
  [i \in 1 .. Len(s) |-> IF s[i] \notin {"\"", "'"} THEN s[i]
                         ELSE (IF i = 1 \/ s[i - 1] \in UnicodeSpaces THEN "left" ELSE "right") \o s[i]]
\* The replacer tries the shorter run of dashes first.
RECURSIVE applySimpleSmartPuncts(_)
applySimpleSmartPuncts(s) ==
  IF s = <<>> THEN <<>>
  ELSE IF HasPrefixAt(s, 1, <<"-", "-">>) THEN <<"en-dash">> \o applySimpleSmartPuncts(From(s, 3))
  ELSE IF HasPrefixAt(s, 1, <<".", ".", ".">>) THEN <<"ellipsis">> \o applySimpleSmartPuncts(From(s, 4))
  ELSE <<s[1]>> \o applySimpleSmartPuncts(Tail(s))
applySmartPuncts(s) == applySimpleSmartPuncts(applySmartQuotes(s))
applySmartPunctsToOp(op) ==
  [op EXCEPT !.content = [i \in 1 .. Len(@) |->
     IF @[i].type \notin {"Text", "LinkStart", "LinkEnd", "Image"} THEN @[i]
     ELSE LinkOp(@[i].type, @[i].dest, applySmartPuncts(@[i].text),
                 IF @[i].type = "Image" THEN applySmartPuncts(@[i].alt) ELSE @[i].alt)]]

(***************************************************************************)
(* The terminal, without the callbacks for code blocks and relative links. *)
(* The output is a sequence of tokens with their styles.                   *)
(* The state t of the inline content has the codec c, the stack of styles, *)
(* the span being built, the styles of the space before it, the width of   *)
(* the line, and whether a style was popped from the empty stack.          *)
(***************************************************************************)
Styled(s, styles) == [i \in 1 .. Len(s) |-> <<s[i], ToSet(styles)>>]
Unstyled(s) == [i \in 1 .. Len(s) |-> s[i][1]]
ttyWrite(c, s) == [c EXCEPT !.out = @ \o s]
ttyFinishLine(c) == ttyWrite(c, Styled(<<NL>>, <<>>))
ttyStartLine(c) == useMarkers(ttyWrite(c, Styled(Markers(c), <<>>)))
ttyWriteLine(c, s) ==
  ttyFinishLine(IF s = <<>> THEN useMarkers(ttyWrite(c, Styled(TrimRight(Markers(c), {" "}), <<>>)))
                ELSE ttyWrite(ttyStartLine(c), Styled(s, <<>>)))

writeSpan_spaceNotCounted(t, span, maxWidth) ==
  LET w == Width(Unstyled(span))
  IN  IF span = <<>> THEN t
      ELSE IF t.lineWidth = 0 THEN [t EXCEPT !.c = ttyWrite(@, span), !.lineWidth = w]
      ELSE IF t.lineWidth + w <= maxWidth
      THEN [t EXCEPT !.c = ttyWrite(@, t.prefix \o span), !.lineWidth = @ + w + 1]
      ELSE [t EXCEPT !.c = ttyWrite(ttyStartLine(ttyFinishLine(@)), span), !.lineWidth = w]

writeSpan(t, span, maxWidth) ==
  LET w == Width(Unstyled(span))
  IN  IF span = <<>> THEN t
      ELSE IF t.lineWidth = 0 THEN [t EXCEPT !.c = ttyWrite(@, span), !.lineWidth = w]
      ELSE IF t.lineWidth + 1 + w <= maxWidth
      THEN [t EXCEPT !.c = ttyWrite(@, t.prefix \o span), !.lineWidth = @ + w + 1]
      ELSE [t EXCEPT !.c = ttyWrite(ttyStartLine(ttyFinishLine(@)), span), !.lineWidth = w]

ttyReflow(t, s, maxWidth) ==
  LET parts == SplitAtBlanks(s)
      n     == Len(parts)
      t1    == [t EXCEPT !.span = @ \o Styled(parts[1], t.stylings)]
      t2    == [writeSpan(t1, t1.span, maxWidth) EXCEPT !.prefix = Styled(<<" ">>, t.stylings)]
      t3    == FoldLeft(LAMBDA q, part : writeSpan(q, Styled(part, t.stylings), maxWidth), t2, SubSeq(parts, 2, n - 1))
  IN  IF n = 1 THEN t1 ELSE [t3 EXCEPT !.span = Styled(parts[n], t.stylings)]

ttyInlineOp(t, op, heading, width, maxWidth) ==
  LET reflow == ~heading /\ width > 0
      Write(q, s) == IF reflow THEN ttyReflow(q, s, maxWidth) ELSE [q EXCEPT !.c = ttyWrite(@, Styled(s, q.stylings))]
      Push(st) == [t EXCEPT !.stylings = Append(@, st)]
      Pop(q) == IF q.stylings = <<>> THEN [q EXCEPT !.panic = TRUE] ELSE [q EXCEPT !.stylings = Front(@)]
      Dest(q) == IF Len(op.dest) > 1 /\ op.dest[1] \in {"http"} /\ op.dest[2] = ":"
                 THEN Write(Write(Write(q, <<" ", "(">>), op.dest), <<")">>) ELSE q
      written == writeSpan(t, t.span, maxWidth)
  IN  CASE op.type \in {"Text", "Autolink"} -> Write(t, op.text)
        [] op.type = "RawHTML" -> IF op.text = <<"<", "kbd", ">">> THEN Push("inverse")
                                  ELSE IF op.text = <<"<", "/", "kbd", ">">> THEN Pop(t) ELSE t
        [] op.type = "NewLine" -> IF heading \/ width > 0 THEN Write(t, <<" ">>)
                                  ELSE [t EXCEPT !.c = ttyStartLine(ttyFinishLine(@))]
        [] op.type = "CodeSpan" -> Pop(Write(Push("underlined"), op.text))
        [] op.type = "EmphasisStart" -> Push("italic")
        [] op.type = "StrongEmphasisStart" -> Push("bold")
        [] op.type \in {"EmphasisEnd", "StrongEmphasisEnd"} -> Pop(t)
        [] op.type = "LinkStart" -> Push("underlined")
        [] op.type = "LinkEnd" -> Dest(Pop(t))
        [] op.type = "Image" -> Dest(Write(Write(t, <<"Image:", " ">>), op.alt))
        [] op.type = "HardLineBreak" ->
             IF reflow THEN [written EXCEPT !.span = <<>>, !.lineWidth = 0, !.c = ttyStartLine(ttyFinishLine(@))] ELSE t

doInlineContent(c, ops, heading, width) ==
  LET maxWidth == width - Width(Markers(c))
      t0 == [c |-> c, stylings |-> IF heading THEN <<"bold">> ELSE <<>>, span |-> <<>>, prefix |-> <<>>, lineWidth |-> 0,
             panic |-> FALSE]
      t  == FoldLeft(LAMBDA q, op : IF q.panic THEN q ELSE ttyInlineOp(q, op, heading, width, maxWidth), t0, ops)
      t1 == IF ~heading /\ width > 0 THEN writeSpan(t, t.span, maxWidth) ELSE t
  IN  [t1.c EXCEPT !.panic = @ \/ t.panic]

TTYOp(c, op, width) ==
  LET n == Len(c.containers)
  IN  CASE op.type = "ThematicBreak" -> ttyWriteLine(c, <<"rule">>)
        [] op.type = "Heading" ->
             ttyFinishLine(doInlineContent(ttyWrite(ttyStartLine(c), Styled(Run(op.number, "#") \o <<" ">>, <<"bold">>)), op.content, TRUE, width))
        [] op.type = "CodeBlock" -> FoldLeft(LAMBDA d, l : ttyWriteLine(d, <<" ", " ">> \o l), c, op.lines)
        [] op.type = "HTMLBlock" -> c
        [] op.type = "Paragraph" -> ttyFinishLine(doInlineContent(ttyStartLine(c), op.content, FALSE, width))
        [] op.type = "BlockquoteStart" -> pushContainer(c, fmtContainer("Blockquote", "", 0, <<"|", " ">>))
        [] op.type = "BulletListStart" -> pushContainer(c, fmtContainer("BulletItem", "", 0, <<>>))
        [] op.type = "OrderedListStart" -> pushContainer(c, fmtContainer("OrderedItem", "", op.number, <<>>))
        [] op.type \in {"BlockquoteEnd", "BulletListEnd", "OrderedListEnd"} -> popContainer(c)
        [] op.type = "ListItemStart" ->
             [c EXCEPT !.containers[n].marker = IF c.containers[n].typ = "BulletItem" THEN <<"bullet", " ">>
                                                ELSE <<ToString(c.containers[n].number), ".", " ">>]
        [] op.type = "ListItemEnd" -> [c EXCEPT !.containers[n].marker = <<>>, !.containers[n].number = @ + 1]
TTYDo(c, op, width) ==
  LET c1 == IF c.out # <<>> /\ op.type # "HTMLBlock" /\ needNewStanza(op.type, c.lastOpType) THEN ttyWriteLine(c, <<>>) ELSE c
  IN  IF c.panic THEN c ELSE [TTYOp(c1, op, width) EXCEPT !.lastOpType = op.type]
TTY(ops, width) ==
  FoldLeft(LAMBDA c, op : TTYDo(c, op, width),
           [out |-> <<>>, containers |-> <<>>, lastOpType |-> "ThematicBreak", panic |-> FALSE], ops)

(***************************************************************************)
(* Properties.                                                             *)
(***************************************************************************)
\* Whitespace in paragraphs, up to what reflowing may change.
Reflowed(ops) ==
  LET Body(s) == Coalesce(Trim(s, Blanks))
      AroundBreaks(s) == FlattenSeq([i \in 1 .. Len(s) |->
         IF s[i] = " " /\ ((i > 1 /\ s[i - 1] = "<br />") \/ (i < Len(s) /\ s[i + 1] = "<br />")) THEN <<>> ELSE <<s[i]>>])
  IN  FlattenSeq([i \in 1 .. Len(ops) |->
        IF ops[i].type = "Paragraph" THEN <<"<p>">> \o AroundBreaks(Body(RenderInlineContentToHTML(ops[i].content))) \o <<"</p>">>
        ELSE HTMLDo(ops[i])])

\* Formatting a document, with or without reflowing it, does not change the
\* HTML it is rendered to (up to whitespace when it is reflowed), and what
\* was reflowed is left alone when it is formatted again: every character
\* that would be read as markup is escaped, and nothing more.  Nested and
\* consecutive emphasis are excepted, as the formatter says.
FmtKeepsMeaning(doc, width) ==
  LET ops == Render(doc)
      fmt == Format(ops, 0)
      ref == Format(ops, width)
  IN  ~Unsupported(ops) => /\ HTML(Render(fmt)) = HTML(ops)
                           /\ Reflowed(Render(ref)) = Reflowed(ops)
                           /\ Format(Render(ref), 0) = ref

\* The text of operations, without the punctuation that is made smart.
TextOf(ops) == FlattenSeq([i \in 1 .. Len(ops) |-> TextDo(ops[i])])
Unpunctuated(s) ==
  SelectSeq(s, LAMBDA t : t \notin {"-", ".", "'", "\"", "en-dash", "ellipsis", "left'", "right'", "left\"", "right\""})
Smart(ops) ==
  [i \in 1 .. Len(ops) |-> IF ops[i].type \in {"Heading", "Paragraph"} THEN applySmartPunctsToOp(ops[i]) ELSE ops[i]]

\* The terminal shows the text of a document, word for word in its order and
\* whatever the width; a line of a document without containers is wider than
\* the terminal only where there is no space to break it at.  Smart
\* punctuation changes nothing but quotes, dashes and dots.
TTYShowsText(doc, width) ==
  LET ops   == Render(doc)
      tty   == TTY(ops, width)
      Words(s) == SelectSeq(s, LAMBDA t : t \notin Blanks \cup {"|"})
      text  == Words(TextOf(ops))
      shown == Words(Unstyled(tty.out))
      left  == FoldLeft(LAMBDA rest, t : IF rest # <<>> /\ rest[1] = t THEN Tail(rest) ELSE rest, text, shown)
  IN  ~tty.panic =>
        /\ left = <<>>
        /\ Unpunctuated(TextOf(Smart(ops))) = Unpunctuated(TextOf(ops))
        /\ shown = Words(Unstyled(TTY(ops, 0).out))
        /\ (\A i \in 1 .. Len(ops) : ops[i].type = "Paragraph") =>
             \A l \in ToSet(SplitLines(Unstyled(tty.out))) : Width(l) <= width \/ Words(l) = l
=============================================================================
