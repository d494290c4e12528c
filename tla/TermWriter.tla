---------------------------- MODULE TermWriter ------------------------------
(* How the editor's screen reaches the terminal (pkg/cli/term): building a  *)
(* buffer of cells from styled text, putting buffers together, and the      *)
(* writer, which remembers the last buffer it wrote and sends only what has *)
(* changed.  The terminal is external: its rows are kept with everything    *)
(* that has scrolled off the top, and it interprets the escape sequences    *)
(* that the writer sends.                                                   *)
(*                                                                          *)
(* Zero-width characters are left out of texts: how a terminal attaches     *)
(* them differs between terminals.                                          *)
EXTENDS StyledText

CONSTANTS ScreenWidth, ScreenHeight

----------------------------------------------------------------------------
(* Cells, buffers and the buffer builder.  Positions are 0-based.           *)

Cell(text, style) == [text |-> text, style |-> style]
Pos(line, col) == [line |-> line, col |-> col]
Buffer(width, lines, dot) == [width |-> width, lines |-> lines, dot |-> dot]
emptyBuffer == Buffer(0, <<>>, Pos(0, 0))

cellsWidth(cs) == FoldLeft(LAMBDA w, c : w + Of(c.text), 0, cs)

NewBufferBuilder(width) ==
    [width |-> width, col |-> 0, indent |-> 0, eagerWrap |-> FALSE,
     lines |-> <<<<>>>>, dot |-> Pos(0, 0)]

Cursor(bb) == Pos(Len(bb.lines) - 1, bb.col)
SetDotHere(bb) == [bb EXCEPT !.dot = Cursor(bb)]
built(bb) == Buffer(bb.width, bb.lines, bb.dot)

appendCell(bb, c) == [bb EXCEPT !.lines[Len(bb.lines)] = Append(@, c),
                                !.col = @ + Of(c.text)]

Newline(bb) ==
    FoldLeft(LAMBDA b, i : appendCell(b, Cell(<<" ">>, <<>>)),
             [bb EXCEPT !.lines = Append(@, <<>>), !.col = 0],
             [i \in 1..bb.indent |-> i])

\* The control characters, shown in caret notation.
caret == ("ctrl-a" :> <<"^", "A">>)

wrapIfFull(bb) == IF bb.col = bb.width /\ bb.eagerWrap THEN Newline(bb) ELSE bb
writeCell(bb, c) ==
    IF bb.col + Of(c.text) > bb.width THEN appendCell(Newline(bb), c)
    ELSE wrapIfFull(appendCell(bb, c))

WriteRuneSGR(bb, r, style) ==
    IF r = "nl" THEN Newline(bb)
    ELSE writeCell(bb, IF r \in DOMAIN caret THEN Cell(caret[r], Append(style, 7)) ELSE Cell(<<r>>, style))

WriteStringSGR(bb, text, style) ==
    FoldLeft(LAMBDA b, r : WriteRuneSGR(b, r, style), bb, text)

WriteStyled(bb, t) == FoldLeft(LAMBDA b, seg : WriteStringSGR(b, seg.text, SGR(seg.style)), bb, t)

TrimToLines(b, low, high) ==
    LET lo == IF low < 0 THEN 0 ELSE low
        hi == IF high > Len(b.lines) THEN Len(b.lines) ELSE high
    IN  [b EXCEPT !.lines = SubSeq(@, lo + 1, hi),
                  !.dot.line = IF @ - lo < 0 THEN 0 ELSE @ - lo]

ExtendDown(b, b2, moveDot) ==
    IF b2.lines = <<>> THEN b
    ELSE Buffer(IF b.width > b2.width THEN b.width ELSE b2.width, b.lines \o b2.lines,
                IF moveDot THEN Pos(Len(b.lines) + b2.dot.line, b2.dot.col) ELSE b.dot)

----------------------------------------------------------------------------
(* The widgets of the app, one below the other (pkg/cli/app.go), and how    *)
(* they share its height: focus is the focused widget, maxHeights what each *)
(* widget would take.                                                       *)

\* Widgets by increasing maxHeights (sort.Slice promises no order of equal ones).
ranked(maxHeights) ==
    SortSeq([i \in 1..Len(maxHeights) |-> i], LAMBDA i, j : maxHeights[i] < maxHeights[j])

\* What a widget gets while left widgets share remain.
allotted_greedy(remain, maxHeight, left) == Min({remain, maxHeight})

allotted(remain, maxHeight, left) ==
    IF remain >= maxHeight * left THEN maxHeight ELSE remain \div left

distributeHeight(focus, maxHeights, height) ==
    LET n == Len(maxHeights)
        \* Too low for all: from the focused one down, then up.
        order == [k \in 1..n |-> IF k <= n - focus + 1 THEN focus + k - 1 ELSE n - k + 1]
        one == {order[k] : k \in 1..Min({height, n})}
        order2 == ranked(maxHeights)
        share(acc, rank) ==
            LET idx == order2[rank]
                left == n - rank + 1
                h == allotted(acc.remain, maxHeights[idx], left)
            IN  [heights |-> [acc.heights EXCEPT ![idx] = h], remain |-> acc.remain - h]
    IN  IF height <= n THEN [i \in 1..n |-> IF i \in one THEN 1 ELSE 0]
        ELSE FoldLeft(share, [heights |-> [i \in 1..n |-> 0], remain |-> height],
                      [r \in 1..n |-> r]).heights

----------------------------------------------------------------------------
(* The writer: the escape sequences that bring the terminal from the        *)
(* current buffer to the next one.                                          *)

\* A line that is a prefix of the old one counts as the same.
compareCells_prefixEqual(r1, r2) ==
    LET differs == {i \in 1..Len(r1) : i > Len(r2) \/ r1[i] # r2[i]}
    IN  IF differs # {} THEN [eq |-> FALSE, j |-> Min(differs) - 1]
        ELSE [eq |-> TRUE, j |-> 0]

compareCells(r1, r2) ==
    LET differs == {i \in 1..Len(r1) : i > Len(r2) \/ r1[i] # r2[i]}
    IN  IF differs # {} THEN [eq |-> FALSE, j |-> Min(differs) - 1]
        ELSE IF Len(r1) < Len(r2) THEN [eq |-> FALSE, j |-> Len(r1)]
        ELSE [eq |-> TRUE, j |-> 0]

endPos(b) == Pos(Len(b.lines) - 1, cellsWidth(Last(b.lines)))

move(n, last) == IF n > 0 THEN <<CSI(<<n>>, last)>> ELSE <<>>
CR == <<Char("cr")>>
NL == <<Char("nl")>>
hideCursor == <<CSI(<<25>>, "l")>>
showCursor == <<CSI(<<25>>, "h")>>

deltaPos(from, to) ==
    move(to.line - from.line, "B") \o move(from.line - to.line, "A") \o CR \o move(to.col, "C")

\* The output so far and the style of the last written cell.
switchStyle(o, style) ==
    IF style = o.style THEN o
    ELSE [out |-> Append(o.out, CSI(<<0>> \o (IF style = <<>> THEN <<None>> ELSE style), "m")),
          style |-> style]

emit(o, items) == [o EXCEPT !.out = @ \o items]

writeCells(o, cs) ==
    FoldLeft(LAMBDA acc, c : emit(switchStyle(acc, c.style), Chars(c.text)), o, cs)

\* What is left of the old line is erased before the new one is written ...
eraseRest_no(o, j, old) == o

eraseRest(o, j, old) ==
    IF j < Len(old) THEN emit(switchStyle(o, <<>>), <<CSI(<<None>>, "K")>>) ELSE o

\* ... from the first cell that differs on, if one does.
writeDifference(o, line, old, cmp) ==
    IF cmp.eq THEN o
    ELSE writeCells(eraseRest(emit(o, move(cellsWidth(SubSeq(line, 1, cmp.j)), "C")), cmp.j, old),
                    SubSeq(line, cmp.j + 1, Len(line)))

\* One line of the buffer.
writeLine(o, i, line, curBuf, full) ==
    IF full \/ i > Len(curBuf.lines) THEN writeCells(o, line)
    ELSE writeDifference(o, line, curBuf.lines[i], compareCells(line, curBuf.lines[i]))

writeLines(o, curBuf, buf, full) ==
    FoldLeft(LAMBDA acc, i : writeLine(IF i > 1 THEN emit(acc, NL) ELSE acc, i, buf.lines[i], curBuf, full),
             o, [i \in 1..Len(buf.lines) |-> i])

\* The lines of the old buffer below the new one.
eraseBelow(o, curBuf, buf, full) ==
    IF ~full /\ Len(curBuf.lines) > Len(buf.lines)
    THEN emit(switchStyle(o, <<>>), NL \o <<CSI(<<None>>, "J"), CSI(<<1>>, "A")>>) ELSE o

update(curBuf, msg, buf, full) ==
    LET start == hideCursor \o move(curBuf.dot.line, "A") \o CR
                 \o (IF full THEN <<Char(" "), CSI(<<None>>, "J")>> \o CR ELSE <<>>)
                 \o (IF msg # <<>> THEN <<CSI(<<7>>, "h")>> \o VTString(msg) \o NL \o <<CSI(<<7>>, "l")>>
                     ELSE <<>>)
        body == writeLines([out |-> start, style |-> <<>>], curBuf, buf, full)
    IN  emit(switchStyle(eraseBelow(body, curBuf, buf, full), <<>>),
             deltaPos(endPos(buf), buf.dot) \o showCursor).out

\* writer.UpdateBuffer: what is written to the terminal, if that does not fail.
UpdateBuffer(curBuf, msg, buf, fullRefresh) ==
    update(curBuf, msg, buf,
           fullRefresh \/ (buf.width # curBuf.width /\ curBuf.lines # <<>>) \/ msg # <<>>)

ClearScreen == <<CSI(<<None>>, "H"), CSI(<<2>>, "J")>>

\* setupVT: mark a line that was left unfinished, then turn autowrap off and
\* bracketed paste on.
lackEOL == "lackEOL"
setupVT(width) ==
    <<CSI(<<7>>, "h"), CSI(<<7>>, "m"), Char(lackEOL), CSI(<<None>>, "m")>>
    \o [k \in 1..width - OfRune(lackEOL) |-> Char(" ")] \o CR \o <<Char(" ")>> \o CR
    \o <<CSI(<<7>>, "l"), CSI(<<2004>>, "h")>>

restoreVT == <<CSI(<<7>>, "h"), CSI(<<2004>>, "l")>> \o CR

----------------------------------------------------------------------------
(* The terminal.  rows holds all rows ever, the last ScreenHeight of them   *)
(* on the screen; the cursor is at row r (1-based) and column c (0-based);  *)
(* pending is the state after a character in the last column, from which    *)
(* the next one wraps if autowrap is on.  modes holds autowrap (7), the     *)
(* visible cursor (25) and bracketed paste (2004) if they are on.           *)

Blank(style) == [ch |-> " ", style |-> style]
blankRow == [c \in 0..ScreenWidth - 1 |-> Blank(<<>>)]
newScreen == [rows |-> [k \in 1..ScreenHeight |-> blankRow], r |-> 1, c |-> 0,
              pending |-> FALSE, modes |-> {7, 25}, style |-> <<>>]

top(s) == Len(s.rows) - ScreenHeight + 1

lineFeed(s) ==
    [s EXCEPT !.rows = IF s.r = Len(s.rows) THEN Append(@, blankRow) ELSE @,
              !.r = @ + 1, !.c = 0, !.pending = FALSE]

\* Overwriting one half of a wide character blanks the other.
put(row, c, cell) ==
    LET w == OfRune(cell.ch)
        clear == [k \in DOMAIN row |->
                    IF \/ row[k].ch = "W2" /\ k = c + w
                       \/ row[k].ch = "W" /\ k = c - 1 /\ row[c].ch = "W2"
                    THEN Blank(row[k].style) ELSE row[k]]
    IN  [k \in DOMAIN row |-> CASE k = c -> cell
                                [] k = c + 1 /\ w = 2 -> [cell EXCEPT !.ch = "W2"]
                                [] OTHER -> clear[k]]

writeAt(s, c, w, ch) ==
    [s EXCEPT !.rows[s.r] = put(@, c, [ch |-> ch, style |-> s.style]),
              !.c = IF c + w >= ScreenWidth THEN ScreenWidth - 1 ELSE c + w,
              !.pending = c + w >= ScreenWidth]
writeHere(s, w, ch) == writeAt(s, IF s.c + w > ScreenWidth THEN ScreenWidth - w ELSE s.c, w, ch)
write(s, ch) ==
    writeHere(IF 7 \in s.modes /\ (s.pending \/ s.c + OfRune(ch) > ScreenWidth) THEN lineFeed(s) ELSE s,
              OfRune(ch), ch)

eraseFrom(row, c, style) ==
    [k \in DOMAIN row |-> IF k >= c \/ (k = c - 1 /\ row[c].ch = "W2") THEN Blank(style) ELSE row[k]]

\* The SGR codes in force: those since the last reset, which comes first.
sgrState(style, nums) ==
    SelectSeq(IF nums[1] \in {0, None} THEN Tail(nums) ELSE style \o nums,
              LAMBDA n : n # None)

escape(s, x) ==
    LET n == IF x.nums[1] = None THEN 1 ELSE x.nums[1]
    IN  CASE x.last = "A" -> [s EXCEPT !.r = IF @ - n < top(s) THEN top(s) ELSE @ - n, !.pending = FALSE]
          [] x.last = "B" -> [s EXCEPT !.r = IF @ + n > Len(s.rows) THEN Len(s.rows) ELSE @ + n,
                                       !.pending = FALSE]
          [] x.last = "C" -> [s EXCEPT !.c = IF @ + n > ScreenWidth - 1 THEN ScreenWidth - 1 ELSE @ + n,
                                       !.pending = FALSE]
          [] x.last = "H" -> [s EXCEPT !.r = top(s), !.c = 0, !.pending = FALSE]
          [] x.last = "K" -> [s EXCEPT !.rows[s.r] = eraseFrom(@, s.c, s.style)]
          [] x.last = "J" ->
               [s EXCEPT !.rows = [k \in DOMAIN s.rows |->
                    CASE x.nums[1] = 2 /\ k >= top(s) -> [c \in DOMAIN blankRow |-> Blank(s.style)]
                      [] x.nums[1] = None /\ k > s.r  -> [c \in DOMAIN blankRow |-> Blank(s.style)]
                      [] x.nums[1] = None /\ k = s.r  -> eraseFrom(s.rows[k], s.c, s.style)
                      [] OTHER -> s.rows[k]]]
          [] x.last = "m" -> [s EXCEPT !.style = sgrState(@, x.nums)]
          [] x.last = "h" -> [s EXCEPT !.modes = @ \union {x.nums[1]}]
          [] x.last = "l" -> [s EXCEPT !.modes = @ \ {x.nums[1]}]

\* The terminal driver turns a line feed into a carriage return and line feed.
interpret(s, x) ==
    CASE x.csi -> escape(s, x)
      [] ~x.csi /\ x.last = "cr" -> [s EXCEPT !.c = 0, !.pending = FALSE]
      [] ~x.csi /\ x.last = "nl" -> lineFeed(s)
      [] OTHER -> write(s, x.last)

send(s, items) == FoldLeft(interpret, s, items)

----------------------------------------------------------------------------
(* The editing session: the editor redraws while it reads a line of code,   *)
(* leaves the line on the screen, and the code writes its output.           *)

CONSTANTS Views,        \* what the editor shows: prompts (and RPromptPersistent),
                        \* code, dot, tips and addons
          Notes,        \* the notes to print above it
          OutputRunes,  \* what commands write
          MaxRows       \* bound on the rows ever used

VARIABLES phase,        \* "running", "editing", or "cleared" until a redraw
          screen,       \* the terminal
          curBuf,       \* writer.curBuf
          shown,        \* the buffer that the editor last asked to show
          log           \* the rows that are to stay above it


\* renderView: prompt, code with the dot, right prompt if it fits, tips.
indented(bb) == [bb EXCEPT !.indent = IF Len(bb.lines) = 1 /\ bb.col * 2 < bb.width THEN bb.col ELSE 0]
writeCode(bb, parts) == WriteStyled(SetDotHere(WriteStyled(bb, parts[1])), parts[2])
writeRPrompt(bb, t, w) ==
    IF w > 0 /\ bb.width - bb.col - w >= 1
    THEN WriteStyled(bb, T([k \in 1..bb.width - bb.col - w |-> " "], <<>>) \o t) ELSE bb
renderView(v) ==
    LET prompt == WriteStyled([NewBufferBuilder(ScreenWidth) EXCEPT !.eagerWrap = TRUE], v.prompt)
        code == [writeCode(indented(prompt), Partition(v.code, <<v.dot>>)) EXCEPT !.eagerWrap = FALSE, !.indent = 0]
        line == writeRPrompt(code, v.rprompt, FoldLeft(LAMBDA w, seg : w + Of(seg.text), 0, v.rprompt))
    IN  built(FoldLeft(LAMBDA bb, tip : WriteStyled(Newline(bb), tip), line, v.tips))

truncateToHeight(b, maxHeight) ==
    CASE Len(b.lines) <= maxHeight -> b
      [] Len(b.lines) > maxHeight /\ b.dot.line < maxHeight -> TrimToLines(b, 0, maxHeight)
      [] OTHER -> TrimToLines(b, b.dot.line - maxHeight + 1, b.dot.line + 1)

\* Label.Render: the addons are labels, with and without the focus.
labelBuffer(content) == built(WriteStyled(NewBufferBuilder(ScreenWidth), content))

\* Render, of codeArea and of Label, in the height that the widget is given.
clipped(whole, heights, i) ==
    IF i = 1 THEN truncateToHeight(whole[1], heights[1]) ELSE TrimToLines(whole[i], 0, heights[i])

stacked(whole, heights, focus) ==
    LET drawn == SelectSeq([i \in 1..Len(whole) |-> i], LAMBDA i : heights[i] > 0)
    IN  FoldLeft(LAMBDA buf, i : ExtendDown(buf, clipped(whole, heights, i), i = focus),
                 clipped(whole, heights, Head(drawn)), Tail(drawn))

\* renderApp: what each widget would show, in the height it is given (MaxHeight is not set).
renderWidgets(whole, focus) ==
    stacked(whole, distributeHeight(focus, [i \in 1..Len(whole) |-> Len(whole[i].lines)], ScreenHeight), focus)
renderApp(v) ==
    renderWidgets(<<renderView(v)>> \o [i \in 1..Len(v.addons) |-> labelBuffer(v.addons[i].content)],
                  Max({1} \union {i + 1 : i \in {k \in DOMAIN v.addons : v.addons[k].focus}}))

mergeNotes(notes) == Join(notes)

\* The row of the screen that shows a line of cells.
rowOf(line) ==
    LET cols == FoldLeft(LAMBDA acc, c :
                           acc \o [k \in 1..Len(c.text) |-> [ch |-> c.text[k], style |-> c.style]]
                               \o (IF c.text = <<"W">> THEN <<[ch |-> "W2", style |-> c.style]>> ELSE <<>>),
                         <<>>, line)
    IN  [k \in 0..ScreenWidth - 1 |-> IF k < Len(cols) THEN cols[k + 1] ELSE Blank(<<>>)]

rowsOf(lines) == [k \in 1..Len(lines) |-> rowOf(lines[k])]
wrapped(t) == rowsOf(built(WriteStyled(NewBufferBuilder(ScreenWidth), t)).lines)

WriterInit ==
    /\ phase = "running" /\ screen = newScreen
    /\ curBuf = emptyBuffer /\ shown = emptyBuffer /\ log = <<>>

\* The code that runs writes a character or ends a line.
Output ==
    /\ phase = "running" /\ Len(screen.rows) < MaxRows
    /\ \E ch \in OutputRunes : screen' = send(screen, <<Char(ch)>>)
    /\ UNCHANGED <<phase, curBuf, shown, log>>

\* TTY.Setup at the start of ReadCode, and the first redraw.
StartEditing ==
    /\ phase = "running" /\ phase' = "editing"
    /\ screen' = send(screen, setupVT(ScreenWidth))
    /\ log' = SubSeq(screen.rows, 1, screen.r - 1)
              \o (IF screen.c = 0 THEN <<>>
                  ELSE <<IF screen.pending THEN screen.rows[screen.r]
                         ELSE put(screen.rows[screen.r], screen.c, [ch |-> lackEOL, style |-> <<7>>])>>)
    /\ shown' = emptyBuffer
    /\ UNCHANGED curBuf

logNotes(msg) == IF msg = <<>> THEN log ELSE log \o wrapped(msg)

\* app.redraw, not final: full if that was asked for, as edit:clear does.
Redraw ==
    /\ phase # "running" /\ Len(screen.rows) < MaxRows
    /\ \E v \in Views :
         /\ curBuf' = renderApp(v) /\ shown' = curBuf'
         /\ \E notes \in Notes, full \in BOOLEAN :
              /\ phase = "cleared" => full
              /\ screen' = send(screen, UpdateBuffer(curBuf, mergeNotes(notes), curBuf', full))
              /\ log' = logNotes(mergeNotes(notes))
    /\ phase' = "editing"

\* edit:clear: the screen is cleared at once, and a full redraw asked for.
Clear ==
    /\ phase = "editing" /\ shown # emptyBuffer
    /\ screen' = send(screen, hideCursor \o ClearScreen \o showCursor)
    /\ log' = SubSeq(log, 1, top(screen) - 1)
    /\ phase' = "cleared"
    /\ UNCHANGED <<curBuf, shown>>

\* app.redraw, final: the notes, the code without addons, tips and (unless it
\* is persistent) right prompt, a line for the cursor; ResetBuffer, and the
\* terminal restored.  The loop never asks for a full redraw here: right after
\* edit:clear, the differences from what is no longer there are written.
finalView(v) == [v EXCEPT !.tips = <<>>, !.addons = <<>>, !.rprompt = IF v.persistent THEN @ ELSE <<>>]
writeFinal(msg, buf) ==
    /\ screen' = send(screen, UpdateBuffer(curBuf, msg, buf, FALSE) \o restoreVT)
    /\ log' = IF phase = "cleared" /\ msg = <<>> THEN SubSeq(screen'.rows, 1, screen'.r - 1)
              ELSE logNotes(msg) \o rowsOf(Front(buf.lines))
FinalRedraw ==
    /\ phase # "running" /\ shown # emptyBuffer
    /\ \E v \in Views, notes \in Notes :
         writeFinal(mergeNotes(notes), ExtendDown(renderApp(finalView(v)), Buffer(0, <<<<>>>>, Pos(0, 0)), TRUE))
    /\ phase' = "running" /\ curBuf' = emptyBuffer /\ shown' = emptyBuffer

WriterNext == Output \/ StartEditing \/ Redraw \/ Clear \/ FinalRedraw

\* While the editor reads, the screen is what the program believes: above, all
\* that commands and notes have written, untouched by any redraw; then the
\* current buffer, cell for cell with its styles, though only differences were
\* sent; nothing below; the cursor visible and on the dot; and autowrap off and
\* bracketed paste on.  When code runs, its first output comes below everything
\* before, on a terminal that is as it was.
ScreenShowsBuffer ==
    LET n == Len(log)
        want == log \o rowsOf(shown.lines)
        dot == shown.dot
    IN  /\ SubSeq(screen.rows, 1, n) = log
        /\ screen.modes = IF phase = "running" THEN {7, 25} ELSE {25, 2004}
        /\ phase = "editing" =>
             /\ SubSeq(screen.rows, 1, Len(want)) = want
             /\ \A k \in Len(want) + 1 .. Len(screen.rows) : screen.rows[k] = blankRow
             /\ screen.r = n + 1 + dot.line
             /\ screen.c = IF dot.col < ScreenWidth THEN dot.col ELSE ScreenWidth - 1
             /\ screen.style = <<>>

\* Heights are shared fairly (the goals that distributeHeight's comment sets
\* itself): all of the height is used up to what the widgets want, a widget
\* that wants more gets no less, none gets more than it wants, and one goes
\* short only if no other gets two rows more than it.
HeightsAreFair(focus, maxHeights, height) ==
    LET h == distributeHeight(focus, maxHeights, height)
        n == Len(maxHeights)
        total(f) == FoldLeft(LAMBDA acc, x : acc + x, 0, f)
    IN  /\ total(h) <= height
        /\ height > 0 => h[focus] > 0 \/ (height > n /\ maxHeights[focus] = 0)
        /\ height > n =>
             /\ total(h) = Min({height, total(maxHeights)})
             /\ \A u, v \in 1..n : maxHeights[u] > maxHeights[v] => h[u] >= h[v]
             /\ \A u \in 1..n : h[u] <= maxHeights[u]
             /\ \A u, v \in 1..n : h[u] < maxHeights[u] => h[v] <= h[u] + 1

============================================================================
