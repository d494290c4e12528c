------------------------------ MODULE Widgets -------------------------------
(* The list box (pkg/cli/tk/listbox*.go), the widget behind completion, the *)
(* history listing, the directory listing and navigation: its selection,    *)
(* the window that rendering keeps around it, and the scroll bars.          *)
(*                                                                          *)
(* An item is its number of lines and its width; a rendered line is the     *)
(* number of the item and of its line.  Items and lines are counted from 0. *)
EXTENDS Integers, Sequences, SequencesExt, FiniteSetsExt

CONSTANTS ItemLists,         \* the lists of items a caller may set
          Widths, Heights,   \* the regions that may be rendered onto
          Padding,           \* ListBoxSpec.Padding
          respectDistance    \* rows kept around the selection

VARIABLES horizontal,        \* ListBoxSpec.Horizontal
          box,               \* ListBoxState
          told,              \* the last call of OnSelect or OnAccept
          region,            \* what the last Render was given
          view               \* what it returned

listBoxColGap == 2
larger(a, b) == IF a > b THEN a ELSE b
smaller(a, b) == IF a < b THEN a ELSE b

Lines(items, i) == items[i + 1].lines
sumLines(items, from, to) ==        \* the lines of the items from..to-1
    FoldLeft(LAMBDA acc, k : acc + Lines(items, from + k - 1), 0,
             [k \in 1..larger(to - from, 0) |-> k])

----------------------------------------------------------------------------
(* The window of a vertical list box.                                       *)

fixIndex(i, n) == IF i < 0 THEN 0 ELSE IF i >= n THEN n - 1 ELSE i

\* The window may start at an item with useUp rows down to the selection:
\* near where it started before, far enough up, and with nothing left empty.
mayStop_tooClose(i, lastFirst, useUp, useDown, budget) ==
    i <= lastFirst /\ useUp + useDown >= budget

mayStop(i, lastFirst, useUp, useDown, budget) ==
    i <= lastFirst /\ useUp >= respectDistance /\ useUp + useDown >= budget

\* The first item to show and how many of its lines to crop.
getVerticalWindow(s, height) ==
    LET n == Len(s.items)
        selected == fixIndex(s.selected, n)
        budget == height - Lines(s.items, selected)
        below == sumLines(s.items, selected + 1, n)
        want == IF budget >= 2 * respectDistance THEN respectDistance ELSE budget \div 2
        \* useDown stops counting at the item that reaches the budget.
        enough == {i \in selected + 1 .. n - 1 : sumLines(s.items, selected + 1, i + 1) >= budget}
        useDown == IF enough = {} THEN below ELSE sumLines(s.items, selected + 1, Min(enough) + 1)
        budgetUp == budget - smaller(want, useDown)
        up(i) == sumLines(s.items, i, selected)
        stops == {i \in 0..selected - 1 :
                    up(i) >= budgetUp \/ mayStop(i, s.first, up(i), useDown, budget)}
        i == Max(stops)
    IN  IF budget <= 0 THEN [first |-> selected, crop |-> 0]
        ELSE IF stops = {} THEN [first |-> 0, crop |-> 0]
        ELSE [first |-> i, crop |-> IF up(i) >= budgetUp THEN up(i) - budgetUp ELSE 0]

\* The lines that renderVertical collects.  An item that does not fit keeps
\* as many lines as it is over the height, not as many as there is room for.
cropLast(lines, n, height) == SubSeq(lines, 1, n + Len(lines) - height)

collectLines(items, first, crop, height) ==
    FoldLeft(LAMBDA acc, i :
               IF Len(acc.lines) >= height THEN acc
               ELSE LET all == [k \in 1..Lines(items, i) |-> <<i, k - 1>>]
                        own == IF i = first THEN SubSeq(all, crop + 1, Len(all)) ELSE all
                        over == Len(acc.lines) + Len(own) > height
                        fit == IF over THEN cropLast(own, Len(acc.lines), height) ELSE own
                    IN  [lines |-> acc.lines \o fit, next |-> i + 1, cropped |-> acc.cropped \/ over],
             [lines |-> <<>>, next |-> first, cropped |-> crop > 0], [k \in 1..(Len(items) - first) |-> first + k - 1])

----------------------------------------------------------------------------
(* The window of a horizontal list box: columns of equal height.            *)

maxWidth(items, low, high) ==
    Max({0} \union {items[i + 1].width : i \in {j \in 0..Len(items) - 1 : low <= j /\ j < high}})
    + 2 * Padding

getHorizontalWindow(s, width, height) ==
    LET n == Len(s.items)
        perRow == larger(1, (width + listBoxColGap) \div (maxWidth(s.items, 0, n) + listBoxColGap))
        h == IF height > 1 THEN height - 1 ELSE height
        start == (s.selected \div h) * h
        used(first) ==      \* the width of the columns from first to the selection's
            FoldLeft(LAMBDA acc, k : acc + maxWidth(s.items, first + k * h, first + (k + 1) * h) + listBoxColGap,
                     maxWidth(s.items, start, start + h),
                     [k \in 1..((start - first) \div h) |-> k - 1])
        \* Move left while the next column fits and lastFirst is not reached.
        fits(first) == \A f \in {start - k * h : k \in 0..(start \div h)} :
                          (f >= first /\ f < start) => f + h > s.first /\ used(f) <= width
        reach == {f \in {start - k * h : k \in 0..(start \div h)} : fits(f)}
    IN  IF height * perRow >= n
        THEN [first |-> 0, height |-> (n + perRow - 1) \div perRow, scrollbar |-> FALSE]
        ELSE [first |-> Min(reach), height |-> h, scrollbar |-> height > 1]

\* The columns that renderHorizontal draws: their first items and widths.
drawColumns(items, first, h, width) ==
    FoldLeft(LAMBDA acc, i :
               IF acc.done THEN acc
               ELSE LET w == maxWidth(items, i, i + h)
                        cw == smaller(w, acc.left)
                    IN  [cols |-> Append(acc.cols, [from |-> i, width |-> cw]),
                         cropped |-> acc.cropped \/ w > acc.left,
                         done |-> acc.left - cw <= listBoxColGap,
                         left |-> acc.left - cw - listBoxColGap],
             [cols |-> <<>>, cropped |-> FALSE, done |-> FALSE, left |-> width],
             [k \in 1..((Len(items) - first + h - 1) \div h) |-> first + (k - 1) * h])

\* The height that a list box asks for.
MaxHeight(width, height) ==
    IF box.items = <<>> THEN 0
    ELSE IF horizontal
    THEN LET win == getHorizontalWindow(box, width, height)
         IN  win.height + (IF win.scrollbar THEN 1 ELSE 0)
    ELSE smaller(sumLines(box.items, 0, Len(box.items)), height)

----------------------------------------------------------------------------
(* Scroll bars.                                                             *)

\* findScrollInterval rounds to the nearest, halves up (in floating point).
findScrollInterval(n, low, high, height) ==
    LET f(i) == (2 * i * height + n) \div (2 * n)
        lo == f(low)
        hi == lo + f(high - low)
    IN  IF lo # hi THEN <<lo, hi>>
        ELSE IF hi = height THEN <<lo - 1, hi>> ELSE <<lo, hi + 1>>

----------------------------------------------------------------------------
(* The list box as a state machine.                                         *)

Moves == {"Prev", "Next", "PrevPage", "NextPage", "PrevWrap", "NextWrap", "Left", "Right"}

\* horizontal: move by a column if there is an item there.
sideways(selected, n, d) ==
    LET s == fixIndex(selected, n) IN IF s + d < 0 \/ s + d >= n THEN s ELSE s + d

moved(m, s) ==
    LET n == Len(s.items)
        i == s.selected
    IN  CASE m = "Prev"     -> fixIndex(i - 1, n)
          [] m = "Next"     -> fixIndex(i + 1, n)
          [] m = "PrevPage" -> fixIndex(i - s.contentHeight, n)
          [] m = "NextPage" -> fixIndex(i + s.contentHeight, n)
          [] m = "PrevWrap" -> IF i >= n \/ i <= 0 THEN n - 1 ELSE i - 1
          [] m = "NextWrap" -> IF i >= n - 1 \/ i < 0 THEN 0 ELSE i + 1
          [] m = "Left"     -> sideways(i, n, -s.contentHeight)
          [] m = "Right"    -> sideways(i, n, s.contentHeight)

newState(items, selected) ==
    [items |-> items, selected |-> selected, first |-> 0, contentHeight |-> 0]

\* The thumb of the scroll bar, if there is one.
bar(shown, n, low, high, length) == IF shown THEN findScrollInterval(n, low, high, length) ELSE <<>>
noView == [lines |-> <<>>, cols |-> <<>>, bar |-> <<>>]

\* A callback is told of the selection if it is one of the items.
hasSelection(s) == 0 <= s.selected /\ s.selected < Len(s.items)
noCall == [callback |-> "none", items |-> <<>>, selected |-> 0]
tell(callback, s, otherwise) ==
    IF hasSelection(s) THEN [callback |-> callback, items |-> s.items, selected |-> s.selected]
    ELSE otherwise

\* Callers select the first item, or the last one (of the command history).
WidgetsInit ==
    /\ horizontal \in BOOLEAN
    /\ \E items \in ItemLists : \E sel \in {0, Len(items) - 1} : box = newState(items, sel)
    /\ told = tell("OnSelect", box, noCall)
    /\ region = [width |-> 0, height |-> 0] /\ view = noView

\* Reset, as when the filter changes.
Reset ==
    /\ \E items \in ItemLists : \E sel \in {0, Len(items) - 1} : box' = newState(items, sel)
    /\ told' = tell("OnSelect", box', told)
    /\ view' = noView
    /\ UNCHANGED <<horizontal, region>>

Select(m) ==
    /\ box' = [box EXCEPT !.selected = moved(m, box)]
    /\ told' = IF box'.selected # box.selected THEN tell("OnSelect", box', told) ELSE told
    /\ view' = noView
    /\ UNCHANGED <<horizontal, region>>

Accept ==
    /\ told' = tell("OnAccept", box, told)
    /\ UNCHANGED <<horizontal, box, region, view>>

renderVertical(width, height) ==
    LET win == getVerticalWindow(box, height)
        got == collectLines(box.items, win.first, win.crop, height)
    IN  /\ box' = [box EXCEPT !.first = win.first, !.contentHeight = height]
        /\ view' = [lines |-> got.lines, cols |-> <<>>,
                    bar |-> bar(win.first > 0 \/ got.next < Len(box.items) \/ got.cropped,
                                Len(box.items), win.first, got.next, height)]

renderHorizontal(width, height) ==
    LET win == getHorizontalWindow(box, width, height)
        got == drawColumns(box.items, win.first, win.height, width)
        last == smaller(Last(got.cols).from + win.height, Len(box.items)) - 1
        scrollbar == /\ win.height < height
                     /\ win.first # 0 \/ last # Len(box.items) - 1 \/ got.cropped
    IN  /\ box' = [box EXCEPT !.first = win.first, !.contentHeight = win.height]
        /\ view' = [lines |-> <<>>, cols |-> got.cols,
                    bar |-> bar(scrollbar, Len(box.items), win.first, last + 1, width)]

\* Without items the placeholder is shown.
Render ==
    \E w \in Widths, h \in Heights :
        /\ region' = [width |-> w, height |-> h]
        /\ \/ box.items = <<>>
              /\ box' = [box EXCEPT !.first = 0, !.contentHeight = IF horizontal THEN @ ELSE h]
              /\ view' = noView
           \/ box.items # <<>> /\ horizontal /\ renderHorizontal(w, h)
           \/ box.items # <<>> /\ ~horizontal /\ renderVertical(w, h)
        /\ UNCHANGED <<horizontal, told>>

WidgetsNext == Reset \/ (\E m \in Moves : Select(m)) \/ Accept \/ Render

----------------------------------------------------------------------------
(* Properties.                                                              *)

rendered == view # noView

\* What is drawn.
shownItems ==
    IF horizontal
    THEN UNION {{i \in 0..Len(box.items) - 1 : view.cols[k].from <= i /\ i < view.cols[k].from + box.contentHeight}
                : k \in DOMAIN view.cols}
    ELSE {view.lines[k][1] : k \in DOMAIN view.lines}

\* The lines of the list, one item after the other.
allLines == FoldLeft(LAMBDA acc, i : acc \o [k \in 1..Lines(box.items, i) |-> <<i, k - 1>>], <<>>,
                     [k \in 1..Len(box.items) |-> k - 1])

\* However the list was scrolled, filtered and resized before, a render shows the selected
\* item from its first line on.  A vertical list box starts at a line that leaves enough of
\* them to fill the region; every line of an item that ends above the lower edge is drawn in
\* its row, the selected item being one of them unless it is higher than the region; and if
\* no item crosses the edge the rows are all filled, or the whole list is shown.  (Of an item
\* that crosses the edge cropLast keeps as many lines as do not fit, so of it and of the rows
\* below nothing is said, though getVerticalWindow wants it to be shown as far as it fits.)
\* respectDistance rows are left above and below the selection, or all that the list has,
\* when there is room for both.  The columns of a horizontal list box stay within the width.
SelectionIsShown ==
    rendered =>
      /\ box.selected \in shownItems
      /\ ~horizontal =>
           LET all == allLines
               own == Lines(box.items, box.selected)
               total == Len(all)
               index(l) == CHOOSE k \in 1..total : all[k] = l
               start == index(view.lines[1])
               rows == smaller(region.height, total)
               edge == start + region.height
               fits(k) == index(<<all[k][1], Lines(box.items, all[k][1]) - 1>>) < edge
               at == index(<<box.selected, 0>>)
               above == at - start                    \* rows above the selection
               below == edge - (at + own)             \* and below it
           IN  /\ start + rows - 1 <= total
               /\ \A k \in start .. start + rows - 1 :
                    fits(k) => k - start + 1 \in DOMAIN view.lines /\ view.lines[k - start + 1] = all[k]
               /\ (\A k \in start .. start + rows - 1 : fits(k)) => Len(view.lines) = rows
               /\ start <= at /\ (IF own > region.height THEN start = at ELSE fits(at))
               /\ region.height >= own + 2 * respectDistance =>
                    /\ above >= smaller(respectDistance, at - 1)
                    /\ below >= smaller(respectDistance, total - at - own + 1)
      /\ horizontal =>
           FoldLeft(LAMBDA acc, c : acc + c.width, 0, view.cols)
             + listBoxColGap * (Len(view.cols) - 1) <= region.width

\* The callbacks (the preview of navigation, the code that completion shows)
\* know the item that is selected, after any moves and new lists.
SelectionIsTold ==
    hasSelection(box) => told.items = box.items /\ told.selected = box.selected

\* Rendering at the height that MaxHeight asks for, if there is room for it, shows every item,
\* in either direction: the vertical list box all lines of each, the horizontal one all
\* columns, none of them narrower than its items unless an item is wider than the region.
MaxHeightSuffices ==
    \A w \in Widths, h \in Heights :
        LET m == MaxHeight(w, h)
            n == Len(box.items)
            down == getVerticalWindow(box, m)
            across == getHorizontalWindow(box, w, m)
            got == drawColumns(box.items, across.first, across.height, w)
        IN  0 < m /\ m < h =>
              IF horizontal
              THEN /\ across.first = 0 /\ Last(got.cols).from + across.height >= n /\ across.height <= m
                   /\ got.cropped => maxWidth(box.items, 0, n) > w
              ELSE Len(collectLines(box.items, down.first, down.crop, m).lines) = sumLines(box.items, 0, n)

============================================================================
