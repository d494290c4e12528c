------------------------------ MODULE CodeArea ------------------------------
(* The code area (pkg/cli/tk/codearea.go): the buffer with its dot, typed   *)
(* keys and the three kinds of abbreviations, bracketed pastes, pending     *)
(* code; the editing commands (pkg/edit/buffer_builtins.go, state_api.go);  *)
(* and completion mode, which replaces a part of the buffer                 *)
(* (pkg/edit/completion.go, pkg/cli/modes/completion.go).                   *)
(*                                                                          *)
(* A rune is one character here, and the dot counts runes, not bytes.  No   *)
(* command puts the dot inside a rune; setting $edit:-dot may, and that is  *)
(* left out.  "W" is a wide letter, "zw" a combining mark and "nl" the      *)
(* newline.                                                                 *)
EXTENDS Integers, Sequences, SequencesExt, FiniteSetsExt, FiniteSets

CONSTANTS Runes,                    \* the keys that may be typed or pasted
          Abbreviations,            \* $edit:abbr
          CommandAbbreviations,     \* $edit:command-abbr
          SmallWordAbbreviations,   \* $edit:small-word-abbr
          QuotePaste,               \* $edit:insert:quote-paste
          Quote(_),                 \* parse.Quote
          Completions,              \* the candidates that completers return, in the order of their stems
          MaxLen                    \* bound: longest buffer that is added to, and paste (before it is quoted)

VARIABLES buf,        \* State.Buffer: content and dot
          pending,    \* State.Pending: from, to and content
          inserts,    \* consecutively inserted text
          lastBuf,    \* lastCodeBuffer
          paste,      \* pasting and pasteBuffer
          completion, \* completion mode: the range to replace and its candidates
          typed       \* history: the keys typed with nothing else in between, since the
                      \* last expansion or within a paste

Wc == INSTANCE StyledText WITH NoColor <- FALSE

CodeBuffer(content, dot) == [content |-> content, dot |-> dot]
PendingCode(from, to, content) == [from |-> from, to |-> to, content |-> content]
noPending == PendingCode(0, 0, <<>>)
noCompletion == [on |-> FALSE, from |-> 0, to |-> 0, items |-> <<>>]

larger(a, b) == IF a > b THEN a ELSE b
smaller(a, b) == IF a < b THEN a ELSE b
before(s, i) == SubSeq(s, 1, i)
after(s, i) == SubSeq(s, i + 1, Len(s))

InsertAtDot(b, text) ==
    CodeBuffer(before(b.content, b.dot) \o text \o after(b.content, b.dot), b.dot + Len(text))

patchPending(c, p) ==
    IF p.from > p.to \/ p.from < 0 \/ p.to > Len(c.content) \/ (p.from = p.to /\ p.content = <<>>)
    THEN c
    ELSE CodeBuffer(before(c.content, p.from) \o p.content \o after(c.content, p.to),
                    CASE c.dot < p.from -> c.dot
                      [] c.dot >= p.from /\ c.dot < p.to -> p.from + Len(p.content)
                      [] OTHER -> c.dot - (p.to - p.from) + Len(p.content))

----------------------------------------------------------------------------
(* Categories of runes.  0 is whitespace.                                   *)

IsSpace(r) == r \in {" ", "nl"}
IsAlnum(r) == r \in {"a", "b", "c", "W"}
CategorizeSmallWord(r) == IF IsSpace(r) THEN 0 ELSE IF IsAlnum(r) THEN 1 ELSE 2
categorizeWord(r) == IF IsSpace(r) THEN 0 ELSE 1
categorizeAlnum(r) == IF IsAlnum(r) THEN 1 ELSE 0

----------------------------------------------------------------------------
(* Abbreviations.  They are tried in the order command, simple, small word, *)
(* and an expansion resets the inserts, which keeps the later ones quiet.   *)

\* What an abbreviation leaves: the buffer, and whether it expanded.
unexpanded(b) == [buf |-> b, done |-> FALSE]
expanded(b) == [buf |-> b, done |-> TRUE]

longest(set) == CHOOSE a \in set : \A o \in set : Len(o) <= Len(a)

\* The text of ins that is replaced is the text before the dot.
expandSimpleAbbr(b, ins) ==
    LET matches == {a \in DOMAIN Abbreviations : a # <<>> /\ IsSuffix(a, ins)}
        abbr == longest(matches)
        full == Abbreviations[abbr]
    IN  IF matches = {} THEN unexpanded(b)
        ELSE expanded(CodeBuffer(before(b.content, b.dot - Len(abbr)) \o full \o after(b.content, b.dot),
                                 b.dot - Len(abbr) + Len(full)))

\* commandRegex: a run of these, then a whitespace, at the end; before the run,
\* past whitespace, the start of the code or of a command.
commandRune(r) == ~IsSpace(r) /\ r \notin {"|", ";", "(", "{", "^"}
commandMayStart(s) ==
    \E k \in 0..Len(s) :
        /\ \A i \in k + 1 .. Len(s) : IsSpace(s[i])
        /\ \/ k = 0
           \/ s[k] \in {"|", ";", "("}
           \/ k >= 2 /\ s[k] = "nl" /\ s[k - 1] # "^"
           \/ k >= 2 /\ IsSpace(s[k]) /\ s[k - 1] = "{"

expandCommandAbbr(b) ==
    LET n == Len(b.content)
        starts == {k \in 0..n - 2 : \A i \in k + 1 .. n - 1 : commandRune(b.content[i])}
        k == Min(starts)
        command == SubSeq(b.content, k + 1, n - 1)
        new == before(b.content, k) \o CommandAbbreviations[command] \o <<b.content[n]>>
    IN  IF \/ b.dot < n \/ ~IsSpace(b.content[n]) \/ starts = {}
           \/ ~commandMayStart(before(b.content, k))
           \/ command \notin DOMAIN CommandAbbreviations \/ CommandAbbreviations[command] = <<>>
        THEN unexpanded(b)
        ELSE expanded(CodeBuffer(new, Len(new)))

expandSmallWordAbbr(b, ins, trigger) ==
    LET older == Front(ins)
        cat(r) == CategorizeSmallWord(r)
        start(a) == Len(b.content) - Len(a) - 1
        matches == {a \in DOMAIN SmallWordAbbreviations :
                      /\ a # <<>> /\ IsSuffix(a, older)
                      /\ cat(trigger) # cat(Last(a))
                      /\ start(a) > 0 => cat(b.content[start(a)]) # cat(a[1])}
        abbr == longest(matches)
        full == SmallWordAbbreviations[abbr]
    IN  IF b.dot < Len(b.content) \/ Len(ins) <= 1 \/ matches = {} THEN unexpanded(b)
        ELSE expanded(CodeBuffer(before(b.content, b.dot - Len(abbr) - 1) \o full \o <<trigger>>,
                                 b.dot - Len(abbr) + Len(full)))

----------------------------------------------------------------------------
(* Movers: from the content and the dot to the new dot.                     *)

moveDotLeft(s, dot) == IF dot > 0 THEN dot - 1 ELSE dot
moveDotRight(s, dot) == IF dot < Len(s) THEN dot + 1 ELSE dot

\* FindLastSOL and FindFirstEOL, seen from a position.
moveDotSOL(s, dot) == Max({0} \union {i \in 1..dot : s[i] = "nl"})
moveDotEOL(s, dot) == Min({Len(s)} \union {i \in dot..Len(s) - 1 : s[i + 1] = "nl"})

moveDotUp(s, dot) ==
    LET sol == moveDotSOL(s, dot)
        prevSOL == moveDotSOL(s, sol - 1)
        width == Wc!Of(SubSeq(s, sol + 1, dot))
    IN  IF sol = 0 THEN dot
        ELSE prevSOL + Len(Wc!Trim(SubSeq(s, prevSOL + 1, sol - 1), width))

\* The width is measured from the start of the line, not from the one above.
moveDotDown_fromTop(s, dot) ==
    LET eol == moveDotEOL(s, dot)
        nextEOL == moveDotEOL(s, eol + 1)
        width == Wc!Of(SubSeq(s, 1, dot))
    IN  IF eol = Len(s) THEN dot
        ELSE eol + 1 + Len(Wc!Trim(SubSeq(s, eol + 2, nextEOL), width))

moveDotDown(s, dot) ==
    LET eol == moveDotEOL(s, dot)
        nextEOL == moveDotEOL(s, eol + 1)
        width == Wc!Of(SubSeq(s, moveDotSOL(s, dot) + 1, dot))
    IN  IF eol = Len(s) THEN dot
        ELSE eol + 1 + Len(Wc!Trim(SubSeq(s, eol + 2, nextEOL), width))

skipCatLeft(cat(_), c, s, pos) == Max({0} \union {i \in 1..pos : cat(s[i]) # c})
skipCatRight(cat(_), c, s, pos) == Min({Len(s)} \union {i \in pos..Len(s) - 1 : cat(s[i + 1]) # c})
skipWsLeft(cat(_), s, pos) == skipCatLeft(cat, 0, s, pos)
skipWsRight(cat(_), s, pos) == skipCatRight(cat, 0, s, pos)
skipSameCatLeft(cat(_), s, pos) == IF pos = 0 THEN pos ELSE skipCatLeft(cat, cat(s[pos]), s, pos)
skipSameCatRight(cat(_), s, pos) ==
    IF pos = Len(s) THEN pos ELSE skipCatRight(cat, cat(s[pos + 1]), s, pos)

moveDotLeftGeneralWord(cat(_), s, dot) == skipSameCatLeft(cat, s, skipWsLeft(cat, s, dot))

moveDotRightGeneralWord(cat(_), s, dot) ==
    LET pos == skipWsRight(cat, s, dot)
    IN  IF pos > dot THEN pos ELSE skipWsRight(cat, s, skipSameCatRight(cat, s, pos))

----------------------------------------------------------------------------
(* Transformers.                                                            *)

transposeRunes(s, dot) ==
    LET at == IF dot = 0 THEN 1 ELSE IF dot = Len(s) THEN dot - 1 ELSE dot  \* swap at and at + 1
    IN  IF Len(s) < 2 THEN CodeBuffer(s, dot)
        ELSE CodeBuffer([s EXCEPT ![at] = s[at + 1], ![at + 1] = s[at]], at + 1)

transposeGeneralWord(cat(_), s, dot) ==
    LET pos == skipWsRight(cat, s, dot)
        end == IF pos = Len(s) THEN skipWsLeft(cat, s, pos) ELSE skipSameCatRight(cat, s, pos)
        start == skipSameCatLeft(cat, s, end)
        prev == skipWsLeft(cat, s, start)
        isFirst == prev = 0
        lStart == IF isFirst THEN start ELSE skipSameCatLeft(cat, s, prev)
        lEnd == IF isFirst THEN end ELSE prev
        rStart == IF isFirst THEN skipWsRight(cat, s, lEnd) ELSE start
        rEnd == IF isFirst THEN skipSameCatRight(cat, s, rStart) ELSE end
        part(i, j) == SubSeq(s, i + 1, j)
    IN  IF (\A i \in DOMAIN s : cat(s[i]) = 0) \/ rStart = Len(s) THEN CodeBuffer(s, dot)
        ELSE CodeBuffer(part(0, lStart) \o part(rStart, rEnd) \o part(lEnd, rStart)
                        \o part(lStart, lEnd) \o part(rEnd, Len(s)), rEnd)

----------------------------------------------------------------------------
(* The editing commands.                                                    *)

Movers == {"rune-left", "rune-right", "word-left", "word-right", "small-word-left",
           "small-word-right", "alnum-word-left", "alnum-word-right", "sol", "eol", "up", "down"}
Transformers == {"rune", "word", "small-word", "alnum-word"}

mover(m, s, dot) ==
    CASE m = "rune-left"        -> moveDotLeft(s, dot)
      [] m = "rune-right"       -> moveDotRight(s, dot)
      [] m = "word-left"        -> moveDotLeftGeneralWord(categorizeWord, s, dot)
      [] m = "word-right"       -> moveDotRightGeneralWord(categorizeWord, s, dot)
      [] m = "small-word-left"  -> moveDotLeftGeneralWord(CategorizeSmallWord, s, dot)
      [] m = "small-word-right" -> moveDotRightGeneralWord(CategorizeSmallWord, s, dot)
      [] m = "alnum-word-left"  -> moveDotLeftGeneralWord(categorizeAlnum, s, dot)
      [] m = "alnum-word-right" -> moveDotRightGeneralWord(categorizeAlnum, s, dot)
      [] m = "sol"              -> moveDotSOL(s, dot)
      [] m = "eol"              -> moveDotEOL(s, dot)
      [] m = "up"               -> moveDotUp(s, dot)
      [] m = "down"             -> moveDotDown(s, dot)

transformer(t, s, dot) ==
    CASE t = "rune"       -> transposeRunes(s, dot)
      [] t = "word"       -> transposeGeneralWord(categorizeWord, s, dot)
      [] t = "small-word" -> transposeGeneralWord(CategorizeSmallWord, s, dot)
      [] t = "alnum-word" -> transposeGeneralWord(categorizeAlnum, s, dot)

\* The dot stays where it was, at text that has moved left.
makeKill_dotStays(m, b) ==
    LET newDot == mover(m, b.content, b.dot)
        content == before(b.content, smaller(newDot, b.dot)) \o after(b.content, larger(newDot, b.dot))
    IN  CodeBuffer(content, smaller(b.dot, Len(content)))

makeKill(m, b) ==
    LET newDot == mover(m, b.content, b.dot)
    IN  IF newDot < b.dot
        THEN CodeBuffer(before(b.content, newDot) \o after(b.content, b.dot), newDot)
        ELSE CodeBuffer(before(b.content, b.dot) \o after(b.content, newDot), b.dot)

----------------------------------------------------------------------------
(* The state machine.                                                       *)

resetInserts == inserts' = <<>> /\ lastBuf' = CodeBuffer(<<>>, 0)
interrupted == typed' = <<>>
editing == ~paste.on /\ ~completion.on

CodeAreaInit ==
    /\ buf = CodeBuffer(<<>>, 0) /\ pending = noPending
    /\ inserts = <<>> /\ lastBuf = CodeBuffer(<<>>, 0)
    /\ paste = [on |-> FALSE, text |-> <<>>] /\ completion = noCompletion /\ typed = <<>>

\* A graphic key that is not bound.  Inserts that something came between are
\* forgotten: the buffer is not what the last key left.
insertsBefore_always == inserts

insertsBefore == IF lastBuf # buf THEN <<>> ELSE inserts

Insert(r) ==
    LET b == InsertAtDot(buf, <<r>>)
        ins == Append(insertsBefore, r)
        command == IF IsSpace(r) THEN expandCommandAbbr(b) ELSE unexpanded(b)
        simple == IF command.done THEN command ELSE expandSimpleAbbr(b, ins)
        small == IF simple.done THEN simple ELSE expandSmallWordAbbr(b, ins, r)
    IN  /\ editing /\ r # "nl" /\ Len(buf.content) < MaxLen
        /\ buf' = small.buf
        /\ IF small.done THEN resetInserts /\ interrupted
           ELSE inserts' = ins /\ lastBuf' = b /\ typed' = Append(typed, r)
        /\ UNCHANGED <<pending, paste, completion>>

Backspace ==
    /\ editing
    /\ buf' = makeKill("rune-left", buf)
    /\ resetInserts /\ interrupted
    /\ UNCHANGED <<pending, paste, completion>>

\* A function key that nothing is bound to.
OtherKey ==
    /\ editing /\ resetInserts /\ interrupted
    /\ UNCHANGED <<buf, pending, paste, completion>>

\* Enter hands the code over; the next read starts with an empty state.
Submit ==
    /\ editing
    /\ buf' = CodeBuffer(<<>>, 0) /\ pending' = noPending
    /\ resetInserts /\ interrupted
    /\ UNCHANGED <<paste, completion>>

replaceInput(text) == CodeBuffer(text, Len(text))

\* Commands of the editor change the buffer and leave the inserts alone.
Command ==
    /\ editing
    /\ buf' \in {CodeBuffer(buf.content, mover(m, buf.content, buf.dot)) : m \in Movers}
                \union {makeKill(m, buf) : m \in Movers \ {"up", "down"}}
                \union {transformer(t, buf.content, buf.dot) : t \in Transformers}
                \union {InsertAtDot(buf, <<r>>) : r \in {q \in Runes : Len(buf.content) < MaxLen}}
                \union {replaceInput(<<r>>) : r \in Runes}
    /\ interrupted
    /\ UNCHANGED <<pending, inserts, lastBuf, paste, completion>>

\* Setting $edit:-dot, which a binding of any mode may do.
SetDot ==
    /\ ~paste.on
    /\ \E dot \in 0..Len(buf.content) : buf' = CodeBuffer(buf.content, dot)
    /\ interrupted
    /\ UNCHANGED <<pending, inserts, lastBuf, paste, completion>>

\* handlePasteSetting.  Between the two, keys go to the paste buffer.
PasteStart ==
    /\ ~completion.on
    /\ paste' = [paste EXCEPT !.on = TRUE]
    /\ resetInserts /\ (IF paste.on THEN UNCHANGED typed ELSE interrupted)
    /\ UNCHANGED <<buf, pending, completion>>

PasteKey(r) ==
    /\ paste.on /\ Len(paste.text) + Len(buf.content) < MaxLen
    /\ paste' = [paste EXCEPT !.text = Append(@, r)] /\ typed' = Append(typed, r)
    /\ UNCHANGED <<buf, pending, inserts, lastBuf, completion>>

\* The quoting is forgotten.
pasted_raw == paste.text

pasted == IF QuotePaste THEN Quote(paste.text) ELSE paste.text

PasteEnd ==
    /\ ~completion.on
    /\ Len(buf.content) + Len(paste.text) <= MaxLen /\ Len(buf.content) < MaxLen
    /\ paste' = [on |-> FALSE, text |-> <<>>]
    /\ resetInserts /\ interrupted
    /\ UNCHANGED <<pending, completion>>
    /\ buf' = InsertAtDot(buf, pasted)

\* completionStart.  The range to replace is that of the node at the dot; the
\* smart start first inserts what all the candidates have in common.
\* Complete: a candidate inserts its stem and its code suffix; equal neighbours
\* are shown once.
cook(candidates) ==
    LET text(k) == candidates[k].stem \o candidates[k].codeSuffix
    IN  FoldLeft(LAMBDA acc, k : IF acc # <<>> /\ Last(acc) = text(k) THEN acc ELSE Append(acc, text(k)),
                 <<>>, [k \in DOMAIN candidates |-> k])

cooked == {cook(c) : c \in Completions}

commonPrefix(s1, s2) ==      \* all of s1 when s2 ends first
    LET differ == {i \in DOMAIN s1 \intersect DOMAIN s2 : s1[i] # s2[i]}
    IN  IF differ = {} THEN s1 ELSE before(s1, Min(differ) - 1)

select(items, k) == pending' = PendingCode(completion'.from, completion'.to, items[k])

smartPrefix(items) == FoldLeft(commonPrefix, items[1], Tail(items))
prefixInserts(from, to, items) ==
    LET seed == SubSeq(buf.content, from + 1, to)
    IN  Len(smartPrefix(items)) > Len(seed) /\ IsPrefix(seed, smartPrefix(items))

SmartInsert(from, to, items) ==
    /\ editing /\ Len(buf.content) < MaxLen
    /\ pending' = noPending /\ interrupted
    /\ UNCHANGED <<inserts, lastBuf, paste, completion>>
    /\ prefixInserts(from, to, items)
    /\ buf' = patchPending(buf, PendingCode(from, to, smartPrefix(items)))

\* The start that is not smart, or a smart one that has nothing to insert.
CompletionStart(from, to, items) ==
    /\ editing /\ Len(buf.content) < MaxLen
    /\ completion' = [on |-> TRUE, from |-> from, to |-> to, items |-> items]
    /\ select(items, 1) /\ interrupted
    /\ UNCHANGED <<buf, inserts, lastBuf, paste>>

\* Another candidate, by moving the selection or by the filter.
CompletionSelect ==
    /\ completion.on /\ interrupted
    /\ UNCHANGED <<buf, inserts, lastBuf, paste, completion>>
    /\ \E k \in DOMAIN completion.items : select(completion.items, k)

\* OnAccept: apply, then PopAddon, which dismisses the mode.
ApplyPending == buf' = patchPending(buf, pending) /\ pending' = noPending

CompletionAccept ==
    /\ completion.on /\ completion' = noCompletion
    /\ ApplyPending /\ interrupted
    /\ UNCHANGED <<inserts, lastBuf, paste>>

CompletionDismiss ==
    /\ completion.on
    /\ pending' = noPending /\ completion' = noCompletion /\ interrupted
    /\ UNCHANGED <<buf, inserts, lastBuf, paste>>

CodeAreaNext ==
    \/ \E r \in Runes : Insert(r) \/ PasteKey(r)
    \/ Backspace \/ OtherKey \/ Submit \/ Command \/ SetDot
    \/ PasteStart \/ PasteEnd
    \/ \E from \in 0..buf.dot, to \in buf.dot..Len(buf.content), items \in cooked :
         SmartInsert(from, to, items) \/ CompletionStart(from, to, items)
    \/ CompletionSelect \/ CompletionAccept \/ CompletionDismiss

----------------------------------------------------------------------------
(* Properties.                                                              *)

\* Whatever is typed, pasted, killed, moved or completed in between, the text
\* that an abbreviation may replace is the text before the dot: the inserts of
\* the code area are at the end of what its last key left before the dot, and
\* they are used only while the buffer is that.  The dot stays in the buffer,
\* also in the one that is shown with the pending code in place, and the range
\* that completion mode would replace stays in the buffer.
InsertsAreThere ==
    /\ buf.dot \in 0..Len(buf.content)
    /\ lastBuf = buf => IsSuffix(inserts, before(buf.content, buf.dot))
    /\ lastBuf # buf => lastBuf.dot >= Len(inserts)
    /\ pending # noPending =>
       LET shown == patchPending(buf, pending) IN shown.dot \in 0..Len(shown.content)
    /\ completion.on => /\ completion.from <= completion.to
                        /\ completion.to <= Len(buf.content)
                        /\ pending.content \in Range(completion.items)

\* The text from..to of the buffer is replaced, and nothing else changes.
Replaced(from, to, text) == buf'.content = before(buf.content, from) \o text \o after(buf.content, to)

\* A key that is typed is inserted at the dot, or ends an abbreviation: a simple one that was
\* typed up to and with it, or one of the other kinds before it.  The abbreviation was there
\* and only it is replaced.  An abbreviation that was typed in full and consecutively, with
\* no other event in between, is always expanded (insert_api.d.elv).  That no other one is,
\* as the documentation also says, is not what the code does: it takes keys as consecutive
\* if what came between them has left the buffer and the dot where they were.
TypedIsThere(r) ==
    LET left == Append(before(buf.content, buf.dot), r)
        right == after(buf.content, buf.dot)
        became(l) == buf' = CodeBuffer(l \o right, Len(l))
        swapped(a, full, trigger) ==
            IsSuffix(a \o trigger, left) /\ became(before(left, Len(left) - Len(a \o trigger)) \o full \o trigger)
        cat(c) == CategorizeSmallWord(c)
        due(a) ==
            \/ a \in DOMAIN Abbreviations /\ IsSuffix(a, Append(typed, r))
            \/ /\ a \in DOMAIN SmallWordAbbreviations /\ IsSuffix(a, typed) /\ right = <<>>
               /\ cat(r) # cat(Last(a))
               /\ Len(left) > Len(a) + 1 => cat(left[Len(left) - Len(a) - 1]) # cat(a[1])
        expands ==
            \/ \E a \in DOMAIN Abbreviations : swapped(a, Abbreviations[a], <<>>)
            \/ \E a \in DOMAIN CommandAbbreviations : swapped(a, CommandAbbreviations[a], <<r>>)
            \/ \E a \in DOMAIN SmallWordAbbreviations : swapped(a, SmallWordAbbreviations[a], <<r>>)
    IN  /\ became(left) \/ expands
        /\ (\E a \in DOMAIN Abbreviations \union DOMAIN SmallWordAbbreviations : due(a)) => expands

\* What is typed is there, or what it abbreviates; what was typed between the start and the
\* end of a paste is inserted at the dot, quoted if that is asked for; the smart start of
\* completion inserts a text that extends the one it replaces and that all candidates have
\* in common (except for those that are a prefix of it); while completion is on the code does
\* not change, and a candidate that is accepted replaces the range it was shown in, with the
\* dot after it, or where it was if it had been moved out of the range.
TextIsThere ==
    /\ editing /\ completion' = completion =>
         /\ \A r \in Runes : Insert(r) => TypedIsThere(r)
         /\ \A from \in 0..buf.dot, to \in buf.dot..Len(buf.content), items \in cooked :
              SmartInsert(from, to, items) =>
                \E text \in {before(items[1], k) : k \in 0..Len(items[1])} :
                  /\ Replaced(from, to, text) /\ IsStrictPrefix(SubSeq(buf.content, from + 1, to), text)
                  /\ \A k \in DOMAIN items : IsPrefix(text, items[k]) \/ IsPrefix(items[k], text)
                  /\ buf'.dot = from + Len(text)
    /\ PasteEnd =>
         LET keys == IF paste.on THEN typed ELSE <<>>
             text == IF QuotePaste THEN Quote(keys) ELSE keys
         IN  Replaced(buf.dot, buf.dot, text) /\ buf'.dot = buf.dot + Len(text)
    /\ completion.on /\ buf'.content # buf.content => CompletionAccept
    /\ CompletionAccept =>
         LET c == completion
         IN  /\ Replaced(c.from, c.to, pending.content)
             /\ IF buf.dot < c.from THEN buf'.dot = buf.dot
                ELSE after(buf'.content, buf'.dot) = after(buf.content, larger(buf.dot, c.to))

\* The words of a kind: maximal runs of one category that is not 0, or single runes.
category(kind, r) == CASE kind = "word"       -> categorizeWord(r)
                       [] kind = "small-word" -> CategorizeSmallWord(r)
                       [] kind = "alnum-word" -> categorizeAlnum(r)
words(kind, s) ==
    LET cat(i) == category(kind, s[i])
    IN  IF kind = "rune" THEN {<<i, i + 1>> : i \in 0..Len(s) - 1}
        ELSE
        {w \in {<<i, j>> : i \in 0..Len(s) - 1, j \in 1..Len(s)} :
           /\ w[1] < w[2] /\ cat(w[1] + 1) # 0
           /\ \A i \in w[1] + 1 .. w[2] : cat(i) = cat(w[1] + 1)
           /\ w[1] > 0 => cat(w[1]) # cat(w[1] + 1)
           /\ w[2] < Len(s) => cat(w[2] + 1) # cat(w[2])}

\* The buffer with the words l and r exchanged.
exchanged(s, l, r) ==
    SubSeq(s, 1, l[1]) \o SubSeq(s, r[1] + 1, r[2]) \o SubSeq(s, l[2] + 1, r[1])
      \o SubSeq(s, l[1] + 1, l[2]) \o SubSeq(s, r[2] + 1, Len(s))

\* Words as the comment of buffer_builtins.go defines them: moving left goes
\* to the beginning of the last word left of the dot, moving right to that of
\* the first word right of it; transposing exchanges the word at or after the
\* dot (the last one if there is none, the second if it is the first) with the
\* word before it.  A rune is a word in this sense.  Moving to the start or the
\* end of the line does not leave the line.  Killing removes the text between
\* the dot and where it would move to, and the dot stays at the text beyond it.
\* Moving up and down changes the line by one and goes as far right as the
\* column it came from, and no other text may lie there.
MotionsAgree(s, dot) ==
    LET column(i) == Wc!Of(SubSeq(s, moveDotSOL(s, i) + 1, i))
        line(i) == Cardinality({k \in 1..i : s[k] = "nl"})
        reaches(i, to, d) ==       \* to is where moving by d lines from i may go
            LET there == {k \in 0..Len(s) : line(k) = line(i) + d /\ column(k) <= column(i)}
            IN  IF there = {} THEN to = i ELSE to = Max(there)
        goes(m, to) ==
            /\ mover(m, s, dot) = to
            /\ makeKill(m, CodeBuffer(s, dot)) =
                 CodeBuffer(before(s, smaller(dot, to)) \o after(s, larger(dot, to)), smaller(dot, to))
        here == {k \in 0..Len(s) : line(k) = line(dot)}
    IN  /\ \A kind \in {"rune", "word", "small-word", "alnum-word"} :
             LET ws == words(kind, s)
                 starts == {w[1] : w \in ws}
                 ordered == SetToSortSeq(ws, LAMBDA u, v : u[1] < v[1])
                 ahead == {k \in DOMAIN ordered : ordered[k][2] > dot}
                 k == IF ahead = {} THEN Len(ordered) ELSE Min(ahead)
                 r == IF k = 1 THEN 2 ELSE k
             IN  /\ goes(kind \o "-left", Max({0} \union {p \in starts : p < dot}))
                 /\ goes(kind \o "-right", Min({Len(s)} \union {p \in starts : p > dot}))
                 /\ transformer(kind, s, dot) =
                      IF Len(ordered) < 2 THEN CodeBuffer(s, dot)
                      ELSE CodeBuffer(exchanged(s, ordered[r - 1], ordered[r]), ordered[r][2])
        /\ goes("sol", Min(here)) /\ goes("eol", Max(here))
        /\ reaches(dot, moveDotUp(s, dot), -1)
        /\ reaches(dot, moveDotDown(s, dot), 1)
============================================================================
