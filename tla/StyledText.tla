---------------------------- MODULE StyledText -----------------------------
(* Styled text (pkg/ui): segments and texts, stylings and their names,      *)
(* colors and SGR codes, writing a text with VT escape sequences and        *)
(* reading it back, marking and splitting texts, column widths              *)
(* (pkg/wcwidth), and the Styledown markup (pkg/ui/styledown).              *)
(*                                                                          *)
(* A character is a token.  "W" stands for the double-width characters,     *)
(* "zw" for the zero-width ones, and a token of several letters for a word  *)
(* of the styling names and configuration lines, whose width only has to    *)
(* differ from that of a character.  A string is a sequence of tokens.      *)
EXTENDS Integers, Sequences, SequencesExt, FiniteSetsExt

CONSTANT NoColor      \* ui.NoColor: suppress colors when writing

----------------------------------------------------------------------------
(* Column widths.                                                           *)

OfRune(r) == CASE r = "W" -> 2
               [] r \in {"zw", "nl"} -> 0
               [] r \in {"fg-", "bg-", "no-", "toggle-", "eol", "bold"} -> 4
               [] OTHER -> 1

Of(s) == FoldLeft(LAMBDA w, r : w + OfRune(r), 0, s)

\* wcwidth.Trim: the longest prefix no wider than wmax.
Trim(s, wmax) ==
    LET cut == {i \in 1..Len(s) : Of(SubSeq(s, 1, i)) > wmax}
    IN  IF cut = {} THEN s ELSE SubSeq(s, 1, Min(cut) - 1)

Split(s, sep) ==
    LET at  == {i \in 1..Len(s) : s[i] = sep}
        pos == <<0>> \o SetToSortSeq(at, <) \o <<Len(s) + 1>>
    IN  [k \in 1..Len(pos) - 1 |-> SubSeq(s, pos[k] + 1, pos[k + 1] - 1)]

----------------------------------------------------------------------------
(* Colors.  nil is the default color.                                       *)

nil == <<"nil">>
ansiColor(n) == <<"ansi", n>>
ansiBrightColor(n) == <<"bright", n>>
xterm256Color(n) == <<"xterm256", n>>
trueColor(r, g, b) == <<"true", r, g, b>>

colorNames == <<"black", "red", "green", "yellow",
                "blue", "magenta", "cyan", "white">>

fgSGR(c) == CASE c[1] = "ansi"     -> <<30 + c[2]>>
              [] c[1] = "bright"   -> <<90 + c[2]>>
              [] c[1] = "xterm256" -> <<38, 5, c[2]>>
              [] OTHER             -> <<38, 2, c[2], c[3], c[4]>>

bgSGR(c) == CASE c[1] = "ansi"     -> <<40 + c[2]>>
              [] c[1] = "bright"   -> <<100 + c[2]>>
              [] c[1] = "xterm256" -> <<48, 5, c[2]>>
              [] OTHER             -> <<48, 2, c[2], c[3], c[4]>>

\* The components of a color name that strconv reads.
decimal(tok) == {i \in 0..256 : ToString(i) = tok}
hexPair == ("00" :> 0) @@ ("7f" :> 127) @@ ("ff" :> 255)

\* Color.String
colorString(c) ==
    CASE c[1] = "ansi"     -> <<colorNames[c[2] + 1]>>
      [] c[1] = "bright"   -> <<"bright-", colorNames[c[2] + 1]>>
      [] c[1] = "xterm256" -> <<"color", ToString(c[2])>>
      [] OTHER -> <<"#">> \o [k \in 1..3 |->
                                CHOOSE h \in DOMAIN hexPair : hexPair[h] = c[k + 1]]

parseColor(name) ==
    CASE Len(name) = 1 /\ name[1] \in Range(colorNames) ->
           ansiColor(CHOOSE k \in 0..7 : colorNames[k + 1] = name[1])
      [] Len(name) = 2 /\ name[1] = "bright-" /\ name[2] \in Range(colorNames) ->
           ansiBrightColor(CHOOSE k \in 0..7 : colorNames[k + 1] = name[2])
      [] Len(name) = 2 /\ name[1] = "color" ->
           IF \E i \in decimal(name[2]) : i < 256
           THEN xterm256Color(CHOOSE i \in decimal(name[2]) : TRUE) ELSE nil
      [] Len(name) = 4 /\ name[1] = "#" /\ Range(Tail(name)) \subseteq DOMAIN hexPair ->
           trueColor(hexPair[name[2]], hexPair[name[3]], hexPair[name[4]])
      [] OTHER -> nil

----------------------------------------------------------------------------
(* Styles and stylings.  A style is its two colors and the set of the       *)
(* attributes that are on.                                                  *)

boolFields == {"bold", "dim", "italic", "underlined", "blink", "inverse"}
NoStyle == [fg |-> nil, bg |-> nil, on |-> {}]

\* The attributes in the order in which SGRValues writes them.
attributeSGR == <<<<"bold", 1>>, <<"dim", 2>>, <<"italic", 3>>,
                  <<"underlined", 4>>, <<"blink", 5>>, <<"inverse", 7>>>>

\* Style.SGR: the codes joined by ";".
SGR(s) ==
    FoldLeft(LAMBDA codes, a : IF a[1] \in s.on THEN Append(codes, a[2]) ELSE codes,
             <<>>, attributeSGR)
    \o (IF s.fg # nil /\ ~NoColor THEN fgSGR(s.fg) ELSE <<>>)
    \o (IF s.bg # nil /\ ~NoColor THEN bgSGR(s.bg) ELSE <<>>)

Styling(kind, arg) == [kind |-> kind, arg |-> arg]
noStyling == Styling("invalid", nil)
Reset == Styling("reset", nil)

transform(st, s) ==
    CASE st.kind = "reset"  -> NoStyle
      [] st.kind = "fg"     -> [s EXCEPT !.fg = st.arg]
      [] st.kind = "bg"     -> [s EXCEPT !.bg = st.arg]
      [] st.kind = "on"     -> [s EXCEPT !.on = @ \union Range(st.arg)]
      [] st.kind = "off"    -> [s EXCEPT !.on = @ \ Range(st.arg)]
      [] st.kind = "toggle" -> [s EXCEPT !.on = SymDiff(@, Range(st.arg))]
      [] OTHER              -> s

ApplyStyling(s, ts) == FoldLeft(LAMBDA acc, t : transform(t, acc), s, ts)

ofColor(kind, c) == IF c = nil THEN noStyling ELSE Styling(kind, c)
ofField(kind, f) == IF Len(f) = 1 /\ f[1] \in boolFields
                    THEN Styling(kind, f) ELSE noStyling

parseOneStyling(name) ==
    CASE name \in {<<"default">>, <<"fg-", "default">>} -> Styling("fg", nil)
      [] name # <<>> /\ name[1] = "fg-" /\ name # <<"fg-", "default">> ->
           ofColor("fg", parseColor(Tail(name)))
      [] name = <<"bg-", "default">> -> Styling("bg", nil)
      [] name # <<>> /\ name[1] = "bg-" /\ name # <<"bg-", "default">> ->
           ofColor("bg", parseColor(Tail(name)))
      [] name # <<>> /\ name[1] = "no-" -> ofField("off", Tail(name))
      [] name # <<>> /\ name[1] = "toggle-" -> ofField("toggle", Tail(name))
      [] OTHER -> IF ofField("on", name) # noStyling THEN ofField("on", name)
                  ELSE ofColor("fg", parseColor(name))

\* ParseStyling: the joint styling, as a sequence; <<noStyling>> when invalid.
ParseStyling(s) ==
    LET parsed == [k \in 1..Len(Split(s, " ")) |-> parseOneStyling(Split(s, " ")[k])]
    IN  IF noStyling \in Range(parsed) THEN <<noStyling>> ELSE parsed

\* Style.MergeFromOptions, with options a set of <<key, value>>.
MergeFromOptions(s, options) ==
    LET colorOf(v) == IF v = <<"default">> THEN nil ELSE parseColor(v)
        good(o) == \/ o[1] \in {"fg-color", "bg-color"}
                      /\ (o[2] = <<"default">> \/ parseColor(o[2]) # nil)
                   \/ o[1] \in boolFields /\ o[2] \in {<<"true">>, <<"false">>}
        color(key, old) == IF \E o \in options : o[1] = key
                           THEN colorOf((CHOOSE o \in options : o[1] = key)[2]) ELSE old
    IN  IF \E o \in options : ~good(o) THEN [ok |-> FALSE, style |-> NoStyle]
        ELSE [ok |-> TRUE,
              style |-> [fg |-> color("fg-color", s.fg), bg |-> color("bg-color", s.bg),
                         on |-> {f \in boolFields : \/ <<f, <<"true">>>> \in options
                                                    \/ f \in s.on /\ <<f, <<"false">>>> \notin options}]]

----------------------------------------------------------------------------
(* Segments and texts.                                                      *)

Segment(style, text) == [style |-> style, text |-> text]
StyleSegment(seg, ts) == Segment(ApplyStyling(seg.style, ts), seg.text)
StyleText(t, ts) == [k \in 1..Len(t) |-> StyleSegment(t[k], ts)]
TextFromSegment(seg) == IF seg.text = <<>> THEN <<>> ELSE <<seg>>
T(s, ts) == IF s = <<>> THEN <<>> ELSE StyleText(<<Segment(NoStyle, s)>>, ts)

emptyBuilder == [segs |-> <<>>, style |-> NoStyle, text |-> <<>>]

\* TextBuilder.WriteText
WriteText(tb, t0) ==
    LET merge == t0 # <<>> /\ tb.style = t0[1].style
        text  == IF merge THEN tb.text \o t0[1].text ELSE tb.text
        t     == IF merge THEN Tail(t0) ELSE t0
        flush == IF text # <<>> THEN Append(tb.segs, Segment(tb.style, text)) ELSE tb.segs
    IN  IF t = <<>> THEN [tb EXCEPT !.text = text]
        ELSE [segs |-> flush \o Front(t), style |-> Last(t).style, text |-> Last(t).text]

\* TextBuilder.Text
builtText(tb) == IF tb.segs = <<>> /\ tb.text = <<>> THEN <<>>
                 ELSE Append(tb.segs, Segment(tb.style, tb.text))

Concat(texts) == builtText(FoldLeft(WriteText, emptyBuilder, texts))

\* One round of Partition's inner loop: take up to n characters off segs.
take(segs, n) ==
    FoldLeft(LAMBDA acc, seg :
               LET k == IF Len(seg.text) <= acc.n THEN Len(seg.text) ELSE acc.n
               IN  [n    |-> acc.n - k,
                    out  |-> IF k > 0 THEN Append(acc.out, Segment(seg.style, SubSeq(seg.text, 1, k)))
                             ELSE acc.out,
                    left |-> IF k < Len(seg.text)
                             THEN Append(acc.left, Segment(seg.style, SubSeq(seg.text, k + 1, Len(seg.text))))
                             ELSE acc.left],
             [n |-> n, out |-> <<>>, left |-> <<>>], segs)

\* Text.Partition
Partition(t, indices) ==
    LET step(acc, i) ==
            LET r == take(acc.segs, IF indices[i] > acc.last THEN indices[i] - acc.last ELSE 0)
            IN  [out |-> Append(acc.out, r.out), segs |-> r.left, last |-> indices[i]]
        done == FoldLeft(step, [out |-> <<>>, segs |-> t, last |-> 0],
                         [i \in 1..Len(indices) |-> i])
    IN  Append(done.out, done.segs)

\* Text.SplitByRune
SplitByRune(t, r) ==
    LET paste(acc, seg) ==
            LET sub   == [k \in 1..Len(Split(seg.text, r)) |->
                            TextFromSegment(Segment(seg.style, Split(seg.text, r)[k]))]
                first == WriteText(acc.paste, sub[1])
            IN  IF Len(sub) = 1 THEN [acc EXCEPT !.paste = first]
                ELSE [result |-> Append(acc.result, builtText(first))
                                 \o SubSeq(sub, 2, Len(sub) - 1),
                      paste  |-> WriteText(emptyBuilder, Last(sub))]
        done == FoldLeft(paste, [result |-> <<>>, paste |-> emptyBuilder], t)
    IN  IF t = <<>> THEN <<>> ELSE Append(done.result, builtText(done.paste))

\* Text.TrimWcwidth
TrimWcwidth(t, wmax) ==
    FoldLeft(LAMBDA acc, seg :
               IF acc.done THEN acc
               ELSE IF Of(seg.text) >= acc.left
                    THEN [acc EXCEPT !.done = TRUE,
                                     !.text = Append(@, Segment(seg.style, Trim(seg.text, acc.left)))]
                    ELSE [acc EXCEPT !.left = @ - Of(seg.text), !.text = Append(@, seg)],
             [done |-> FALSE, left |-> wmax, text |-> <<>>], t).text

----------------------------------------------------------------------------
(* VT output.  A stream is a sequence of items: a character, or a CSI       *)
(* sequence with its numbers (-1 for one left out) and its last byte.       *)

Char(r) == [csi |-> FALSE, nums |-> <<>>, last |-> r]
CSI(nums, last) == [csi |-> TRUE, nums |-> nums, last |-> last]
Chars(s) == [k \in 1..Len(s) |-> Char(s[k])]
None == -1

\* The escape sequence before a segment; clean says that no style is on.
sgrEscape_noReset(sgr, clean) ==
    CASE sgr = <<>> /\ clean  -> <<>>
      [] sgr = <<>> /\ ~clean -> <<CSI(<<None>>, "m")>>
      [] OTHER -> <<CSI(sgr, "m")>>

sgrEscape(sgr, clean) ==
    CASE sgr = <<>> /\ clean  -> <<>>
      [] sgr = <<>> /\ ~clean -> <<CSI(<<None>>, "m")>>
      [] sgr # <<>> /\ clean  -> <<CSI(sgr, "m")>>
      [] OTHER -> <<CSI(<<None>> \o sgr, "m")>>

\* Text.VTString
VTString(t) ==
    LET done ==
          FoldLeft(LAMBDA acc, seg :
                     LET sgr == SGR(seg.style)
                     IN  [clean |-> sgr = <<>>, out |-> acc.out \o sgrEscape(sgr, acc.clean) \o Chars(seg.text)],
                   [clean |-> FALSE, out |-> <<>>], t)
    IN  IF done.clean THEN done.out ELSE Append(done.out, CSI(<<None>>, "m"))

getSGRCodes(nums) == [k \in 1..Len(nums) |-> IF nums[k] = None THEN 0 ELSE nums[k]]

\* The attribute codes that StylingFromSGR knows; 3 (italic) is not there.
sgrStyling == (0 :> Reset) @@ (1 :> Styling("on", <<"bold">>)) @@ (2 :> Styling("on", <<"dim">>))
              @@ (4 :> Styling("on", <<"underlined">>)) @@ (5 :> Styling("on", <<"blink">>))
              @@ (7 :> Styling("on", <<"inverse">>))

\* The styling and the number of codes that the codes from the i-th on begin with.
oneSGR(codes, i) ==
    LET code == codes[i]
        has(n) == i + n - 1 <= Len(codes)
        kind == IF code = 38 THEN "fg" ELSE "bg"
        is(n) == has(2) /\ codes[i + 1] = n
        one(st) == [styling |-> st, consume |-> 1]
    IN  CASE code \in DOMAIN sgrStyling -> one(sgrStyling[code])
          [] code \in 30..37   -> one(Styling("fg", ansiColor(code - 30)))
          [] code \in 40..47   -> one(Styling("bg", ansiColor(code - 40)))
          [] code \in 90..97   -> one(Styling("fg", ansiBrightColor(code - 90)))
          [] code \in 100..107 -> one(Styling("bg", ansiBrightColor(code - 100)))
          [] code \in {38, 48} /\ has(3) /\ is(5) ->
               [styling |-> Styling(kind, xterm256Color(codes[i + 2] % 256)), consume |-> 3]
          [] code \in {38, 48} /\ has(5) /\ is(2) ->
               [styling |-> Styling(kind, trueColor(codes[i + 2] % 256, codes[i + 3] % 256,
                                                    codes[i + 4] % 256)), consume |-> 5]
          [] code = 39 -> one(Styling("fg", nil))
          [] code = 49 -> one(Styling("bg", nil))
          [] OTHER -> one(noStyling)

\* StylingFromSGR, as the sequence of stylings that it joins.
StylingFromSGR(nums) ==
    LET codes == getSGRCodes(nums)
        step(acc, i) == IF i < acc.next THEN acc
                        ELSE LET o == oneSGR(codes, i)
                             IN  [next |-> i + o.consume, out |-> Append(acc.out, o.styling)]
    IN  IF codes = <<>> THEN <<Reset>>
        ELSE FoldLeft(step, [next |-> 1, out |-> <<>>], [i \in 1..Len(codes) |-> i]).out

StyleFromSGR(nums) == ApplyStyling(NoStyle, StylingFromSGR(nums))

\* ParseSGREscapedText: a run of characters is one segment, an SGR sequence
\* changes the style, any other CSI sequence is dropped.  inRun says whether
\* the characters so far belong to the tokenizer's current run.
ParseSGREscapedText(items) ==
    FoldLeft(LAMBDA acc, x :
               CASE ~x.csi /\ acc.inRun ->
                      [acc EXCEPT !.text[Len(acc.text)].text = Append(@, x.last)]
                 [] ~x.csi /\ ~acc.inRun ->
                      [acc EXCEPT !.text = Append(@, Segment(acc.style, <<x.last>>)), !.inRun = TRUE]
                 [] x.csi /\ x.last = "m" ->
                      [acc EXCEPT !.style = ApplyStyling(@, StylingFromSGR(x.nums)), !.inRun = FALSE]
                 [] OTHER -> [acc EXCEPT !.inRun = FALSE],
             [text |-> <<>>, style |-> NoStyle, inRun |-> FALSE], items).text

----------------------------------------------------------------------------
(* Marked lines and styled regions.                                         *)

\* toRuns: the maximal runs of equal characters.
toRuns(s) ==
    FoldLeft(LAMBDA runs, r : IF runs # <<>> /\ Last(runs).r = r
                              THEN [runs EXCEPT ![Len(runs)].n = @ + 1]
                              ELSE Append(runs, [r |-> r, n |-> 1]), <<>>, s)

MarkText(line, stylesheet, style) ==
    LET step(acc, run) ==
            LET i == IF run.n <= Len(acc.line) THEN run.n ELSE Len(acc.line)
                st == IF run.r \in DOMAIN stylesheet THEN <<stylesheet[run.r]>> ELSE <<>>
            IN  [tb   |-> WriteText(acc.tb, T(SubSeq(acc.line, 1, i), st)),
                 line |-> SubSeq(acc.line, i + 1, Len(acc.line))]
        done == FoldLeft(step, [tb |-> emptyBuilder, line |-> line], toRuns(style))
    IN  builtText(WriteText(done.tb, T(done.line, <<>>)))

fixRegions_unsorted(regions) ==
    FoldLeft(LAMBDA acc, r : IF r.from < acc.lastTo THEN acc
                             ELSE [out |-> Append(acc.out, r), lastTo |-> r.to],
             [out |-> <<>>, lastTo |-> 0], regions).out

\* fixRegions: sort by start and decreasing priority, drop what overlaps.
fixRegions(regions) ==
    FoldLeft(LAMBDA acc, r : IF r.from < acc.lastTo THEN acc
                             ELSE [out |-> Append(acc.out, r), lastTo |-> r.to],
             [out |-> <<>>, lastTo |-> 0],
             SortSeq(regions, LAMBDA a, b : \/ a.from < b.from
                                            \/ a.from = b.from /\ a.priority > b.priority)).out

StyleRegions(s, regions) ==
    LET step(acc, r) ==
            [text |-> (IF r.from > acc.lastTo
                       THEN Append(acc.text, Segment(NoStyle, SubSeq(s, acc.lastTo + 1, r.from)))
                       ELSE acc.text)
                      \o <<StyleSegment(Segment(NoStyle, SubSeq(s, r.from + 1, r.to)), <<r.styling>>)>>,
             lastTo |-> r.to]
        done == FoldLeft(step, [text |-> <<>>, lastTo |-> 0], fixRegions(regions))
    IN  IF Len(s) > done.lastTo
        THEN Append(done.text, Segment(NoStyle, SubSeq(s, done.lastTo + 1, Len(s))))
        ELSE done.text

----------------------------------------------------------------------------
(* Styledown.                                                               *)

BuiltinStyleChars == (" " :> <<Reset>>) @@ ("*" :> <<Styling("on", <<"bold">>)>>)
                     @@ ("_" :> <<Styling("on", <<"underlined">>)>>)
                     @@ ("#" :> <<Styling("on", <<"inverse">>)>>)

styleOf(styling) == ApplyStyling(NoStyle, styling)

\* parseStyleCharDef: a line "<char> <styling>...".
parseStyleCharDef(line) ==
    LET at == SelectInSeq(line, LAMBDA r : r = " ")
        st == ParseStyling(SubSeq(line, at + 1, Len(line)))
    IN  IF at # 2 \/ Len(line) = 2 \/ OfRune(line[1]) # 1 \/ st = <<noStyling>>
        THEN [ok |-> FALSE, r |-> "", styling |-> <<>>]
        ELSE [ok |-> TRUE, r |-> line[1], styling |-> st]

noEOL == <<"no-", "eol">>

parseConfig(lines) ==
    LET defs == {k \in 1..Len(lines) : lines[k] \notin {<<>>, noEOL}}
        def(k) == parseStyleCharDef(lines[k])
        own == [r \in {def(k).r : k \in defs} |->
                  def(CHOOSE k \in defs : def(k).r = r).styling]
    IN  [ok    |-> /\ \A k \in defs : def(k).ok
                   /\ \A j, k \in defs : j # k => def(j).r # def(k).r,
         noEOL |-> noEOL \in Range(lines),
         sheet |-> own @@ BuiltinStyleChars]

\* The styled characters of a text line; not ok for a zero-width character,
\* for differing styles (or too few) under a wide one, or an unknown style.
renderLine(text, style, sheet) ==
    FoldLeft(LAMBDA acc, r :
               LET w == OfRune(r)
               IN  IF \/ ~acc.ok \/ w = 0 \/ w > Len(acc.style)
                      \/ \E k \in 1..w : acc.style[k] # acc.style[1]
                      \/ acc.style[1] \notin DOMAIN sheet
                   THEN [acc EXCEPT !.ok = FALSE]
                   ELSE [ok    |-> TRUE,
                         out   |-> Append(acc.out, T(<<r>>, sheet[acc.style[1]])),
                         style |-> SubSeq(acc.style, w + 1, Len(acc.style))],
             [ok |-> TRUE, out |-> <<>>, style |-> style], text)

\* Render: the lines of the markup to a text.
Render(lines) ==
    LET paired(i) == i + 1 < Len(lines) /\ Of(lines[i + 1]) = Of(lines[i + 2])
        n == Min({i \in 0..Len(lines) : i % 2 = 0 /\ ~paired(i)})
        config == parseConfig(SubSeq(lines, n + 2, Len(lines)))
        row == [k \in 1..(n \div 2) |->
                  renderLine(lines[2 * k - 1], lines[2 * k], config.sheet)]
        newline == <<T(<<"nl">>, <<>>)>>
        body == FoldLeft(LAMBDA acc, k : acc \o (IF k > 1 THEN newline ELSE <<>>) \o row[k].out,
                         <<>>, [k \in 1..Len(row) |-> k])
    IN  IF \/ n < Len(lines) /\ lines[n + 1] # <<>>
           \/ ~config.ok
           \/ \E k \in DOMAIN row : ~row[k].ok
        THEN [ok |-> FALSE, text |-> <<>>]
        ELSE [ok |-> TRUE, text |-> Concat(IF config.noEOL THEN body ELSE body \o newline)]

\* Derender: a text to the lines of its markup, with defs the configuration
\* lines for the styles beyond the builtin ones.
Derender(t, defs) ==
    LET def(k) == parseStyleCharDef(defs[k])
        own == [s \in {styleOf(def(k).styling) : k \in DOMAIN defs} |->
                  def(CHOOSE k \in DOMAIN defs : styleOf(def(k).styling) = s).r]
        builtins == {r \in DOMAIN BuiltinStyleChars : \A k \in DOMAIN defs : def(k).r # r}
        charForStyle == [s \in {styleOf(BuiltinStyleChars[r]) : r \in builtins} |->
                           CHOOSE r \in builtins : styleOf(BuiltinStyleChars[r]) = s] @@ own
        all == SplitByRune(t, "nl")
        eol == all # <<>> /\ Last(all) = <<>>
        lines == IF eol THEN Front(all) ELSE all
        styles(line) == FoldLeft(LAMBDA acc, seg :
                                   acc \o [k \in 1..Of(seg.text) |-> charForStyle[seg.style]],
                                 <<>>, line)
        plain(line) == FoldLeft(LAMBDA acc, seg : acc \o seg.text, <<>>, line)
        used == SelectSeq(defs, LAMBDA d : \E k \in DOMAIN t :
                                  /\ t[k].style \in DOMAIN charForStyle
                                  /\ charForStyle[t[k].style] = parseStyleCharDef(d).r)
        config == (IF eol THEN <<>> ELSE <<noEOL>>) \o used
    IN  IF \/ \E k \in DOMAIN defs : ~def(k).ok
           \/ \E j, k \in DOMAIN defs : j # k /\ (\/ def(j).r = def(k).r
                                                  \/ styleOf(def(j).styling) = styleOf(def(k).styling))
           \/ \E k \in DOMAIN lines : \E i \in DOMAIN lines[k] :
                lines[k][i].style \notin DOMAIN charForStyle
        THEN [ok |-> FALSE, lines |-> <<>>]
        ELSE [ok    |-> TRUE,
              lines |-> FoldLeft(LAMBDA acc, line : acc \o <<plain(line), styles(line)>>, <<>>, lines)
                        \o (IF config = <<>> THEN <<>> ELSE <<<<>>>> \o config)
                        \o <<<<>>>>]

----------------------------------------------------------------------------
(* The builtins styled-segment and styled.                                  *)

styledSegment(seg, options) ==
    LET merged == MergeFromOptions(seg.style, options)
    IN  [ok |-> merged.ok, seg |-> Segment(merged.style, seg.text)]

\* styled with stylings given by name, each applied in turn to all segments.
styled(t, names) ==
    IF \E k \in DOMAIN names : ParseStyling(names[k]) = <<noStyling>>
    THEN [ok |-> FALSE, text |-> <<>>]
    ELSE [ok |-> TRUE,
          text |-> FoldLeft(LAMBDA acc, n : StyleText(acc, ParseStyling(n)), t, names)]

----------------------------------------------------------------------------
(* Properties.                                                              *)

Plain(t) == FoldLeft(LAMBDA acc, seg : acc \o seg.text, <<>>, t)

\* The style of every character, which is what a text shows.
Shown(t) == FoldLeft(LAMBDA acc, seg :
                       acc \o [k \in 1..Len(seg.text) |-> <<seg.text[k], seg.style>>], <<>>, t)

Normal(t) == /\ \A k \in DOMAIN t : t[k].text # <<>>
             /\ \A k \in 1..Len(t) - 1 : t[k].style # t[k + 1].style

Join(lines) ==
    Concat(FoldLeft(LAMBDA acc, k : acc \o (IF k > 1 THEN <<T(<<"nl">>, <<>>)>> ELSE <<>>) \o <<lines[k]>>,
                    <<>>, [k \in 1..Len(lines) |-> k]))

\* The options of styled-segment that name a style.
styleOptions(s) ==
    {<<f, <<"true">>>> : f \in s.on}
    \union (IF s.fg = nil THEN {} ELSE {<<"fg-color", colorString(s.fg)>>})
    \union (IF s.bg = nil THEN {} ELSE {<<"bg-color", colorString(s.bg)>>})

\* What is taken apart comes back.  For a text t made by concatenating styled
\* strings: cutting it anywhere and concatenating gives t; splitting it into
\* lines loses only the style of the newlines; the escape sequences that
\* VTString writes are read back as t, unless they say italic, which the
\* reader does not know; its Styledown markup renders to t, as does marking its
\* characters with the style line; a style is set again by its SGR codes and by
\* options that name it; and trimming to a width keeps the longest prefix that
\* fits.
TextComesBack(t, defs) ==
    LET n == Len(Plain(t))
        d == Derender(t, defs)
        plainEOL == \A k \in DOMAIN t : "nl" \in Range(t[k].text) => t[k].style = NoStyle
    IN  /\ Normal(t)
        /\ \A i \in 0..n : \A j \in i..n : Concat(Partition(t, <<i, j>>)) = t
        /\ plainEOL => Join(SplitByRune(t, "nl")) = t
        /\ (\A k \in DOMAIN t : "italic" \notin t[k].style.on)
             => /\ ParseSGREscapedText(VTString(t)) = t
                /\ \A k \in DOMAIN t : StyleFromSGR(SGR(t[k].style)) = t[k].style
        /\ \A k \in DOMAIN t :
             styledSegment(Segment(NoStyle, t[k].text), styleOptions(t[k].style)) = [ok |-> TRUE, seg |-> t[k]]
        /\ (d.ok /\ plainEOL /\ "zw" \notin Range(Plain(t))) =>
             Render(d.lines) = [ok |-> TRUE, text |-> t]
        /\ (d.ok /\ "nl" \notin Range(Plain(t)) /\ Range(Plain(t)) \subseteq {"a", "b"} /\ defs = <<>>)
             => MarkText(Plain(t), [r \in DOMAIN BuiltinStyleChars |-> BuiltinStyleChars[r][1]],
                         d.lines[2]) = t
        /\ \A w \in 1..Of(Plain(t)) :
             /\ IsPrefix(Shown(TrimWcwidth(t, w)), Shown(t))
             /\ Of(Plain(TrimWcwidth(t, w))) \in {w, w - 1}

\* Styling regions of a string, the highlighter's way, keeps the string, and
\* a region loses its styling only to one that it overlaps and that starts
\* earlier or, starting with it, has at least its priority.
RegionsKeepText(s, regions) ==
    LET shown == Shown(StyleRegions(s, regions))
        style(r) == ApplyStyling(NoStyle, <<r.styling>>)
        kept(r) == \A i \in r.from + 1 .. r.to : shown[i][2] = style(r)
        beats(q, r) == /\ q.from < r.from \/ (q.from = r.from /\ q.priority >= r.priority)
                       /\ q.to > r.from \/ q.from = r.from
    IN  /\ Plain(StyleRegions(s, regions)) = s
        /\ \A k \in DOMAIN regions : \/ kept(regions[k])
                                     \/ \E j \in DOMAIN regions \ {k} : beats(regions[j], regions[k])
============================================================================
