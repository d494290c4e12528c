------------------------------ MODULE MCScreen ------------------------------
(* What the user types and sees: the writer and its terminal, the list     *)
(* boxes and the code area as state machines; texts with styles, keys and  *)
(* lines of code as inputs that are made longer step by step.              *)
EXTENDS Integers, Sequences, TLC

VARIABLES
  part,                                                   \* what a behaviour is about
  phase, screen, curBuf, shown, log,                      \* of TermWriter
  horizontal, box, told, region, view,                    \* of Widgets
  buf, pending, inserts, lastBuf, paste, completion, typed,  \* of CodeArea
  input                                                   \* in the other parts

writerVars == <<phase, screen, curBuf, shown, log>>
widgetsVars == <<horizontal, box, told, region, view>>
codeVars == <<buf, pending, inserts, lastBuf, paste, completion, typed>>
vars == <<part, writerVars, widgetsVars, codeVars, input>>

Styles == INSTANCE StyledText WITH NoColor <- FALSE
Reader == INSTANCE TermReader

\* Views of prompts, code and tips that wrap, are too high, and start alike.
Bold == [Styles!NoStyle EXCEPT !.on = {"bold"}]
Green == [Styles!NoStyle EXCEPT !.bg = <<"ansi", 2>>]
Text(s, style) == IF s = <<>> THEN <<>> ELSE <<Styles!Segment(style, s)>>
View(p, c, d, r, tips) ==
  [prompt |-> Text(p, Bold), code |-> Text(c, Green), dot |-> d, rprompt |-> Text(r, Styles!NoStyle),
   tips |-> tips, addons |-> <<>>, persistent |-> "nl" \in {c[k] : k \in DOMAIN c}]
Addon(v, t, focus) == [v EXCEPT !.addons = <<[content |-> Text(t, Bold), focus |-> focus]>>]
MCViews ==
  {View(<<"b">>, <<"a">>, 1, <<"a">>, <<>>), View(<<"b">>, <<"a", "nl", "b">>, 1, <<"a">>, <<>>),
   View(<<"b">>, <<"W", "ctrl-a">>, 0, <<>>, <<>>),
   View(<<>>, <<"a", "W">>, 2, <<>>, <<Text(<<"b">>, Bold)>>)}
  \cup {Addon(View(<<"W">>, <<>>, 0, <<"a">>, <<>>), <<"a", "nl", "b">>, f) : f \in BOOLEAN}
Writer == INSTANCE TermWriter WITH
  NoColor <- FALSE, ScreenWidth <- 4, ScreenHeight <- 2, MaxRows <- 4, Views <- MCViews,
  Notes <- {<<>>, <<Text(<<"a", "W", "a">>, Bold)>>}, OutputRunes <- {"a", "nl"}

\* Lists of items of one and of several lines.
Item(l, w) == [lines |-> l, width |-> w]
MCItemLists ==
  {<<>>, [k \in 1..9 |-> Item(1, 1 + ((k * k) % 3))]}
  \cup {<<Item(a, 1), Item(b, 2), Item(c, 1), Item(a, 1), Item(b, 1), Item(1, 1)>> :
          a \in {1, 3}, b \in 1..2, c \in {1, 4}}
Boxes == INSTANCE Widgets WITH
  ItemLists <- MCItemLists, Widths <- {3, 8}, Heights <- {1, 3, 6}, Padding <- 0, respectDistance <- 2

\* Abbreviations that contain each other, and candidates that share a prefix.
MCQuote(s) == <<"'">> \o s \o <<"'">>
Candidate(s, t) == [stem |-> s, codeSuffix |-> t]
MCAbbreviations == <<"a", "a">> :> <<"b">>
MCWordAbbreviations == <<"a">> :> <<"b">>
MCCompletions == {<<Candidate(<<"a">>, <<"b">>), Candidate(<<"a">>, <<>>), Candidate(<<"a", "a">>, <<>>)>>}
MCRunes == {"a", " "}
Code == INSTANCE CodeArea WITH
  Runes <- MCRunes, Abbreviations <- MCAbbreviations,
  CommandAbbreviations <- MCWordAbbreviations, SmallWordAbbreviations <- MCWordAbbreviations,
  QuotePaste <- TRUE, Quote <- MCQuote, MaxLen <- 3, Completions <- MCCompletions

\* A character with a style.
Stylings ==
  {<<>>, << <<"bold">> >>, << <<"fg-", "red">>, <<"bg-", "color", "200">> >>,
   << <<"#", "ff", "00", "7f">>, <<"no-", "bold">>, <<"inverse">> >>}
Styled == {Styles!styled(Styles!T(<<r>>, <<>>), n).text : r \in {"a", "W", "zw", "nl"}, n \in Stylings}
          \cup {Styles!styled(Styles!T(<<"a">>, <<>>), << <<"toggle-", "italic">> >>).text}
StyleDefs == << <<"r", " ", "fg-", "red", " ", "bg-", "color", "200">> >>
\* A region of a text to highlight.
Regions ==
  {r \in [from : 0..2, to : 0..3, priority : {1, 2},
          styling : {[kind |-> "on", arg |-> <<"bold">>], [kind |-> "fg", arg |-> <<"ansi", 1>>]}] : r.from < r.to}

\* Keys, and what terminals send for them.
Mods == SUBSET {"Shift", "Alt", "Ctrl"}
Keys ==
  {Reader!Arrow(l, m) : l \in {"A", "D"}, m \in Mods} \cup {Reader!RxvtAlt("B")}
  \cup {Reader!Tilde(n, m) : n \in {3, 24}, m \in Mods}
  \cup {Reader!Keypad(n, {"Ctrl"}) : n \in {9, 13, 45, 48}} \cup {Reader!G3(l) : l \in {"A", "c", "P"}}
  \cup {Reader!Plain(r) : r \in {"a", "m", "[", "O", "esc", "^I", "^A", "^@", "wide", "-", "~", "A", "5"}}
  \cup {Reader!AltKey(r) : r \in {"a", "[", "O", "^A", "^?", "-"}} \cup {Reader!Paste(b) : b \in BOOLEAN}
  \cup {Reader!CursorReport(1, 12), Reader!Click("$", "!", "#"), Reader!Click(" ", "0", "!")}

-----------------------------------------------------------------------------
Alphabet == [styled |-> Styled, regions |-> Regions, keys |-> Keys, motions |-> {"a", " ", "nl", "-", "W"},
             heights |-> 0..3]
Limit == [styled |-> 3, regions |-> 2, keys |-> 2, motions |-> 4, heights |-> 3]

Init ==
  /\ part \in {"writer", "boxes", "code"} \cup DOMAIN Alphabet
  /\ Writer!WriterInit
  /\ IF part = "boxes" THEN Boxes!WidgetsInit
     ELSE horizontal = FALSE /\ box = <<>> /\ told = <<>> /\ region = <<>> /\ view = <<>>
  /\ Code!CodeAreaInit
  /\ input = <<>>

Write == part = "writer" /\ Writer!WriterNext /\ UNCHANGED <<part, widgetsVars, codeVars, input>>
List == part = "boxes" /\ Boxes!WidgetsNext /\ UNCHANGED <<part, writerVars, codeVars, input>>
Edit == part = "code" /\ Code!CodeAreaNext /\ UNCHANGED <<part, writerVars, widgetsVars, input>>
Grow ==
  /\ part \in DOMAIN Alphabet /\ Len(input) < Limit[part]
  /\ \E x \in Alphabet[part] : input' = Append(input, x)
  /\ UNCHANGED <<part, writerVars, widgetsVars, codeVars>>

Next == Write \/ List \/ Edit \/ Grow
Spec == Init /\ [][Next]_vars

-----------------------------------------------------------------------------
\* A styled text is read back from its SGR sequences and from Styledown, and highlighting
\* regions of code, which may overlap, changes its styles and not its text.
StylesKeepText ==
  [][/\ part = "styled" =>
          \A defs \in {<<>>, StyleDefs} : Styles!TextComesBack(Styles!Concat(input'), defs)
     /\ part = "regions" => Styles!RegionsKeepText(<<"a", "b", "c">>, input')]_input

\* The screen shows what the writer believes it shows, though only differences are sent, and
\* all that was printed before.
ScreenShowsBuffer == part = "writer" => Writer!ScreenShowsBuffer

\* The keys typed are the keys read, also when the bytes of a key come late.
TypedKeysAreRead ==
  [][part = "keys" /\ Len(input') = 2 =>
       \A late \in 0..Len(input'[1].send) : Reader!TypedKeysAreRead(input', late)]_input

\* A list box shows its selection, whatever was selected, reset and resized before, amid as
\* many of the lines around it as there is room for (but for an item that crosses the lower
\* edge, of which listbox.go keeps the wrong number of lines), tells its callbacks of
\* it, and asks for as much height as it needs; widgets stacked in a column get heights that
\* are fair.
WindowsAreFair ==
  /\ part = "boxes" => Boxes!SelectionIsShown /\ Boxes!SelectionIsTold /\ Boxes!MaxHeightSuffices
  /\ part = "heights" => \A focus \in DOMAIN input, height \in 0..7 : Writer!HeightsAreFair(focus, input, height)

\* What is typed, pasted, completed or expanded is there and the rest of the buffer is what it
\* was; the text an abbreviation may replace is the text before the dot, whatever happened
\* since it was typed; and moves, kills and transpositions of runes, words and lines do what
\* words and lines are said to be.  An abbreviation may be expanded although the dot was moved
\* away and back while it was typed, which insert_api.d.elv:3-5 denies.
EditsAreExact ==
  [][/\ part = "code" => Code!InsertsAreThere' /\ Code!TextIsThere
     /\ part = "motions" => \A dot \in 0..Len(input') : Code!MotionsAgree(input', dot)]_<<codeVars, input>>
=============================================================================
