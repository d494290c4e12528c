------------------------------ MODULE MCLibrary ------------------------------
(* The data structures and the algorithms on text and values: versions of  *)
(* maps and vectors, or an input that is made longer step by step, on      *)
(* which an algorithm is compared with what it should compute.             *)
EXTENDS Persistent, TLC

VARIABLES
  part,     \* what a behaviour is about
  input     \* the text, values or pattern, in the other parts than "versions"

\* A directory tree, with the current directory /c, in which the home directory is.
Cwd == <<<<"c">>>>
Home == Cwd \o <<<<"a">>>>
MCTree ==
  (<<>> :> {<<"c">>})
  @@ (Cwd :> {<<"a">>, <<"a", "a", "b">>, <<".", "a">>, <<"b">>})
  @@ (Home :> {<<"a">>, <<".", "b">>, <<"b", "a">>})
  @@ (Home \o <<<<"a">>>> :> {<<"b">>})

Syntax == INSTANCE Parser
Num == INSTANCE Values WITH IntBits <- 4
Md == INSTANCE MdCodecs
FileNames == INSTANCE Glob WITH Tree <- MCTree

\* Options without an argument, with a required and with an optional one, some with only one
\* name.
SpecMap(short, long, argRequired, argOptional) ==
  [short |-> short, long |-> long, argRequired |-> argRequired, argOptional |-> argOptional]
MCSpecMaps == << SpecMap("a", <<"a", "l">>, FALSE, FALSE), SpecMap("o", <<"o">>, TRUE, FALSE),
                 SpecMap("p", <<>>, FALSE, TRUE), SpecMap("", <<"l", "o">>, FALSE, TRUE) >>
Opt == INSTANCE Getopt WITH SpecMaps <- MCSpecMaps

MCKeys == <<"k1", "k2", "k3", "k4", "nil", "k5", "k6", "k7", "k8">>
MCHash == [k1 |-> 0, k2 |-> 8, k3 |-> 0, k4 |-> 1, k5 |-> 2, k6 |-> 64, k7 |-> 3, k8 |-> 4]

\* Alphabets that bring together the characters that matter to each other in source code ...
Sources == << {"a", " ", "&", "=", "[", "]"}, {"{", "}", "|", "a", "\n"}, {"(", ")", "?", "$", "'"},
              {"a", ">", "&", "#", "^", "\n"}, {"\"", "\\", "c", "x", "7"}, {"~", "a", "[", "]", "*"} >>
\* ... and the code points of strings to quote; -255 is the invalid byte 0xff.
QuoteRunes == {97, 39, 32, 10, 61, 126, 233, -255, 44, 34, 92, 1114111, 60, 64}

\* Numbers on both sides of the border of int; values that contain others; indices.
Numbers ==
  {Num!SmallInt(n) : n \in {-8, -3, 0, 1, 2, 7}} \cup {Num!BigInt(n) : n \in {8, 20, -9}}
  \cup {Num!Rat(1, 2), Num!Rat(-7, 3), Num!Rat(17, 2)}
A == Num!Str(<<97>>)
one == Num!SmallInt(1)
Maps == {Num!MapV(<<>>), Num!MapV(<<<<A, one>>>>),
         Num!MapV(<<<<Num!Nil, one>>, <<A, one>>>>),
         [Num!MapV(<<<<A, one>>, <<Num!Str(<<98>>), one>>>>) EXCEPT !.t = "fieldmap"]}
Ordered ==
  {Num!Nil, Num!BoolV(TRUE), Num!SmallInt(0), one, Num!Float(1), Num!Special("nan"), Num!Rat(1, 2), A,
   Num!ListV(<<one>>), Num!ListV(<<A>>), Num!ListV(<<Num!MapV(<<>>), one>>),
   Num!ListV(<<Num!MapV(<<<<A, one>>>>), Num!SmallInt(0)>>)}
Options == [total : BOOLEAN, reverse : BOOLEAN, lessThan : {"none", "longer", "bad"}, key : {"none", "length", "bad"}]
\* An int has four bits.
Bounds(S) == {<<>>, Num!NotANumber} \cup {<<i>> : i \in S}
Indices ==
  [low : Bounds(-3..3), sep : {"..", "..="}, high : Bounds(-3..4 \cup {7, 8})]
  \cup [low : Bounds(-3..3 \cup {8}), sep : {""}, high : {<<>>}]

\* Markdown: alphabets, and lines.
Inline == << {"a", " ", "*", "_", "\n"}, {"a", "[", "]", "(", ")", "!"}, {"bq", " ", "a", "\\", "\n"},
             {"<", "kbd", ">", "/", "a"}, {"&", "amp;", "NewLine;", "a", "*"}, {"-", " ", "a", "\n", "*"},
             {"#", " ", "a", "\\", "{"}, {"1", ".", ")", " ", "a", "\n"} >>
Spaces(n) == [i \in 1..n |-> " "]
Lines ==
  {<<>>, <<"-", " ", "a">>, <<"*", " ", "-", " ", "-">>, <<"1", ".", " ", "a">>, <<">", " ", "a">>,
   Spaces(2) \o <<"a">>, Spaces(4) \o <<"a">>, <<"bq", "bq", "bq", " ", "a">>, <<"<", "div", ">">>,
   <<"-", " ", "<", "pre", ">">>, <<"#", " ", "a", " ", "#">>, <<"-", " ">> \o Spaces(5) \o <<"a">>}

\* The wildcards of a pattern, and the pieces of names to put between them.
Wild(s) == FileNames!globPattern(<<FileNames!wildcardToSegment(s)>>)
star == Wild(<<"*">>)
starstar == Wild(<<"*", "*">>)
Wildcards ==
  {star, starstar, Wild(<<"?">>),
   FileNames!Index(star, "match-hidden", {}), FileNames!Index(starstar, "match-hidden", {}),
   FileNames!Index(star, "runes", {"b"}), FileNames!Index(star, "nomatch-ok", {}),
   FileNames!Index(starstar, "type", "dir"), FileNames!Index(starstar, "but", <<"a", "/", "a">>)}
Pieces == {<<"/">>, <<"a">>, <<".">>, <<"a", "/">>, <<"b">>}

\* Arguments: options alone, in chains and with arguments, and what is not an option.
Arguments ==
  {<<>>, <<"-">>, <<"-", "-">>, <<"a">>, <<"-", "a">>, <<"-", "a", "p">>, <<"-", "a", "o">>,
   <<"-", "o", "a">>, <<"-", "p", "z">>, <<"-", "z">>, <<"-", "a", "-">>, <<"-", "-", "o">>,
   <<"-", "-", "a", "l">>, <<"-", "-", "a", "l", "=", "a">>, <<"-", "-", "o", "=">>,
   <<"-", "-", "l", "o", "=", "-">>, <<"-", "-", "=", "a">>, <<"-", "-", "l">>}

-----------------------------------------------------------------------------
Part(what, n) == <<what, n>>
Alphabets ==
  [p \in {Part("source", i) : i \in DOMAIN Sources} \cup {Part("inline", i) : i \in DOMAIN Inline} |->
     IF p[1] = "source" THEN Sources[p[2]] ELSE Inline[p[2]]]
  @@ (Part("quote", 0) :> QuoteRunes) @@ (Part("numbers", 0) :> Numbers) @@ (Part("order", 0) :> Ordered)
  @@ (Part("index", 0) :> {97, 195, 169}) @@ (Part("lines", 0) :> Lines)
  @@ (Part("arguments", 0) :> Arguments)
Limit == [source |-> 5, inline |-> 4, quote |-> 3, numbers |-> 2, order |-> 3, index |-> 4, lines |-> 3,
          arguments |-> 3]

MCInit ==
  /\ part \in DOMAIN Alphabets \cup {Part("glob", 0), Part("versions", 0)}
  /\ IF part[1] = "versions" THEN PInit ELSE heap = <<>> /\ vers = <<>> /\ built = 0
  /\ IF part[1] = "glob"
     THEN input \in Wildcards \cup {FileNames!RConcat(s, w) : s \in Pieces, w \in Wildcards}
     ELSE input = <<>>

\* The input grows by one character, line or value.
Grow ==
  /\ part \in DOMAIN Alphabets
  /\ Len(input) < Limit[part[1]]
  /\ \E x \in Alphabets[part] : input' = Append(input, x)
  /\ UNCHANGED <<part, pVars>>

\* A pattern grows by a wildcard or by a piece of a name; a tilde before it comes last.
LastSegment == input.segs[Len(input.segs)]
GrowPattern ==
  /\ part[1] = "glob" /\ input # FileNames!bad /\ Len(input.segs) < 4 /\ ~input.home
  /\ \/ \E w \in Wildcards :
          /\ {LastSegment.kind, w.segs[1].kind} \cap {"question", "literal", "slash"} # {}
          /\ input' = FileNames!ConcatPattern(input, w)
     \/ \E s \in Pieces : FileNames!IsWild(LastSegment) /\ input' = FileNames!Concat(input, s)
     \/ input' = FileNames!doTilde(input)
  /\ UNCHANGED <<part, pVars>>

Operate == part[1] = "versions" /\ PNext /\ UNCHANGED <<part, input>>

MCNext == Grow \/ GrowPattern \/ Operate
MCSpec == MCInit /\ [][MCNext]_<<part, input, pVars>>

-----------------------------------------------------------------------------
In(what) == part[1] = what

\* Nothing is lost between a value, its text and its tree: the nodes parse makes tile the
\* source text, good or bad, as a chunk of code and as a filter, a string is parsed back
\* from every form of quoting it, and arguments from the options they were parsed to; what
\* is completed is parsed as what it was taken for.
TextRoundTrips ==
  [][/\ In("source") => \A kind \in {"Chunk", "Filter"} : Syntax!TreeTilesSource(input', kind)
     /\ In("quote") => Syntax!QuoteRoundTrip(input')
     /\ In("arguments") => \A cfg \in SUBSET Opt!Flags :
          Opt!ArgumentsRoundTrip(input', cfg) /\ Opt!CompletionAgrees(input', cfg, 1)]_input

\* An error parse reports is partial iff more input can eliminate it, so that the editor asks
\* for more exactly when that helps: one that is final stays whatever is typed next, and all
\* the partial ones of a text go once what they ask for is typed, with no final one in return
\* (but for an octal number above 255).  Two kinds of errors are exempt, which no input
\* eliminates though they are reported as partial: a list with both elements and pairs, and
\* a bad redirection sign, where they are at the end of the text.
PartialIsExact ==
  [][In("source") => \A kind \in {"Chunk", "Filter"} : Syntax!PartialIsExact(input, input', kind)]_input

\* Arithmetic on numbers of every type is exact over the border of int.
ExactArithmetic ==
  [][In("numbers") /\ Len(input') = 2 => Num!ExactArithmetic(input'[1], input'[2])]_input

\* compare and order put values of all types in order, and indexing, slicing and assoc of
\* lists, strings and maps agree with each other.
ValuesAreCoherent ==
  /\ In("index") =>
       /\ \A i \in Indices : Num!IndexingAgrees(input, i, Num!Nil)
       /\ \A m \in Maps, k \in {A, Num!Nil, one} : Num!MapsAgree(m, k, Num!SmallInt(7))
  /\ [][/\ In("index") => \A i \in Indices : Num!IndexingAgrees(input', i, Num!Nil)
        /\ In("order") => \A opts \in Options : Num!OrderIsOrder(input', opts)]_input

\* Formatting a Markdown document does not change what it means, and the terminal shows all
\* of its text, whatever the width.
MarkdownKeepsMeaning ==
  [][In("inline") \/ In("lines") =>
       LET doc == IF In("lines") THEN input' ELSE Md!SplitLines(input')
       IN  Md!FmtKeepsMeaning(doc, 4) /\ Md!TTYShowsText(doc, 4)]_input

\* A pattern finds the file names it matches and no others.
GlobIsExact ==
  /\ In("glob") => FileNames!GlobIsExact(input)
  /\ [][In("glob") => FileNames!GlobIsExact(input')]_input

\* "Wildcard patterns evaluate to all filenames they match" (language.md).
GlobFindsAll == In("glob") => FileNames!GlobFindsAll(input)
=============================================================================
