------------------------------- MODULE Parser -------------------------------
(***************************************************************************)
(* The parser of pkg/parse and its quoting functions.                      *)
(*                                                                         *)
(* A source text is a sequence of characters, and a value (of a string, a  *)
(* variable name...) a sequence of code points, where an invalid byte b is *)
(* -b.  The parser is a function on its state s: the position, the number  *)
(* of reads past the end, the errors, and the node n being built.  A node  *)
(* keeps all its children in order, separators included; the fields of the *)
(* Go types (Form.Head, Primary.Elements...) are the children of a kind.   *)
(***************************************************************************)
EXTENDS Integers, Sequences, FiniteSets

HexDigits == <<"0", "1", "2", "3", "4", "5", "6", "7", "8", "9", "a", "b", "c", "d", "e", "f">>
UpperHexDigits == <<"A", "B", "C", "D", "E", "F">>

\* Characters with their code points; "wide" stands for a printable
\* character beyond ASCII.
CodeTable ==
  {<<HexDigits[i], 47 + i>> : i \in 1 .. 10} \cup {<<HexDigits[i], 86 + i>> : i \in 11 .. 16}
    \cup {<<UpperHexDigits[i], 64 + i>> : i \in 1 .. 6}
    \cup {<<"n", 110>>, <<"r", 114>>, <<"t", 116>>, <<"u", 117>>, <<"v", 118>>, <<"x", 120>>, <<"U", 85>>, <<"?", 63>>, <<" ", 32>>,
          <<"\t", 9>>, <<"\n", 10>>, <<"\r", 13>>, <<"'", 39>>, <<"\"", 34>>, <<"\\", 92>>, <<"$", 36>>,
          <<"*", 42>>, <<"(", 40>>, <<")", 41>>, <<"[", 91>>, <<"]", 93>>, <<"{", 123>>, <<"}", 125>>,
          <<"|", 124>>, <<"&", 38>>, <<";", 59>>, <<"<", 60>>, <<">", 62>>, <<"=", 61>>, <<",", 44>>,
          <<"#", 35>>, <<"^", 94>>, <<"~", 126>>, <<"-", 45>>, <<"_", 95>>, <<":", 58>>, <<".", 46>>,
          <<"/", 47>>, <<"@", 64>>, <<"%", 37>>, <<"+", 43>>, <<"!", 33>>, <<"wide", 233>>}
Chars == {p[1] : p \in CodeTable}
Code == [c \in Chars |-> (CHOOSE p \in CodeTable : p[1] = c)[2]]
CharOf(n) == CHOOSE c \in Chars : Code[c] = n
Values(src, from, to) == [i \in 1 .. to - from |-> Code[src[from + i]]]

(***************************************************************************)
(* Classes of characters.  "eof" is the character past the end.            *)
(***************************************************************************)
allowedInVariableName(r) ==
  r \in {HexDigits[i] : i \in 1 .. 16} \cup {UpperHexDigits[i] : i \in 1 .. 6}
          \cup {"n", "r", "t", "u", "v", "x", "U", "wide", "-", "_", ":", "~"}
allowedInBareword(r, ctx) ==
  \/ allowedInVariableName(r) \/ r \in {".", "/", "\\", "@", "%", "+", "!"}
  \/ ctx \notin {"LHS", "strict"} /\ r = "="
  \/ ctx \notin {"BracedElem", "strict"} /\ r = ","
  \/ ctx = "Cmd" /\ r \in {"<", ">", "*", "^"}
startsPrimary(r, ctx) == r \in {"'", "\"", "$", "?", "*", "(", "[", "{"} \/ allowedInBareword(r, ctx)
startsIndexing(r, ctx) == startsPrimary(r, ctx)
startsCompound(r, ctx) == startsIndexing(r, ctx)
IsInlineWhitespace(r) == r \in {" ", "\t"}
IsWhitespace(r) == IsInlineWhitespace(r) \/ r \in {"\r", "\n"}
startsForm(r) == IsInlineWhitespace(r) \/ startsCompound(r, "Cmd")
startsPipeline(r) == startsForm(r)
startsArray(r) == IsWhitespace(r) \/ startsIndexing(r, "Normal")
isPipelineSep(r) == r \in {"\r", "\n", ";"}
isRedirSign(r) == r \in {"<", ">"}
isBracedSep(r) == r = "," \/ IsWhitespace(r)

(***************************************************************************)
(* The state of the parser.                                                *)
(***************************************************************************)
peek(s) == IF s.pos = Len(s.src) THEN "eof" ELSE s.src[s.pos + 1]
hasPrefix(s, c1, c2) == peek(s) = c1 /\ s.pos + 1 < Len(s.src) /\ s.src[s.pos + 2] = c2
next(s) == IF s.pos = Len(s.src) THEN [s EXCEPT !.overEOF = @ + 1] ELSE [s EXCEPT !.pos = @ + 1]
backup(s) == IF s.overEOF > 0 THEN [s EXCEPT !.overEOF = @ - 1] ELSE [s EXCEPT !.pos = @ - 1]
errorp(s, from, e) ==
  [s EXCEPT !.errors = Append(@, [from |-> from, message |-> e, partial |-> from = Len(s.src)])]
error(s, e) == errorp(s, s.pos, e)

node(kind, from) == [kind |-> kind, from |-> from, to |-> from, children |-> <<>>, type |-> "none", value |-> <<>>]
addChild(s, ch) == [s EXCEPT !.n.children = Append(@, ch)]
SetType(s, t) == [s EXCEPT !.n.type = t]
SetValue(s, v) == [s EXCEPT !.n.value = v]

addSep_fromNode(s) ==
  IF s.n.from < s.pos THEN addChild(s, [node("Sep", s.n.from) EXCEPT !.to = s.pos]) ELSE s

\* The text since the last child becomes a separator.
addSep(s) ==
  LET ch    == s.n.children
      begin == IF ch # <<>> THEN ch[Len(ch)].to ELSE s.n.from
  IN  IF begin < s.pos THEN addChild(s, [node("Sep", begin) EXCEPT !.to = s.pos]) ELSE s

parseSep(s, sep) == IF peek(s) = sep THEN addSep(next(s)) ELSE s
\* parseSep that reports an error if the separator is missing.
NeedSep(s, sep, e) == IF peek(s) = sep THEN parseSep(s, sep) ELSE error(s, e)

RECURSIVE SkipComment(_)
SkipComment(s) == IF peek(s) \in {"eof", "\r", "\n"} THEN s ELSE SkipComment(next(s))

\* A line continuation: what follows the ^.
AfterCaret(s) ==
  CASE peek(s) = "\r" -> LET t == next(s) IN IF peek(t) = "\n" THEN next(t) ELSE t
    [] peek(s) = "\n" -> next(s)
    [] OTHER          -> error(s, "newline")

RECURSIVE Spaces(_, _)
Spaces(s, newlines) ==
  LET r == peek(s)
  IN  CASE IsInlineWhitespace(r) \/ (newlines /\ IsWhitespace(r)) -> Spaces(next(s), newlines)
        [] r = "#" -> Spaces(SkipComment(next(s)), newlines)
        [] r = "^" /\ peek(next(s)) \in {"\r", "\n", "eof"} -> Spaces(AfterCaret(next(s)), newlines)
        [] OTHER -> s
parseSpacesInner(s, newlines) == addSep(Spaces(s, newlines))
parseSpaces(s) == parseSpacesInner(s, FALSE)
parseSpacesAndNewlines(s) == parseSpacesInner(s, TRUE)

(***************************************************************************)
(* Strings and variables.                                                  *)
(***************************************************************************)
RECURSIVE singleQuotedInner(_)
singleQuotedInner_atStart(s) ==
  CASE peek(s) = "eof" -> errorp(next(s), s.n.from, "string not terminated")
    [] peek(s) = "'" /\ peek(next(s)) = "'" ->
         singleQuotedInner(SetValue(next(next(s)), Append(s.n.value, Code["'"])))
    [] peek(s) = "'" -> next(s)
    [] OTHER -> singleQuotedInner(SetValue(next(s), Append(s.n.value, Code[peek(s)])))

\* Two quotes stand for one; the end of the text is an error there.
singleQuotedInner(s) ==
  CASE peek(s) = "eof" -> error(next(s), "string not terminated")
    [] peek(s) = "'" /\ peek(next(s)) = "'" ->
         singleQuotedInner(SetValue(next(next(s)), Append(s.n.value, Code["'"])))
    [] peek(s) = "'" -> next(s)
    [] OTHER -> singleQuotedInner(SetValue(next(s), Append(s.n.value, Code[peek(s)])))

doubleEscape == {<<"a", 7>>, <<"b", 8>>, <<"f", 12>>, <<"n", 10>>, <<"r", 13>>, <<"t", 9>>, <<"v", 11>>,
                 <<"\\", 92>>, <<"\"", 34>>, <<"e", 27>>}
DigitsFrom == {<<HexDigits[i], i - 1>> : i \in 1 .. 16} \cup {<<UpperHexDigits[i], 9 + i>> : i \in 1 .. 6}
hexToDigit(r) == IF \E p \in DigitsFrom : p[1] = r THEN (CHOOSE p \in DigitsFrom : p[1] = r)[2] ELSE -1
ByteValue(b) == IF b % 256 < 128 THEN b % 256 ELSE -(b % 256)

\* Reads up to n digits of a base; s.num accumulates.
RECURSIVE Digits(_, _, _, _)
Digits(s, n, base, e) ==
  LET d == hexToDigit(peek(s))
  IN  IF n = 0 THEN s
      ELSE IF d \in 0 .. base - 1 THEN Digits([next(s) EXCEPT !.num = @ * base + d], n - 1, base, e)
      ELSE error(backup(next(s)), e)

\* \c and \^: a control character.
ControlEscape(s) ==
  LET c == IF peek(s) = "eof" THEN -1 ELSE Code[peek(s)]
      t == IF c < 63 \/ c > 95 THEN next(error(backup(next(s)), "control")) ELSE next(s)
  IN  SetValue(t, Append(t.n.value, IF c % 256 = 63 THEN 127 ELSE ByteValue(c - 64)))

\* \x, \u and \U: two, four or eight hexadecimal digits.
HexEscape(s, r) ==
  LET t == Digits([s EXCEPT !.num = 0], CASE r = "x" -> 2 [] r = "u" -> 4 [] r = "U" -> 8, 16, "hex digit")
  IN  SetValue(t, Append(t.n.value, IF r = "x" THEN ByteValue(t.num) ELSE t.num))

\* Three octal digits, the first of which has been read.
OctEscape(s, r) ==
  LET t == Digits([s EXCEPT !.num = hexToDigit(r)], 2, 8, "octal digit")
  IN  IF t.num <= 255 THEN SetValue(t, Append(t.n.value, ByteValue(t.num)))
      ELSE errorp(t, t.pos - 4, "below 256")

Escape(s) ==
  LET r == peek(s)
      t == next(s)
  IN  CASE r \in {"c", "^"} -> ControlEscape(t)
        [] r \in {"x", "u", "U"} -> HexEscape(t, r)
        [] hexToDigit(r) \in 0 .. 7 -> OctEscape(t, r)
        [] \E p \in doubleEscape : p[1] = r ->
             SetValue(t, Append(t.n.value, (CHOOSE p \in doubleEscape : p[1] = r)[2]))
        [] OTHER -> next(error(backup(t), "invalid escape sequence"))

RECURSIVE doubleQuotedInner(_)
doubleQuotedInner(s) ==
  CASE peek(s) = "eof" -> error(next(s), "string not terminated")
    [] peek(s) = "\"" -> next(s)
    [] peek(s) = "\\" -> doubleQuotedInner(Escape(next(s)))
    [] OTHER -> doubleQuotedInner(SetValue(next(s), Append(s.n.value, Code[peek(s)])))

RECURSIVE VariableName(_), Bareword(_, _), Stars(_)
VariableName(s) == IF allowedInVariableName(peek(s)) THEN VariableName(next(s)) ELSE s
Bareword(s, ctx) == IF allowedInBareword(peek(s), ctx) THEN Bareword(next(s), ctx) ELSE s
Stars(s) == IF peek(s) = "*" THEN Stars(next(s)) ELSE s

SourceValue(s, from) == SetValue(s, Values(s.src, from, s.pos))

variable(s0) ==
  LET s == next(SetType(s0, "Variable"))
      r == peek(s)
      t == next(s)
  IN  CASE r = "eof" -> next(error(backup(t), "variable name"))
        [] r = "'"   -> singleQuotedInner(t)
        [] r = "\""  -> doubleQuotedInner(t)
        [] OTHER     ->
             SourceValue(VariableName(IF ~allowedInVariableName(r) /\ r # "@" THEN error(backup(t), "variable name")
                                      ELSE t), s.n.from + 1)

bareword(s, ctx) == SourceValue(Bareword(SetType(s, "Bareword"), ctx), s.n.from)
starWildcard(s) == SourceValue(Stars(SetType(s, "Wildcard")), s.n.from)
questionWildcard(s) == SourceValue(next(SetType(s, "Wildcard")), s.n.from)

(***************************************************************************)
(* Nodes.  parse(kind, ctx, s) parses a node and adds it to the one being  *)
(* built.                                                                  *)
(***************************************************************************)
RECURSIVE parse(_, _, _)

LastChild(s) == s.n.children[Len(s.n.children)]
OfKind(s, kind) == SelectSeq(s.n.children, LAMBDA ch : ch.kind = kind)

\* parseSeps: separators of pipelines and spaces; s.num counts the former.
RECURSIVE parseSeps(_)
parseSeps(s) ==
  LET r == peek(s)
  IN  IF isPipelineSep(r) THEN parseSeps([parseSep(s, r) EXCEPT !.num = @ + 1])
      ELSE IF IsInlineWhitespace(r) \/ r = "#" THEN parseSeps(parseSpaces(s))
      ELSE s

RECURSIVE Chunk(_)
Chunk(s) ==
  IF ~startsPipeline(peek(s)) THEN s
  ELSE LET t == parseSeps([parse("Pipeline", "Normal", s) EXCEPT !.num = 0])
       IN  IF t.num = 0 THEN t ELSE Chunk(t)

RECURSIVE Pipeline(_)
Pipeline(s) ==
  IF peek(s) = "|"
  THEN LET t == parseSpacesAndNewlines(parseSep(s, "|"))
       IN  IF ~startsForm(peek(t)) THEN error(t, "form") ELSE Pipeline(parse("Form", "Normal", t))
  ELSE LET t == parseSpaces(s)
       IN  IF peek(t) = "&" THEN parseSpaces(SetType(addSep(next(t)), "Background")) ELSE t

\* The arguments, options and redirections of a form.  An & that starts no
\* pair is left for the pipeline.
RECURSIVE Form(_)
Form(s) ==
  LET r == peek(s)
      t == parse("Compound", "Normal", s)
  IN  CASE r = "&" /\ ~startsCompound(peek(next(s)), "LHS") -> s
        [] r = "&" -> Form(parseSpaces(parse("MapPair", "Normal", s)))
        [] r # "&" /\ startsCompound(r, "Normal") ->
             Form(parseSpaces(IF isRedirSign(peek(t)) THEN parse("Redir", "Left", t) ELSE t))
        [] isRedirSign(r) -> Form(parseSpaces(parse("Redir", "NoLeft", s)))
        [] OTHER -> s

RECURSIVE RedirSign(_)
RedirSign(s) == IF isRedirSign(peek(s)) THEN RedirSign(next(s)) ELSE s

Redir(s) ==
  LET signed == RedirSign(s)
      sign   == SubSeq(s.src, s.pos + 1, signed.pos)
      mode   == CASE sign = <<"<">> -> "Read" [] sign = <<">">> -> "Write" [] sign = <<">", ">">> -> "Append"
                  [] sign = <<"<", ">">> -> "ReadWrite" [] OTHER -> "BadRedirMode"
      spaced == parseSpaces(addSep(SetType(IF mode = "BadRedirMode" THEN error(signed, "bad redir sign") ELSE signed, mode)))
      isFd   == peek(spaced) = "&"
      t      == parse("Compound", "Normal", parseSep(spaced, "&"))
  IN  IF LastChild(t).children = <<>> THEN error(t, IF isFd THEN "fd" ELSE "filename") ELSE t

\* Arguments and pairs, of a filter, a lambda or a list; newlines are spaces
\* except in a filter.
RECURSIVE Items(_, _)
Items(s, newlines) ==
  LET r == peek(s)
  IN  CASE r = "&" -> Items(parseSpacesInner(parse("MapPair", "Normal", s), newlines), newlines)
        [] r # "&" /\ startsCompound(r, "Normal") ->
             Items(parseSpacesInner(parse("Compound", "Normal", s), newlines), newlines)
        [] OTHER -> s
Filter(s) == Items(parseSpaces(s), FALSE)

RECURSIVE Compound(_, _)
Compound(s, ctx) == IF startsIndexing(peek(s), ctx) THEN Compound(parse("Indexing", ctx, s), ctx) ELSE s

\* A tilde is special only as the first part of a compound.
tilde(s) ==
  LET base == [node("Primary", s.pos) EXCEPT !.to = s.pos + 1, !.type = "Tilde", !.value = <<Code["~"]>>]
  IN  IF peek(s) = "~" THEN addChild(next(s), [base EXCEPT !.kind = "Indexing", !.type = "none", !.children = <<base>>])
      ELSE s

RECURSIVE Indexing(_)
Indexing(s) ==
  IF peek(s) # "[" THEN s
  ELSE LET t == parseSep(s, "[")
           u == IF ~startsArray(peek(t)) /\ peek(t) # "]" THEN error(t, "spaced") ELSE t
           v == parse("Array", "Normal", u)
       IN  IF peek(v) = "]" THEN Indexing(parseSep(v, "]")) ELSE error(v, "']'")

RECURSIVE Array(_)
Array(s) ==
  IF startsCompound(peek(s), "Normal") THEN Array(parseSpacesAndNewlines(parse("Compound", "Normal", s))) ELSE s

exitusCapture(s) ==
  NeedSep(parse("Chunk", "Normal", SetType(addSep(next(next(s))), "ExceptionCapture")), ")", "')'")
outputCapture(s) == NeedSep(parse("Chunk", "Normal", parseSep(SetType(s, "OutputCapture"), "(")), ")", "')'")

\* The items of a list or map, up to a lone & (then num is 1).
RECURSIVE ListItems(_)
ListItems(s) ==
  LET r == peek(s)
  IN  CASE r = "&" /\ ~startsCompound(peek(next(s)), "LHS") ->
             [parseSpacesAndNewlines(addSep(next(s))) EXCEPT !.num = 1]
        [] r = "&" -> ListItems(parseSpacesAndNewlines(parse("MapPair", "Normal", s)))
        [] r # "&" /\ startsCompound(r, "Normal") -> ListItems(parseSpacesAndNewlines(parse("Compound", "Normal", s)))
        [] OTHER -> [s EXCEPT !.num = 0]

lbracket(s) ==
  LET items == ListItems(parseSpacesAndNewlines(parseSep(s, "[")))
      isMap == items.num = 1 \/ OfKind(items, "MapPair") # <<>>
      t     == NeedSep(items, "]", "']'")
  IN  IF ~isMap THEN SetType(t, "List")
      ELSE SetType(IF OfKind(items, "Compound") # <<>> THEN error(t, "both list elements and map pairs") ELSE t, "Map")

\* A lambda, after its brace: parameters between bars, and a chunk.
lambda(s0) ==
  LET s == parseSpacesAndNewlines(SetType(s0, "Lambda"))
      t == IF peek(s) = "|"
           THEN NeedSep(Items(parseSpacesAndNewlines(parseSep(s, "|")), TRUE), "|", "'|'")
           ELSE s
  IN  NeedSep(parse("Chunk", "Normal", t), "}", "'}'")

RECURSIVE Braced(_)
Braced(s) ==
  IF isBracedSep(peek(s))
  THEN Braced(parse("Compound", "BracedElem",
                    parseSpacesAndNewlines(parseSep(parseSpacesAndNewlines(s), ","))))
  ELSE NeedSep(s, "}", "',' or '}'")
lbrace(s) ==
  LET t == parseSep(s, "{")
      r == peek(t)
  IN  IF r \in {";", "\r", "\n", "|"} \/ IsInlineWhitespace(r) THEN lambda(t)
      ELSE Braced(parse("Compound", "BracedElem", SetType(t, "Braced")))

Primary(s, ctx) ==
  LET r == peek(s)
  IN  CASE ~startsPrimary(r, ctx) -> error(s, "primary")
        [] allowedInBareword(r, ctx) -> bareword(s, ctx)
        [] r = "'"  -> singleQuotedInner(next(SetType(s, "SingleQuoted")))
        [] r = "\"" -> doubleQuotedInner(next(SetType(s, "DoubleQuoted")))
        [] r = "$"  -> variable(s)
        [] r = "*" /\ ctx # "Cmd" -> starWildcard(s)
        [] r = "?"  -> IF hasPrefix(s, "?", "(") THEN exitusCapture(s) ELSE questionWildcard(s)
        [] r = "("  -> outputCapture(s)
        [] r = "["  -> lbracket(s)
        [] r = "{"  -> lbrace(s)

MapPair(s) ==
  LET key == parse("Compound", "LHS", parseSep(s, "&"))
      t   == IF LastChild(key).children = <<>> THEN error(key, "compound") ELSE key
  IN  IF peek(t) = "=" THEN parse("Compound", "Normal", parseSpacesAndNewlines(parseSep(t, "="))) ELSE t

Body(kind, ctx, s) ==
  CASE kind = "Chunk"    -> Chunk(parseSeps(s))
    [] kind = "Pipeline" -> Pipeline(parse("Form", "Normal", s))
    [] kind = "Form"     -> Form(parseSpaces(parse("Compound", "Cmd", s)))
    [] kind = "Redir"    -> Redir(s)
    [] kind = "Filter"   -> Filter(s)
    [] kind = "Compound" -> Compound(tilde(s), ctx)
    [] kind = "Indexing" -> Indexing(parse("Primary", ctx, s))
    [] kind = "Array"    -> Array(parseSpacesAndNewlines(s))
    [] kind = "Primary"  -> Primary(s, ctx)
    [] kind = "MapPair"  -> MapPair(s)

\* A redirection with a left part takes the compound its form has just
\* parsed, and starts where that does.
parse(kind, ctx, s) ==
  LET left   == ctx = "Left"
      kids   == s.n.children
      start  == IF left THEN [node(kind, LastChild(s).from) EXCEPT !.children = <<LastChild(s)>>] ELSE node(kind, s.pos)
      parent == IF left THEN [s.n EXCEPT !.children = SubSeq(kids, 1, Len(kids) - 1)] ELSE s.n
      b      == Body(kind, ctx, [s EXCEPT !.n = start])
  IN  [b EXCEPT !.n = [parent EXCEPT !.children = Append(@, [b.n EXCEPT !.to = b.pos])]]

done(s) == IF s.pos # Len(s.src) THEN error(s, "unexpected rune") ELSE s

\* ParseAs for a kind of node (in a context): its tree and errors.
ParseAs(src, kind, ctx) ==
  LET s == done(parse(kind, ctx, [src |-> src, pos |-> 0, overEOF |-> 0, errors |-> <<>>,
                                  n |-> node("none", 0), num |-> 0]))
  IN  [root |-> s.n.children[1], errors |-> s.errors]

(***************************************************************************)
(* Node paths (pkg/parse/np): the leaf at a position.                      *)
(***************************************************************************)
RECURSIVE find(_, _, _)
find(n, p, preferLeft) ==
  LET at == {i \in DOMAIN n.children :
               LET c == n.children[i]
               IN  (c.from <= p /\ p < c.to) \/ (preferLeft /\ p = c.to)}
  IN  IF n.children = <<>> THEN <<n>>
      ELSE IF at = {} THEN <<>>
      ELSE LET path == find(n.children[CHOOSE i \in at : \A j \in at : i <= j], p, preferLeft)
           IN  IF path = <<>> THEN <<>> ELSE Append(path, n)

(***************************************************************************)
(* Quoting.                                                                *)
(***************************************************************************)
IsPrint(n) == n \in 32 .. 126 \/ n \in {233, 65533}
ReplacementChar == 65533
ForceDouble(v) == \E i \in DOMAIN v : v[i] < 0 \/ v[i] = ReplacementChar \/ ~IsPrint(v[i])

RECURSIVE quoteSingleInner(_), rtohex(_, _), quoteDoubleInner(_)
quoteSingleInner(v) ==
  IF v = <<>> THEN <<>>
  ELSE (IF v[1] = Code["'"] THEN <<"'", "'">> ELSE <<CharOf(v[1])>>) \o quoteSingleInner(Tail(v))
quoteSingle(v) == <<"'">> \o quoteSingleInner(v) \o <<"'">>

rtohex(n, w) == IF w = 0 THEN <<>> ELSE Append(rtohex(n \div 16, w - 1), HexDigits[(n % 16) + 1])
QuoteRune(n) ==
  CASE n < 0 -> <<"\\", "x">> \o rtohex(-n, 2)
    [] \E p \in doubleEscape : p[2] = n -> <<"\\", (CHOOSE p \in doubleEscape : p[2] = n)[1]>>
    [] IsPrint(n) /\ n # ReplacementChar -> <<CharOf(n)>>
    [] n >= 0 /\ n <= 127 -> <<"\\", "x">> \o rtohex(n, 2)
    [] n > 127 /\ n <= 65535 -> <<"\\", "u">> \o rtohex(n, 4)
    [] n > 65535 -> <<"\\", "U">> \o rtohex(n, 8)
quoteDoubleInner(v) == IF v = <<>> THEN <<>> ELSE QuoteRune(v[1]) \o quoteDoubleInner(Tail(v))
quoteDouble(v) == <<"\"">> \o quoteDoubleInner(v) \o <<"\"">>

Bare(v) == [i \in DOMAIN v |-> CharOf(v[i])]

quoteAs_tildeAllowed(v, q, ctx) ==
  IF q = "DoubleQuoted" \/ ForceDouble(v) THEN quoteDouble(v)
  ELSE IF v # <<>> /\ q = "Bareword" /\ \A i \in DOMAIN v : allowedInBareword(CharOf(v[i]), ctx) THEN Bare(v)
  ELSE quoteSingle(v)

quoteAs(v, q, ctx) ==
  IF q = "DoubleQuoted" \/ ForceDouble(v) THEN quoteDouble(v)
  ELSE IF /\ v # <<>> /\ q = "Bareword"
          /\ v[1] # Code["~"]
          /\ \A i \in DOMAIN v : allowedInBareword(CharOf(v[i]), ctx)
       THEN Bare(v)
  ELSE quoteSingle(v)

Quote(v) == quoteAs(v, "Bareword", "strict")
QuoteCommandName(v) == quoteAs(v, "Bareword", "Cmd")
QuoteVariableName(v) ==
  CASE v = <<>> -> <<"'", "'">>
    [] v # <<>> /\ ForceDouble(v) -> quoteDouble(v)
    [] v # <<>> /\ ~ForceDouble(v) ->
         IF \A i \in DOMAIN v : allowedInVariableName(CharOf(v[i])) THEN Bare(v) ELSE quoteSingle(v)

(***************************************************************************)
(* Properties, of a text and of a value.                                   *)
(***************************************************************************)
RECURSIVE Tiles(_)
Tiles(n) ==
  LET ch == n.children
  IN  /\ n.from <= n.to
      /\ ch # <<>> => /\ ch[1].from = n.from /\ ch[Len(ch)].to = n.to
                      /\ \A i \in 1 .. Len(ch) - 1 : ch[i].to = ch[i + 1].from
                      /\ \A i \in DOMAIN ch : Tiles(ch[i])
      /\ n.to > n.from => ch # <<>> \/ n.kind \in {"Sep", "Primary"}

\* Whatever the text, good or bad, the children of every node cover its
\* source text without gap or overlap, so that a leaf is found for every
\* position; and a text without errors is parsed to its end.
TreeTilesSource(src, kind) ==
  LET p == ParseAs(src, kind, "Normal")
  IN  /\ Tiles(p.root)
      /\ p.root.from = 0
      /\ p.errors = <<>> => p.root.to = Len(src)
      /\ \A i \in 0 .. p.root.to - 1 : find(p.root, i, FALSE) # <<>>
      /\ p.root.to > 0 => find(p.root, p.root.to, TRUE) # <<>>

Errors(src, kind, partial) ==
  SelectSeq(ParseAs(src, kind, "Normal").errors, LAMBDA e : e.partial = partial)
FinalErrors(src, kind) == Errors(src, kind, FALSE)

\* What to type to do what the message of an error asks for.
Asked(message) ==
  CASE message = "string not terminated" -> {"'", "\""}
    [] message = "')'" -> {")"} [] message \in {"']'", "spaced"} -> {"]"} [] message = "'|'" -> {"|"}
    [] message \in {"'}'", "',' or '}'"} -> {"}"} [] message = "newline" -> {"\n"}
    [] message \in {"hex digit", "octal digit"} -> {"1"} [] message = "control" -> {"?"}
    [] OTHER -> {"a"}

\* Partial errors that nothing eliminates, though diag.Error.Partial should then be false: a
\* list with pairs, which is reported at its end, and a bad sign at the end of the text.
NeverHelped == {"both list elements and map pairs", "bad redir sign"}

\* Up to n characters, each the one the first of the partial errors asks for, eliminate them
\* all and add no error that is final, but for an octal number above 255, of which the digits
\* that are missing are asked for even if none of them makes a byte.
Without(message, errors) == SelectSeq(errors, LAMBDA e : e.message # message)
RECURSIVE CanBeCompleted(_, _, _)
CanBeCompleted(src, kind, n) ==
  LET asking == Errors(src, kind, TRUE)
  IN  \/ asking = <<>>
      \/ n > 0 /\ \E c \in Asked(asking[1].message) :
           /\ Without("below 256", FinalErrors(Append(src, c), kind)) = Without("below 256", FinalErrors(src, kind))
           /\ CanBeCompleted(Append(src, c), kind, n - 1)

\* An error is partial iff there is a text that eliminates it when it is appended (the comment
\* of diag.Error.Partial), but for the two messages above: an error that is final is still
\* there in a longer text, and doing what the partial ones ask for leads to a text without any.
PartialIsExact(src, longer, kind) ==
  LET asking == Errors(src, kind, TRUE)
      final  == FinalErrors(src, kind)
  IN  /\ \A i \in DOMAIN final : \E j \in DOMAIN FinalErrors(longer, kind) : FinalErrors(longer, kind)[j] = final[i]
      /\ (\A i \in DOMAIN asking : asking[i].message \notin NeverHelped)
           => CanBeCompleted(src, kind, 2 * Len(src) + 1)

\* The only primary of a compound, or none.
OnlyPrimary(n) ==
  IF Len(n.children) = 1 /\ Len(n.children[1].children) = 1 THEN <<n.children[1].children[1]>> ELSE <<>>

\* A quoted value is parsed back to itself wherever it may be used: as an
\* argument, a command, a key, an element of braces or a variable name.
QuoteRoundTrip(v) ==
  LET Back(text, ctx) ==
        LET p    == ParseAs(text, "Compound", ctx)
            only == OnlyPrimary(p.root)
        IN  /\ p.errors = <<>> /\ p.root.to = Len(text) /\ Len(only) = 1
            /\ only[1].value = v /\ only[1].children = <<>>
            /\ only[1].type \in {"Bareword", "SingleQuoted", "DoubleQuoted"}
      name == ParseAs(<<"$">> \o QuoteVariableName(v), "Primary", "Normal")
  IN  /\ \A ctx \in {"Normal", "Cmd", "LHS", "BracedElem"}, q \in {"Bareword", "SingleQuoted", "DoubleQuoted"} :
           Back(quoteAs(v, q, "strict"), ctx)
      /\ Back(QuoteCommandName(v), "Cmd")
      /\ name.errors = <<>> /\ name.root.type = "Variable" /\ name.root.value = v
=============================================================================
