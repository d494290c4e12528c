------------------------------- MODULE Getopt -------------------------------
(***************************************************************************)
(* Command-line options: the parser of pkg/getopt, flag:parse-getopt on    *)
(* top of it (pkg/mods/flag/flag.go), and which candidates                 *)
(* edit:complete-getopt offers (pkg/edit/complete_getopt.go).              *)
(*                                                                         *)
(* Arguments and names are sequences of characters.  An option without a   *)
(* short or a long name has "" or <<>> for it.                             *)
(***************************************************************************)
EXTENDS Integers, Sequences, SequencesExt

CONSTANT SpecMaps   \* the options, as flag:parse-getopt and edit:complete-getopt get them

Flags == {"StopAfterDoubleDash", "StopBeforeFirstNonOption", "LongOnly"}
GNU == {"StopAfterDoubleDash"}

-----------------------------------------------------------------------------
(* From the maps to the specs.                                             *)

badSpec == [short |-> "", long |-> <<>>, arity |-> "bad"]

\* specStruct.OptionSpec, and the same checks in complete-getopt.
OptionSpec(m) ==
  IF (m.short = "" /\ m.long = <<>>) \/ (m.argRequired /\ m.argOptional) THEN badSpec
  ELSE [short |-> m.short, long |-> m.long,
        arity |-> IF m.argRequired THEN "required" ELSE IF m.argOptional THEN "optional" ELSE "no"]

Specs == [i \in DOMAIN SpecMaps |-> OptionSpec(SpecMaps[i])]
BadSpecs == \E i \in DOMAIN Specs : Specs[i] = badSpec

-----------------------------------------------------------------------------
(* parse.                                                                  *)

Option(spec, unknown, long, arg) == [spec |-> spec, unknown |-> unknown, long |-> long, arg |-> arg]
Unknown(short, long) == [short |-> short, long |-> long, arity |-> "optional"]

\* The first spec for which P holds, as a sequence of at most one.
First(P(_)) ==
  LET at == {i \in DOMAIN Specs : P(Specs[i])}
  IN  IF at = {} THEN <<>> ELSE <<Specs[CHOOSE i \in at : \A j \in at : i <= j]>>

findShort(r) == First(LAMBDA spec : spec.short = r)

\* Options are returned with whether the last one still needs an argument.
Parsed(opts, needArg) == [opts |-> opts, needArg |-> needArg]

\* A chain of short options, up to the first that takes an argument or is not known: the
\* rest of the text is its argument.
parseShort(s) ==
  LET spec(i) == findShort(s[i])
      plain(i) == spec(i) # <<>> /\ spec(i)[1].arity = "no"
      ends == {i \in DOMAIN s : ~plain(i)}
      k == IF ends = {} THEN Len(s) + 1 ELSE CHOOSE i \in ends : \A j \in ends : i <= j
      chain == [i \in 1..(k - 1) |-> Option(spec(i)[1], FALSE, FALSE, <<>>)]
      rest == SubSeq(s, k + 1, Len(s))
  IN  IF k > Len(s) THEN Parsed(chain, FALSE)
      ELSE IF spec(k) = <<>> THEN Parsed(Append(chain, Option(Unknown(s[k], <<>>), TRUE, FALSE, rest)), FALSE)
      ELSE Parsed(Append(chain, Option(spec(k)[1], FALSE, FALSE, rest)),
                  rest = <<>> /\ spec(k)[1].arity = "required")

\* Mutant: an empty argument after the equal sign counts as missing.
missesArg_empty(spec, s) == spec.arity = "required" /\ (spec.long = s \/ Last(s) = "=")

\* Whether the argument of a long option is still to come.
missesArg(spec, s) == spec.arity = "required" /\ spec.long = s

\* A long option; after an equal sign comes its argument, which may be empty.
parseLong(s) ==
  LET eqs == {i \in DOMAIN s : s[i] = "="}
      eq == IF eqs = {} THEN 0 ELSE CHOOSE i \in eqs : \A j \in eqs : i <= j
      name == IF eq = 0 THEN s ELSE SubSeq(s, 1, eq - 1)
      arg == IF eq = 0 THEN <<>> ELSE SubSeq(s, eq + 1, Len(s))
      found == First(LAMBDA spec : spec.long = s \/ (eq # 0 /\ spec.long = name))
  IN  IF found = <<>> THEN Parsed(<<Option(Unknown("", name), TRUE, TRUE, arg)>>, FALSE)
      ELSE Parsed(<<Option(found[1], FALSE, TRUE, IF found[1].long = s THEN <<>> ELSE arg)>>,
                  missesArg(found[1], s))

Dash == <<"-">>
DoubleDash == <<"-", "-">>
From(s, i) == SubSeq(s, i, Len(s))

\* How an argument that starts with a dash is parsed.
parseOption(arg, cfg) ==
  IF IsPrefix(DoubleDash, arg) THEN parseLong(From(arg, 3))
  ELSE IF "LongOnly" \in cfg THEN parseLong(From(arg, 2))
  ELSE parseShort(From(arg, 2))

\* One round of the loop over the arguments.  opt holds the option that waits for its argument.
parseArg(st, arg, cfg) ==
  IF st.opt # <<>>
  THEN [st EXCEPT !.opts = Append(@, [st.opt[1] EXCEPT !.arg = arg]), !.opt = <<>>]
  ELSE IF st.stopOpt THEN [st EXCEPT !.args = Append(@, arg)]
  ELSE IF "StopAfterDoubleDash" \in cfg /\ arg = DoubleDash THEN [st EXCEPT !.stopOpt = TRUE]
  ELSE IF IsPrefix(Dash, arg) /\ arg \notin {Dash, DoubleDash}
  THEN LET new == parseOption(arg, cfg) IN
       IF new.needArg
       THEN [st EXCEPT !.opts = @ \o Front(new.opts), !.opt = <<Last(new.opts)>>]
       ELSE [st EXCEPT !.opts = @ \o new.opts]
  ELSE [st EXCEPT !.args = Append(@, arg), !.stopOpt = "StopBeforeFirstNonOption" \in cfg]

parse(args, cfg) ==
  FoldLeft(LAMBDA st, arg : parseArg(st, arg, cfg),
           [opts |-> <<>>, args |-> <<>>, opt |-> <<>>, stopOpt |-> FALSE], args)

\* Parse: a missing argument and unknown options are errors.
Parse(args, cfg) ==
  LET p == parse(args, cfg)
  IN  [opts |-> p.opts, args |-> p.args,
       err |-> p.opt # <<>> \/ \E i \in DOMAIN p.opts : p.opts[i].unknown]

\* flag:parse-getopt, which returns the map of every option it has found.
MapOf(spec) == SpecMaps[CHOOSE i \in DOMAIN Specs : Specs[i] = spec]
parseGetopt(args, cfg) ==
  LET p == Parse(args, cfg)
  IN  IF BadSpecs \/ p.err THEN [err |-> TRUE, flags |-> <<>>, args |-> <<>>]
      ELSE [err |-> FALSE, args |-> p.args,
            flags |-> [i \in DOMAIN p.opts |-> [spec |-> MapOf(p.opts[i].spec), arg |-> p.opts[i].arg,
                                                long |-> p.opts[i].long]]]

-----------------------------------------------------------------------------
(* Complete, and complete-getopt.                                          *)

Context(type, option, text) == [type |-> type, option |-> option, text |-> text]

\* What the last argument is, after the others.
Complete(args, cfg) ==
  LET p == parse(Front(args), cfg)
      arg == Last(args)
      new == parseOption(arg, cfg).opts
      long == IsPrefix(DoubleDash, arg) \/ "LongOnly" \in cfg
      name == From(arg, IF IsPrefix(DoubleDash, arg) THEN 3 ELSE 2)
      Result(opts, ctx) == [opts |-> opts, args |-> p.args, ctx |-> ctx]
  IN  IF p.opt # <<>>
      THEN Result(p.opts, Context("OptionArgument", <<[p.opt[1] EXCEPT !.arg = arg]>>, <<>>))
      ELSE IF p.stopOpt THEN Result(p.opts, Context("Argument", <<>>, arg))
      ELSE IF arg = <<>> THEN Result(p.opts, Context("OptionOrArgument", <<>>, <<>>))
      ELSE IF arg = Dash THEN Result(p.opts, Context("AnyOption", <<>>, <<>>))
      ELSE IF ~IsPrefix(Dash, arg) THEN Result(p.opts, Context("Argument", <<>>, arg))
      ELSE IF long /\ \A i \in DOMAIN arg : arg[i] # "=" THEN Result(p.opts, Context("LongOption", <<>>, name))
      ELSE IF long THEN Result(p.opts, Context("OptionArgument", new, <<>>))
      ELSE IF Last(new).spec.arity = "no" THEN Result(p.opts \o new, Context("ChainShortOption", <<>>, <<>>))
      ELSE Result(p.opts \o Front(new), Context("OptionArgument", <<Last(new)>>, <<>>))

\* The options complete-getopt offers, as arguments with their specs.
ShortOpts == {[stem |-> Append(Dash, Specs[i].short), spec |-> Specs[i]] :
                i \in {i \in DOMAIN Specs : Specs[i].short # ""}}
LongOpts(prefix) == {[stem |-> DoubleDash \o Specs[i].long, spec |-> Specs[i]] :
                       i \in {i \in DOMAIN Specs : Specs[i].long # <<>> /\ IsPrefix(prefix, Specs[i].long)}}
completeOptions(ctx) ==
  CASE ctx.type = "AnyOption" -> ShortOpts \cup LongOpts(<<>>)
    [] ctx.type = "LongOption" -> LongOpts(ctx.text)
    [] ctx.type = "ChainShortOption" -> ShortOpts
    [] OTHER -> {}

\* Which of n argument handlers is called, 0 for none; with "..." alone, the index is out of
\* range.
argHandler(parsedArgs, n, variadic) ==
  IF Len(parsedArgs) < n THEN Len(parsedArgs) + 1
  ELSE IF ~variadic THEN 0
  ELSE IF n = 0 THEN -1 ELSE n

-----------------------------------------------------------------------------
\* How a parsed option can be written again.
Written(o) ==
  IF o.long THEN <<DoubleDash \o o.spec.long \o <<"=">> \o o.arg>>
  ELSE IF o.spec.arity = "required" /\ o.arg = <<>> THEN <<Append(Dash, o.spec.short), <<>>>>
  ELSE <<Append(Dash, o.spec.short) \o o.arg>>

\* Arguments that parse mean the same written option by option, with what is not an option at
\* the end, under every configuration.
ArgumentsRoundTrip(args, cfg) ==
  LET p == Parse(args, cfg)
      options == FlattenSeq([i \in DOMAIN p.opts |-> Written(p.opts[i])])
      sep == IF "StopAfterDoubleDash" \in cfg THEN <<DoubleDash>> ELSE <<>>
  IN  ~p.err => parseGetopt(options \o sep \o p.args, cfg) = parseGetopt(args, cfg)

\* What Complete takes the last argument for is what Parse does: typed to its end as it is,
\* or as one of the candidates, it parses as that, after the same options and arguments.
CompletionAgrees(args, cfg, n) ==
  LET c == Complete(args, cfg)
      p == parse(args, cfg)
      with(stem) == LET q == parse(Append(Front(args), stem), cfg) IN q.opts \o q.opt
  IN  /\ c.ctx.type = "OptionArgument" => p.opts \o p.opt = c.opts \o c.ctx.option
      /\ c.ctx.type = "ChainShortOption" => p.opts = c.opts
      /\ c.ctx.type \in {"Argument", "OptionOrArgument"} =>
           /\ p.args = Append(c.args, Last(args)) /\ p.opts = c.opts
           /\ argHandler(c.args, n, TRUE) = IF Len(p.args) < n THEN Len(p.args) ELSE n
      /\ cfg = GNU => \A o \in completeOptions(c.ctx) :
           LET opts == with(o.stem)
           IN  /\ Last(opts).spec = o.spec /\ ~Last(opts).unknown
               /\ c.ctx.type # "ChainShortOption" => Front(opts) = c.opts
=============================================================================
