----------------------------- MODULE MCLanguage -----------------------------
(***************************************************************************)
(* Sessions of up to three chunks, each compiled and evaluated in the      *)
(* global namespace the ones before it have left.                          *)
(***************************************************************************)
EXTENDS Interp

CONSTANT Input      \* how often the builtin more outputs $true

VARIABLE session    \* the chunks evaluated

MCBuiltins ==
  {"nop~", "put~", "fail~", "return~", "break~", "continue~", "defer~", "each~", "eval~", "more~"}
MCFnNames == MCBuiltins \cup {"f~", "g~"}
MCNsNames == {"a:", "b:"}
MCEnvNames == {"E:V"}
MCBuiltinFns ==
  [n \in MCBuiltins |->
    [low  |-> CASE n \in {"fail~", "defer~", "eval~"} -> 1 [] n = "each~" -> 2 [] OTHER -> 0,
     high |-> CASE n \in {"fail~", "defer~", "eval~"} -> 1 [] n = "each~" -> 2
                [] n \in {"nop~", "put~"} -> 9 [] OTHER -> 0,
     fns  |-> IF n \in {"defer~", "each~"} THEN {1} ELSE {}]]

(***************************************************************************)
(* Programs.                                                               *)
(***************************************************************************)
Str(s) == <<"lit", <<"s", s>> >>
V(k) == <<"var", <<k>> >>
Lv(k) == << <<k>>, <<>> >>
Lhs(lvs) == [lvs |-> lvs, rest |-> 0]
Elem(k, i) == << <<k>>, << <<"lit", <<"i", i>> >> >> >>
Var(k, e) == <<"var", Lhs(<<Lv(k)>>), <<e>> >>
Set(k, e) == <<"set", Lhs(<<Lv(k)>>), <<e>> >>
Tmp(k, e) == <<"tmp", Lhs(<<Lv(k)>>), <<e>> >>
Del(k) == <<"del", <<Lv(k)>> >>
Cmd(n, args) == <<"cmd", n, args, <<>> >>
PutV(k) == Cmd("put~", <<V(k)>>)
Fail == Cmd("fail~", <<Str("oops")>>)
Lam(b) == <<"lambda", <<>>, 0, <<>>, <<>>, b>>
Lam1(k, b) == <<"lambda", <<k>>, 0, <<>>, <<>>, b>>
Do(b) == <<"call", Lam(b), <<>>, <<>> >>
Do1(k, b, e) == <<"call", Lam1(k, b), <<e>>, <<>> >>
Fn(k, b) == <<"fn", k, Lam(b)>>
More == <<"capture", <<Cmd("more~", <<>>)>> >>
ListOf(es) == <<"list", es>>
Code(b) == <<"lit", <<"code", b>> >>

\* Bodies that use, shadow, delete and capture x.
Inner ==
  { <<PutV("x")>>,
    <<Set("x", Str("3"))>>,
    <<Var("x", Str("3")), PutV("x")>>,
    <<Del("x")>>,
    <<Var("x", Str("3")), Del("x"), PutV("x")>>,
    <<PutV("x"), Var("x", V("x")), Do(<<PutV("x"), Set("x", Str("4"))>>), PutV("x")>>,
    <<Do1("x", <<PutV("x")>>, V("x")), PutV("x")>>,
    <<Do1("x", <<Var("x", Str("6")), Do(<<PutV("x")>>)>>, Str("5"))>>,
    <<Fn("f~", <<PutV("x"), Cmd("return~", <<>>)>>), Var("x", Str("7")), Cmd("f~", <<>>)>>,
    <<Fn("f~", <<Var("y", V("x")),
                 <<"if", <<More>>, <<Lam(<<Cmd("f~", <<>>), Set("y", Str("8"))>>)>>, <<>> >>,
                 PutV("y")>>),
      Cmd("f~", <<>>)>>,
    <<Cmd("eval~", <<Code(<<PutV("x"), Set("x", Str("9")), Do(<<PutV("x")>>)>>)>>), PutV("x")>>,
    <<Cmd("defer~", <<Lam(<<PutV("x"), Fail>>)>>), Tmp("x", Str("10"))>>,
    <<Tmp("x", Str("11")), Do(<<Tmp("x", Str("12")), Cmd("break~", <<>>)>>)>>,
    <<Fail>> }

Around(b) ==
  { b,
    <<Do(b)>>,
    <<Do(<<PutV("x"), Do(b), PutV("x")>>), PutV("x")>>,
    <<Fn("g~", b), Cmd("g~", <<>>)>>,
    <<Do1("x", b, Str("p"))>>,
    << <<"if", <<More, V("x")>>, <<Lam(b), Lam(<<PutV("x")>>)>>, <<Lam(b)>> >> >>,
    << <<"while", More, Lam(b), <<Lam(<<PutV("x")>>)>> >>, PutV("x")>>,
    << <<"for", Lv("x"), ListOf(<<Str("i"), Str("j")>>), Lam(b), <<>> >>, PutV("x")>>,
    << <<"for", Lv("y"), ListOf(<<>>), Lam(<<>>), <<Lam(b)>> >> >>,
    << <<"try", Lam(b), <<Lv("x")>>, <<Lam(<<PutV("x")>>)>>, <<Lam(<<PutV("x")>>)>>,
         <<Lam(<<Var("x", Str("q"))>>)>> >> >>,
    << <<"try", Lam(b), <<>>, <<>>, <<>>, <<Lam(<<PutV("x")>>)>> >> >>,
    <<Cmd("each~", <<Lam1("x", b), ListOf(<<V("x"), Str("k")>>)>>)>>,
    <<Var("y", <<"capture", b>>), Var("x", <<"exc", b>>)>>,
    <<Var("f~", Lam(b)), Var("x", Str("r")), Cmd("f~", <<>>)>> }

Others ==
  { << <<"var", [lvs |-> <<Lv("x"), Lv("y")>>, rest |-> 2], <<Str("1"), Str("2"), Str("3")>> >> >>,
    <<Var("y", ListOf(<<Str("1"), Str("2")>>)),
      <<"set", Lhs(<<Elem("y", 0), Elem("y", 1)>>), <<Str("8"), Str("9")>> >>,
      Do(<< <<"tmp", Lhs(<<Elem("y", 0)>>), <<Str("7")>> >>, PutV("y")>>),
      <<"set", Lhs(<<Elem("y", 5)>>), <<Str("0")>> >> >>,
    << <<"declare", Lhs(<<Lv("y")>>)>>, <<"coalesce", <<V("y"), V("x")>> >>,
       <<"and", <<V("x"), V("y"), More>> >>, <<"or", <<V("y"), V("x"), More>> >> >>,
    << <<"call", <<"lambda", <<"y">>, 1, <<"x">>, <<V("x")>>, <<PutV("x"), PutV("y")>> >>,
         <<Str("1"), Str("2")>>, << <<"x", Str("o")>> >> >>,
       <<"call", <<"lambda", <<>>, 0, <<"x">>, <<V("x")>>, <<PutV("x")>> >>, <<>>, <<>> >>,
       <<"call", Lam(<<>>), <<>>, << <<"z", Str("o")>> >> >> >>,
    << <<"while", <<"capture", <<Fn("f~", <<>>), Del("f~"), Cmd("more~", <<>>)>> >>, Lam(<<>>), <<>> >> >>,
    << <<"while", <<"capture", <<Var("x", Str("1")), Del("x"), Cmd("more~", <<>>)>> >>, Lam(<<>>), <<>> >> >>,
    << <<"pragma", FALSE>>, Cmd("g~", <<>>) >>, <<Cmd("g~", <<>>)>>,
    << Set("E:V", Str("e")), Do(<<Tmp("E:V", Str("t")), PutV("E:V")>>) >>,
    << Do(<<Tmp("E:V", Str("t")), Fail>>) >>, <<Del("E:V")>>, <<Set("E:V", ListOf(<<>>))>>,
    << <<"try", Lam(<<Fail>>), <<Lv("f~")>>, <<Lam(<<>>)>>, <<>>, <<Lam(<<PutV("x")>>)>> >> >>,
    << <<"with", << <<Lhs(<<Lv("x")>>), <<Str("1")>> >>, <<Lhs(<<Lv("x")>>), <<V("x"), V("x")>> >> >>, Lam(<<>>)>> >>,
    << <<"var", Lhs(<<Lv("y")>>), << <<"lit", <<"map", [k \in {<<"s", "k">>} |-> <<"s", "v">>]>> >> >> >>,
       <<"del", << << <<"y">>, <<Str("k")>> >> >> >>, Cmd("put~", << <<"index", V("y"), <<Str("k")>> >> >>)>>,
    << <<"use", "a", "a:">>, <<"cmd", "put~", << <<"var", <<"a:", "x">> >> >>, <<>> >> >>,
    << <<"use", "b", "b:">>, Do(<<Cmd("put~", << <<"var", <<"b:", "x">> >> >>)>>)>>,
    << <<"use", "c", "a:">> >>,
    << Fn("g~", <<PutV("x")>>), Del("x") >>,
    << Var("y", Lam(<<PutV("x")>>)), <<"call", V("y"), <<>>, <<>> >> >> }

First == {<<Var("x", Str("0"))>>,
          <<Var("x", Str("0")), Fn("f~", <<PutV("x"), Set("x", Str("s"))>>)>>,
          <<Fn("g~", <<Var("x", Str("0")), Cmd("eval~", <<Code(<<PutV("x")>>)>>)>>), Var("x", ListOf(<<>>))>>}
Second == Others \cup UNION {Around(b) : b \in Inner}
Third == Others \cup
         {<<PutV("x"), Cmd("f~", <<>>)>>, <<Cmd("g~", <<>>), PutV("x")>>,
          << <<"use", "a", "a:">>, <<"use", "b", "b:">> >>,
          <<Do(<<Tmp("x", Str("t")), Cmd("f~", <<>>)>>)>>}

\* a and b use each other; a fails while the input lasts.
MCModCode ==
  [a |-> <<Var("x", Str("a")), <<"use", "b", "b:">>,
           <<"if", <<More>>, <<Lam(<<Fail>>)>>, <<>> >>, Set("x", Str("done"))>>,
   b |-> << <<"use", "a", "a:">>, Var("x", Str("b")), Fn("f~", <<PutV("x")>>)>>]

Chunks(n) == CASE n = 0 -> First [] n = 1 -> Second [] OTHER -> Third

\* Assignments for tmp and with, and functions that start with them or defer.
Assigns ==
  { << << Lhs(<<Lv("x")>>), <<Str("1")>> >> >>,
    << << Lhs(<<Lv("x")>>), <<Str("1")>> >>, << Lhs(<<Lv("x")>>), <<ListOf(<<V("x")>>)>> >> >>,
    << << Lhs(<<Lv("x")>>), <<Str("1")>> >>, << Lhs(<<Lv("x"), Lv("x")>>), <<Str("2")>> >> >>,
    << << Lhs(<<Lv("x")>>), <<ListOf(<<Str("1"), Str("2")>>)>> >>,
       << Lhs(<<Elem("x", 0), Elem("x", 1)>>), <<Str("3"), Str("4")>> >> >>,
    << << Lhs(<<Lv("E:V"), Lv("x")>>), <<Str("1"), Str("2")>> >>,
       << Lhs(<<Lv("E:V")>>), <<Str("3")>> >>, << Lhs(<<Elem("E:V", 0)>>), <<Str("4")>> >> >> }
ByTmp(as, b) == <<Do([i \in DOMAIN as |-> <<"tmp", as[i][1], as[i][2]>>] \o b)>>
ByWith(as, b) == << <<"with", as, Lam(b)>> >>
Defers(ds) == <<Do([i \in DOMAIN ds |-> Cmd("defer~", <<Lam(ds[i])>>)])>>
Deferred == SeqOf({<<Fail>>, <<PutV("x")>>}, 2)

Init == session = <<>>

EvalChunk(code) == session' = Append(session, code)

Next == Len(session) < 3 /\ \E code \in Chunks(Len(session)) : EvalChunk(code)

Spec == Init /\ [][Next]_session

\* A chunk after what came before.
Then(r, code) == Eval([r.st EXCEPT !.out = <<>>], code)

\* The evaluator after a session, what its last chunk threw and what it output.
After(s) == FoldLeft(Then, R(NewEvaler(Input), NoExc, <<>>), s)

(***************************************************************************)
(* Properties.                                                             *)
(***************************************************************************)
\* Every use of a variable reaches the variable of the declaration that is
\* lexically in force, in the right activation of the function that declares
\* it, through any nesting of lambdas, shadowing and deletion, and finds a
\* variable there unless it was deleted before.
LexicalScoping == [][After(session').st.bad = {}]_session

\* What a user can see of the outcome of a chunk: the values of the global
\* variables by name (of functions only that they are functions), the
\* environment, the output, the exception and which modules are loaded.
Shown(v) == IF IsFn(v) THEN <<"fn">> ELSE v
Outcome(r) ==
  LET g == r.st.nss[r.st.global]
  IN  [globals |-> {<<g.infos[i].name, Shown(Get(r.st, <<"cell", g.slots[i]>>))>> :
                      i \in {j \in DOMAIN g.infos : ~g.infos[j].deleted /\ g.slots[j] # 0}},
       env |-> r.st.env, out |-> [i \in DOMAIN r.st.out |-> Shown(r.st.out[i])],
       exc |-> PipelineError(r.exc), loaded |-> {k \in DOMAIN r.st.mods : r.st.mods[k] # 0}]

\* Assignments by tmp at the start of a function and by with around the rest
\* of it are the same: as long as the body runs, and whether it ends, throws
\* or an assignment fails half-way, after which all variables have the values
\* they had before (tmp, with, defer and Closure.Call).
TmpIsWith ==
  [][Len(session') = 1 =>
       \E r \in {After(session')} :
         \A as \in Assigns, b \in Inner :
           LET tmp == Outcome(Then(r, ByTmp(as, b)))
           IN  /\ tmp = Outcome(Then(r, ByWith(as, b)))
               /\ tmp.env = Outcome(r).env
               /\ tmp.globals = Outcome(r).globals]_session

\* A module that is loaded has run to its end, even if modules use each other
\* in a circle and one of them fails (useFromFile, evalModule).
LoadedModulesRan ==
  [][\E st \in {After(session').st} :
       /\ \A k \in DOMAIN st.mods : st.mods[k] # 0 => st.mods[k] \in st.complete
       /\ st.failed \cap st.complete = {}]_session

\* What defer documents: a function a closure has deferred and that throws
\* makes the call of the closure throw (builtin_fn_flow.d.elv).
DeferredExceptionsPropagate ==
  [][Len(session') = 1 =>
       \A ds \in Deferred :
         (\E i \in DOMAIN ds : ds[i] = <<Fail>>) =>
           Then(After(session'), Defers(ds)).exc \notin {NoExc, Exc("nil")}]_session
=============================================================================
