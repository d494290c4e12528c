------------------------------ MODULE Compile ------------------------------
(***************************************************************************)
(* The compiler of Elvish (pkg/eval/compiler.go, var_ref.go, ns.go and the *)
(* compile* functions of builtin_special.go, compile_lvalue.go,            *)
(* compile_value.go and compile_effect.go).                                *)
(*                                                                         *)
(* Compilation turns names into indices: a variable is a slot of the       *)
(* current scope, or an upvalue that is copied from scope to scope when a  *)
(* lambda is evaluated.  Syntax trees are tuples whose first element is    *)
(* the kind of the node:                                                   *)
(*                                                                         *)
(*   values   <<"lit", v>>  <<"var", name>>  <<"list", values>>            *)
(*            <<"index", value, values>>  <<"seq", values>>                *)
(*            <<"capture", chunk>>  <<"exc", chunk>>                       *)
(*            <<"lambda", args, rest, opts, defaults, chunk>>              *)
(*   forms    <<"var" | "set" | "tmp", lhs, rhs>>  <<"declare", lhs>>      *)
(*            <<"with", assignments, lambda>>  <<"del", lvalues>>          *)
(*            <<"fn", name, lambda>>  <<"use", spec, name>>                *)
(*            <<"and" | "or" | "coalesce", values>>                        *)
(*            <<"if", conditions, bodies, else>>                           *)
(*            <<"while", condition, body, else>>                           *)
(*            <<"for", lvalue, value, body, else>>                         *)
(*            <<"try", body, variable, catch, else, finally>>              *)
(*            <<"pragma", value>>  <<"cmd", name, args, opts>>             *)
(*            <<"call", value, args, opts>>                                *)
(*                                                                         *)
(* lhs is [lvs |-> a sequence of lvalues, rest |-> index or 0], an lvalue  *)
(* is <<name, indices>>; optional parts are sequences of length 0 or 1.  A *)
(* chunk is a sequence of forms.  A compiled node has the same shape, with *)
(* references in place of names.                                           *)
(*                                                                         *)
(* Next to the code's own tables the compiler state carries the lexical    *)
(* environment a reader of the program has in mind: the declarations in    *)
(* force, latest first.  Every reference notes the declaration it should   *)
(* reach and in how many functions further out it lies.                    *)
(***************************************************************************)
EXTENDS Naturals, Sequences, FiniteSets, SequencesExt

CONSTANTS
  Builtins,     \* names of the builtin functions, with the suffix ~
  FnNames,      \* names with the suffix ~
  NsNames,      \* names with the suffix :
  EnvNames      \* names of the form E:name

(***************************************************************************)
(* staticNs and staticUpNs.                                                *)
(***************************************************************************)
lookup(infos, k) ==
  LET found == {i \in DOMAIN infos : infos[i].name = k /\ ~infos[i].deleted}
  IN  IF found = {} THEN 0 ELSE CHOOSE i \in found : \A j \in found : i <= j

delName(infos, k) ==
  [i \in DOMAIN infos |->
    IF i = lookup(infos, k) THEN [infos[i] EXCEPT !.deleted = TRUE] ELSE infos[i]]

addName(infos, k, decl) ==
  Append(delName(infos, k), [name |-> k, deleted |-> FALSE, decl |-> decl])

upIndex(up, k) ==
  IF \E i \in DOMAIN up : up[i].name = k
  THEN CHOOSE i \in DOMAIN up : up[i].name = k
  ELSE Len(up) + 1

addUp(up, k, local, index) ==
  IF upIndex(up, k) <= Len(up) THEN up
  ELSE Append(up, [name |-> k, local |-> local, index |-> index])

(***************************************************************************)
(* The state of the compiler: one element per lexical scope in scopes,     *)
(* captures and pragmas; env and decls are the reader's environment and    *)
(* the number of declarations so far.                                      *)
(***************************************************************************)
NewCompiler(infos, env, decls) ==
  [scopes   |-> <<infos>>, captures |-> << <<>> >>, pragmas |-> <<TRUE>>,
   failed   |-> FALSE, env |-> env, decls |-> decls]

Depth(cp) == Len(cp.scopes)

thisScope(cp) == cp.scopes[Depth(cp)]

errorpf(cp) == [cp EXCEPT !.failed = TRUE]

pushScope(cp) ==
  [cp EXCEPT !.scopes = Append(@, <<>>), !.captures = Append(@, <<>>),
             !.pragmas = Append(@, Last(@))]

popScope(cp, env) ==
  [cp EXCEPT !.scopes = Front(@), !.captures = Front(@),
             !.pragmas = Front(@), !.env = env]

\* A declaration of k in the current scope: a new slot, and for the reader
\* a new meaning of the name.
Declare(cp, k) ==
  [cp EXCEPT
    !.scopes[Depth(cp)] = addName(@, k, cp.decls + 1),
    !.decls = @ + 1,
    !.env = <<[name |-> k, decl |-> cp.decls + 1, depth |-> Depth(cp)]>> \o @]

RECURSIVE DeclareAll(_, _)
DeclareAll(cp, ks) ==
  IF ks = <<>> THEN cp ELSE DeclareAll(Declare(cp, Head(ks)), Tail(ks))

\* For the reader, deleting a variable ends every meaning the name has got
\* in this scope.
Forget(cp, k) ==
  [cp EXCEPT
    !.env = SelectSeq(@, LAMBDA e : ~(e.name = k /\ e.depth = Depth(cp)))]

(***************************************************************************)
(* Resolution.  Each search returns the new compiler state and the index,  *)
(* 0 if the name is not found.                                             *)
(***************************************************************************)
searchLocal(cp, k) == lookup(thisScope(cp), k)

\* The innermost enclosing scope that has k.
CaptureScope(cp, k) ==
  LET found == {i \in 1 .. Depth(cp) - 1 : lookup(cp.scopes[i], k) # 0}
  IN  IF found = {} THEN 0 ELSE CHOOSE i \in found : \A j \in found : j <= i

\* Records the capture in every scope from j to the innermost.
RECURSIVE AddCaptures(_, _, _, _, _)
AddCaptures(cp, k, j, local, index) ==
  IF j > Depth(cp) THEN <<cp, index>>
  ELSE AddCaptures([cp EXCEPT !.captures[j] = addUp(@, k, local, index)],
                   k, j + 1, FALSE, upIndex(cp.captures[j], k))

searchCapture_outermost(cp, k) ==
  LET found == {i \in 1 .. Depth(cp) - 1 : lookup(cp.scopes[i], k) # 0}
  IN  IF found = {} THEN <<cp, 0>>
      ELSE LET i == CHOOSE i \in found : \A j \in found : i <= j
           IN  AddCaptures(cp, k, i + 1, TRUE, lookup(cp.scopes[i], k))

searchCapture(cp, k) ==
  LET i == CaptureScope(cp, k)
  IN  IF i = 0 THEN <<cp, 0>>
      ELSE AddCaptures(cp, k, i + 1, TRUE, lookup(cp.scopes[i], k))

\* What the reader expects of a use of k: the declaration and how many
\* functions further out it is.
Wanted(cp, k) ==
  LET e == SelectSeq(cp.env, LAMBDA d : d.name = k)
  IN  IF e = <<>> THEN [decl |-> 0, hops |-> 0]
      ELSE [decl |-> e[1].decl, hops |-> Depth(cp) - e[1].depth]

Ref(cp, scope, k, index, sub) ==
  [scope |-> scope, name |-> k, index |-> index, sub |-> sub, want |-> Wanted(cp, k)]

NoRef == [scope |-> "none", name |-> "", index |-> 0, sub |-> "", want |-> 0]

\* A name is <<name>>, or <<ns, name>> for $ns:name.  Returns the compiler
\* and the reference.
resolveVarRef(cp, qname) ==
  LET first == qname[1]
      sub   == IF Len(qname) = 2 THEN qname[2] ELSE ""
      up    == searchCapture(cp, first)
  IN  IF first \in EnvNames THEN <<cp, Ref(cp, "env", first, 0, "")>>
      ELSE IF searchLocal(cp, first) # 0
           THEN <<cp, Ref(cp, "local", first, searchLocal(cp, first), sub)>>
      ELSE IF up[2] # 0 THEN <<up[1], Ref(cp, "up", first, up[2], sub)>>
      ELSE IF first \in Builtins THEN <<cp, Ref(cp, "builtin", first, 0, sub)>>
      ELSE <<cp, NoRef>>

(***************************************************************************)
(* Values.  Every operator below returns <<compiler, compiled node>>.  The *)
(* compiler goes on after an error only to report more of them, so the     *)
(* model stops.                                                            *)
(***************************************************************************)
RECURSIVE compoundOp(_, _), chunkOp(_, _)

RECURSIVE compoundOps(_, _)
compoundOps(cp, ns) ==
  IF ns = <<>> THEN <<cp, <<>> >>
  ELSE LET one  == compoundOp(cp, Head(ns))
           more == compoundOps(one[1], Tail(ns))
       IN  IF one[1].failed THEN <<one[1], <<>> >>
           ELSE <<more[1], <<one[2]>> \o more[2]>>

variableOp(cp, qname) ==
  LET r == resolveVarRef(cp, qname)
  IN  <<IF r[2].scope = "none" THEN errorpf(r[1]) ELSE r[1], <<"var", r[2]>> >>

\* The signature is checked, option defaults are compiled in the enclosing
\* scope, and the new variables of the body follow arguments and options.
lambda(cp, n) ==
  LET dup   == \E i, j \in DOMAIN n[2] : i < j /\ n[2][i] = n[2][j] /\ n[2][i] # "_"
      defs  == compoundOps(IF dup THEN errorpf(cp) ELSE cp, n[5])
      inner == DeclareAll(pushScope(defs[1]), n[2] \o n[4])
      body  == chunkOp(inner, n[6])
      d     == Depth(inner)
  IN  <<popScope(body[1], cp.env),
        <<"lambda", n[2], n[3], n[4], defs[2], body[2],
          body[1].scopes[d], body[1].captures[d]>> >>

compoundOp(cp, n) ==
  CASE n[1] = "lit"    -> <<cp, n>>
    [] n[1] = "var"    -> variableOp(cp, n[2])
    [] n[1] \in {"list", "seq"} ->
         LET s == compoundOps(cp, n[2]) IN <<s[1], <<n[1], s[2]>> >>
    [] n[1] = "index"  ->
         LET h == compoundOp(cp, n[2])  s == compoundOps(h[1], n[3])
         IN  <<s[1], <<"index", h[2], s[2]>> >>
    [] n[1] \in {"capture", "exc"} ->
         LET c == chunkOp(cp, n[2]) IN <<c[1], <<n[1], c[2]>> >>
    [] n[1] = "lambda" -> lambda(cp, n)

(***************************************************************************)
(* Lvalues.  flags is a subset of {"set", "new"}.                          *)
(***************************************************************************)
compileIndexingLValue(cp, lv, flags) ==
  LET r    == IF "set" \in flags THEN resolveVarRef(cp, lv[1]) ELSE <<cp, NoRef>>
      old  == r[2].scope # "none"
      bad  == \/ r[2].scope = "builtin"          \* builtin variables are read-only
              \/ ~old /\ "new" \notin flags
              \/ ~old /\ lv[2] # <<>>
              \/ ~old /\ Len(lv[1]) = 2
      here == IF old THEN r[1] ELSE Declare(r[1], lv[1][1])
      ref  == IF old THEN r[2]
              ELSE Ref(here, "local", lv[1][1], Len(thisScope(here)), "")
      idx  == compoundOps(here, lv[2])
  IN  IF bad THEN <<errorpf(r[1]), <<NoRef, <<>> >> >>
      ELSE <<idx[1], <<ref, idx[2]>> >>

RECURSIVE compileLValues(_, _, _)
compileLValues(cp, lvs, flags) ==
  IF lvs = <<>> THEN <<cp, <<>> >>
  ELSE LET one  == compileIndexingLValue(cp, Head(lvs), flags)
           more == compileLValues(one[1], Tail(lvs), flags)
       IN  <<more[1], <<one[2]>> \o more[2]>>

\* The right-hand side is compiled first.
compileLHSRHS(cp, lhs, rhs, flags) ==
  LET r == compoundOps(cp, rhs)
      l == compileLValues(r[1], lhs.lvs, flags)
  IN  <<l[1], [lvs |-> l[2], rest |-> lhs.rest], r[2]>>

(***************************************************************************)
(* Forms.                                                                  *)
(***************************************************************************)
compileAssign(cp, n) ==
  LET c == compileLHSRHS(cp, n[2], n[3], IF n[1] = "var" THEN {"new"} ELSE {"set"})
      d == IF n[1] = "tmp" /\ Depth(cp) <= 1 THEN errorpf(c[1]) ELSE c[1]
  IN  <<d, <<"assign", n[1] = "tmp", c[2], c[3]>> >>

RECURSIVE compileAssigns(_, _)
compileAssigns(cp, as) ==
  IF as = <<>> THEN <<cp, <<>> >>
  ELSE LET c    == compileLHSRHS(cp, Head(as)[1], Head(as)[2], {"set"})
           more == compileAssigns(c[1], Tail(as))
       IN  <<more[1], << <<c[2], c[3]>> >> \o more[2]>>

compileWith(cp, n) ==
  LET as == compileAssigns(cp, n[2])
      b  == lambda(as[1], n[3])
  IN  <<b[1], <<"with", as[2], b[2]>> >>

\* Only a variable of the current scope, an environment variable or an
\* element can be deleted.
compileDelOne(cp, lv) ==
  LET r   == resolveVarRef(cp, lv[1])
      idx == compoundOps(r[1], lv[2])
  IN  CASE r[2].scope = "none" -> <<errorpf(r[1]), <<"nop">> >>
        [] r[2].scope # "none" /\ lv[2] # <<>> ->
             <<idx[1], <<"delelem", r[2], idx[2]>> >>
        [] r[2].scope = "env" /\ lv[2] = <<>> -> <<r[1], <<"delenv", r[2]>> >>
        [] r[2].scope = "local" /\ lv[2] = <<>> /\ r[2].sub = "" ->
             <<Forget([r[1] EXCEPT !.scopes[Depth(cp)][r[2].index].deleted = TRUE],
                      lv[1][1]),
               <<"dellocal", r[2].index>> >>
        [] OTHER -> <<errorpf(r[1]), <<"nop">> >>

RECURSIVE compileDel(_, _)
compileDel(cp, lvs) ==
  IF lvs = <<>> THEN <<cp, <<>> >>
  ELSE LET one  == compileDelOne(cp, Head(lvs))
           more == compileDel(one[1], Tail(lvs))
       IN  <<more[1], <<one[2]>> \o more[2]>>

\* The variable is declared before the body is compiled.
compileFn(cp, n) ==
  LET here == Declare(cp, n[2])
      b    == lambda(here, n[3])
  IN  <<b[1], <<"fn", Len(thisScope(here)), b[2]>> >>

compileUse(cp, n) ==
  LET here == Declare(cp, n[3]) IN <<here, <<"use", n[2], Len(thisScope(here))>> >>

compileIf(cp, n) ==
  LET c == compoundOps(cp, n[2])  b == compoundOps(c[1], n[3])  e == compoundOps(b[1], n[4])
  IN  <<e[1], <<"if", c[2], b[2], e[2]>> >>

compileWhile(cp, n) ==
  LET c == compoundOp(cp, n[2])  b == lambda(c[1], n[3])  e == compoundOps(b[1], n[4])
  IN  <<e[1], <<"while", c[2], b[2], e[2]>> >>

compileFor(cp, n) ==
  LET v == compileIndexingLValue(cp, n[2], {"set", "new"})
      i == compoundOp(v[1], n[3])  b == lambda(i[1], n[4])  e == compoundOps(b[1], n[5])
  IN  <<e[1], <<"for", v[2], i[2], b[2], e[2]>> >>

compileTry(cp, n) ==
  LET needs == (n[5] # <<>> /\ n[4] = <<>>) \/ (n[4] = <<>> /\ n[6] = <<>>)
      b == lambda(IF needs THEN errorpf(cp) ELSE cp, n[2])
      v == compileLValues(b[1], n[3], {"set", "new"})
      c == compoundOps(v[1], n[4])  e == compoundOps(c[1], n[5])  f == compoundOps(e[1], n[6])
  IN  <<f[1], <<"try", b[2], v[2], c[2], e[2], f[2]>> >>

compilePragma(cp, n) ==
  <<[cp EXCEPT !.pragmas[Depth(cp)] = n[2]], <<"nop">> >>

\* A command that is not special is a function, or an external command if
\* the pragma allows it.
ordinaryCmd(cp, n) ==
  LET r    == resolveVarRef(cp, <<n[2]>>)
      head == IF n[1] = "call" THEN compoundOp(cp, n[2])
              ELSE IF r[2].scope # "none" THEN <<r[1], <<"var", r[2]>> >>
              ELSE <<IF Last(r[1].pragmas) THEN r[1] ELSE errorpf(r[1]),
                     <<"lit", <<"external">> >> >>
      args == compoundOps(head[1], n[3])
      opts == compoundOps(args[1], [i \in DOMAIN n[4] |-> n[4][i][2]])
  IN  <<opts[1], <<"call", head[2], args[2],
                   [i \in DOMAIN n[4] |-> <<n[4][i][1], opts[2][i]>>]>> >>

formBody(cp, n) ==
  CASE n[1] \in {"var", "set", "tmp"} -> compileAssign(cp, n)
    [] n[1] = "declare" ->
         <<compileLValues(cp, n[2].lvs, {"new"})[1], <<"nop">> >>
    [] n[1] = "with"   -> compileWith(cp, n)
    [] n[1] = "del"    -> LET d == compileDel(cp, n[2]) IN <<d[1], <<"del", d[2]>> >>
    [] n[1] = "fn"     -> compileFn(cp, n)
    [] n[1] = "use"    -> compileUse(cp, n)
    [] n[1] \in {"and", "or", "coalesce"} ->
         LET s == compoundOps(cp, n[2]) IN <<s[1], <<n[1], s[2]>> >>
    [] n[1] = "if"     -> compileIf(cp, n)
    [] n[1] = "while"  -> compileWhile(cp, n)
    [] n[1] = "for"    -> compileFor(cp, n)
    [] n[1] = "try"    -> compileTry(cp, n)
    [] n[1] = "pragma" -> compilePragma(cp, n)
    [] n[1] \in {"cmd", "call"} -> ordinaryCmd(cp, n)

chunkOp(cp, ns) ==
  IF ns = <<>> THEN <<cp, <<>> >>
  ELSE LET one  == formBody(cp, Head(ns))
           more == chunkOp(one[1], Tail(ns))
       IN  IF one[1].failed THEN <<one[1], <<>> >>
           ELSE <<more[1], <<one[2]>> \o more[2]>>

=============================================================================
