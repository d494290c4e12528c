------------------------------- MODULE Interp -------------------------------
(***************************************************************************)
(* The evaluation of compiled code (the exec methods of pkg/eval,          *)
(* Closure.Call, Frame, Evaler.Eval, the builtin commands for control      *)
(* flow, and pkg/eval/vars).                                               *)
(*                                                                         *)
(* The state is a record st:                                               *)
(*   cells   the variables ever created: value, type, and for the          *)
(*           properties the declaration and the activation it belongs to   *)
(*   nss     namespaces: slots (an index into cells, 0 for nil) and infos  *)
(*   acts    activations of functions: the activation the function was     *)
(*           created in, and the cells that code run by eval adopts        *)
(*   defers  lists of deferred actions, one per activation                 *)
(*   out     values written to the current output                          *)
(*   env     an environment variable, <<>> if it is not set                *)
(*   mods    the loaded modules; failed: namespaces of modules that failed *)
(*   inp     how often the builtin more will still output $true            *)
(*   gone    declarations whose variable was deleted while the code ran    *)
(*   bad     declarations a reference missed: it reached another variable, *)
(*           or none although the variable was not deleted                 *)
(* and a frame fm is [local, up, upInfos, act, defers].  Executing an      *)
(* operation gives [st, exc, vals].                                        *)
(*                                                                         *)
(* Exceptions: <<"none">> is Go's nil, <<"exc", r>> an exception with      *)
(* reason r.  The reason "nil" is that of an exception that wraps nil,     *)
(* which formOp.exec makes for every builtin that succeeds.                *)
(***************************************************************************)
EXTENDS Compile

CONSTANTS
  ModCode,      \* module name -> chunk
  BuiltinFns    \* name -> what a builtin function does

Nil == <<"nil">>
\* An exception value is true if it is $ok.
Bool(v) == v \notin {Nil, <<"b", FALSE>>} /\ (v[1] = "e" => v[2] = "nil")
NoExc == <<"none">>
Exc(r) == <<"exc", r>>
Reason(e) == e[2]

R(st, exc, values) == [st |-> st, exc |-> exc, vals |-> values]
Ok(st) == R(st, NoExc, <<>>)
Throw(st, r) == R(st, Exc(r), <<>>)

IsFn(v) == v[1] \in {"closure", "gofn", "external"}

(***************************************************************************)
(* Values: lists and maps, and the elements of them.                       *)
(***************************************************************************)
HasIndex(c, k) ==
  \/ c[1] = "list" /\ k[1] = "i" /\ k[2] < Len(c[2])
  \/ c[1] = "map" /\ k \in DOMAIN c[2]

Index(c, k) == IF c[1] = "list" THEN c[2][k[2] + 1] ELSE c[2][k]

CanAssoc(c, k) == c[1] = "map" \/ HasIndex(c, k)

Assoc(c, k, v) ==
  IF c[1] = "list" THEN <<"list", [c[2] EXCEPT ![k[2] + 1] = v]>>
  ELSE <<"map", [j \in DOMAIN c[2] \cup {k} |-> IF j = k THEN v ELSE c[2][j]]>>

Dissoc(c, k) == <<"map", [j \in DOMAIN c[2] \ {k} |-> c[2][j]]>>

(***************************************************************************)
(* Variables (pkg/eval/vars).  A handle is <<"cell", c>>, <<"env", name>>, *)
(* <<"builtin", name>>, <<"elem", handle, containers, keys>> or            *)
(* <<"none">> for a nil variable.                                          *)
(***************************************************************************)
TypeOfName(k) ==
  IF k \in FnNames THEN "fn" ELSE IF k \in NsNames THEN "ns" ELSE "any"

\* MakeVarFromName
InitialValue(k) ==
  CASE TypeOfName(k) = "fn" -> <<"gofn", "nop~">>
    [] TypeOfName(k) = "ns" -> <<"ns", 0>>
    [] OTHER -> Nil

NewCell(st, k, v, typ, decl, act) ==
  [st EXCEPT !.cells = Append(@, [val |-> v, typ |-> typ, decl |-> decl, act |-> act])]

Get(st, h) ==
  CASE h[1] = "cell" -> st.cells[h[2]].val
    [] h[1] = "env" -> IF st.env = <<>> THEN <<"s", "">> ELSE st.env[1]
    [] h[1] = "builtin" -> <<"gofn", h[2]>>
    [] h[1] = "elem" -> Nil

\* The value a nested element assignment gives to the whole variable.
RECURSIVE AssocAll(_, _, _)
AssocAll(cs, ks, v) ==
  IF cs = <<>> THEN v
  ELSE AssocAll(Front(cs), Front(ks), Assoc(Last(cs), Last(ks), v))

CanSet(st, h, v) ==
  CASE h[1] = "cell" ->
         LET t == st.cells[h[2]].typ
         IN  t = "any" \/ (t = "fn" /\ IsFn(v)) \/ (t = "ns" /\ v[1] = "ns")
    [] h[1] = "env" -> v[1] = "s"
    [] h[1] = "builtin" -> FALSE
    [] h[1] = "elem" ->
         /\ \A i \in DOMAIN h[3] : CanAssoc(h[3][i], h[4][i])
         /\ h[2][1] = "cell" /\ st.cells[h[2][2]].typ = "any"

Put(st, h, v) ==
  CASE h[1] = "cell" -> [st EXCEPT !.cells[h[2]].val = v]
    [] h[1] = "env"  -> [st EXCEPT !.env = <<v>>]
    [] h[1] = "elem" -> [st EXCEPT !.cells[h[2][2]].val = AssocAll(h[3], h[4], v)]

(***************************************************************************)
(* Dereferencing.  The reader's expectation is checked on the way: the     *)
(* cell must have been made for the wanted declaration by the activation   *)
(* that lies as many functions out.                                        *)
(***************************************************************************)
RECURSIVE Outward(_, _, _)
Outward(st, act, hops) ==
  IF hops = 0 \/ act = 0 THEN act ELSE Outward(st, st.acts[act].parent, hops - 1)

Reached(st, fm, ref, c) ==
  IF c = 0 THEN [st EXCEPT !.bad = @ \cup ({ref.want.decl} \ st.gone)]
  ELSE LET a == Outward(st, fm.act, ref.want.hops)
       IN  IF /\ st.cells[c].decl = ref.want.decl
              /\ \/ st.cells[c].act = a
                 \/ a # 0 /\ c \in st.acts[a].adopted
           THEN st ELSE [st EXCEPT !.bad = @ \cup {ref.want.decl}]

IndexString(st, ns, k) ==
  IF ns = 0 THEN 0
  ELSE LET i == lookup(st.nss[ns].infos, k) IN IF i = 0 THEN 0 ELSE st.nss[ns].slots[i]

derefBase(st, fm, ref) ==
  IF ref.scope = "local" THEN st.nss[fm.local].slots[ref.index] ELSE fm.up[ref.index]

\* Returns the new state and the handle.
deref(st, fm, ref) ==
  CASE ref.scope = "env" -> <<st, <<"env", ref.name>> >>
    [] ref.scope = "builtin" -> <<st, <<"builtin", ref.name>> >>
    [] ref.scope \in {"local", "up"} ->
         LET c   == derefBase(st, fm, ref)
             st1 == Reached(st, fm, ref, c)
             sub == IF c = 0 \/ st.cells[c].val[1] # "ns" THEN 0
                    ELSE IndexString(st, st.cells[c].val[2], ref.sub)
             fin == IF ref.sub = "" THEN c ELSE sub
         IN  <<st1, IF fin = 0 THEN <<"none">> ELSE <<"cell", fin>> >>

(***************************************************************************)
(* Values operations (compile_value.go).                                   *)
(***************************************************************************)
RECURSIVE ExecValue(_, _, _), ExecChunk(_, _, _), Call(_, _, _, _, _)

RECURSIVE ExecValues(_, _, _)
ExecValues(st, fm, ops) ==
  IF ops = <<>> THEN Ok(st)
  ELSE LET one  == ExecValue(st, fm, Head(ops))
           more == ExecValues(one.st, fm, Tail(ops))
       IN  IF one.exc # NoExc THEN one
           ELSE IF more.exc # NoExc THEN more
           ELSE R(more.st, NoExc, one.vals \o more.vals)

\* Every value of the head with every index.
IndexAll(st, vs, ks) ==
  LET pairs == FlattenSeq([i \in DOMAIN vs |-> [j \in DOMAIN ks |-> <<vs[i], ks[j]>>]])
  IN  IF \A p \in Range(pairs) : HasIndex(p[1], p[2])
      THEN R(st, NoExc, [i \in DOMAIN pairs |-> Index(pairs[i][1], pairs[i][2])])
      ELSE Throw(st, "no such key")

\* A closure gets the variables its scope captures: from the local scope of
\* the frame it is made in, or from the upvalues of that frame.
ExecLambda(st, fm, op) ==
  LET defs == ExecValues(st, fm, op[5])
      up   == op[8]
      from == st.nss[fm.local]
  IN  IF defs.exc # NoExc THEN defs
      ELSE R(defs.st, NoExc, << <<"closure",
             [args |-> op[2], rest |-> op[3], opts |-> op[4], defaults |-> defs.vals,
              body |-> op[6], infos |-> op[7],
              captured |-> [i \in DOMAIN up |->
                IF up[i].local THEN from.slots[up[i].index] ELSE fm.up[up[i].index]],
              upInfos |-> [i \in DOMAIN up |->
                IF up[i].local THEN from.infos[up[i].index] ELSE fm.upInfos[up[i].index]],
              act |-> fm.act, catchReturn |-> FALSE]>> >>)

ExecValue(st, fm, op) ==
  CASE op[1] = "lit" -> R(st, NoExc, <<op[2]>>)
    [] op[1] = "var" ->
         LET d == deref(st, fm, op[2])
         IN  IF d[2] = <<"none">> THEN Throw(d[1], "variable not found")
             ELSE R(d[1], NoExc, <<Get(d[1], d[2])>>)
    [] op[1] = "list" ->
         LET r == ExecValues(st, fm, op[2])
         IN  IF r.exc # NoExc THEN r ELSE [r EXCEPT !.vals = << <<"list", @>> >>]
    [] op[1] = "seq" -> ExecValues(st, fm, op[2])
    [] op[1] = "index" ->
         LET h == ExecValue(st, fm, op[2])
             k == ExecValues(h.st, fm, op[3])
         IN  IF h.exc # NoExc THEN h ELSE IF k.exc # NoExc THEN k
             ELSE IndexAll(k.st, h.vals, k.vals)
    [] op[1] = "exc" ->
         LET r == ExecChunk(st, fm, op[2])
         IN  R(r.st, NoExc, << <<"e", IF r.exc = NoExc THEN "nil" ELSE Reason(r.exc)>> >>)
    [] op[1] = "capture" ->
         LET r == ExecChunk([st EXCEPT !.out = <<>>], fm, op[2])
         IN  R([r.st EXCEPT !.out = st.out], r.exc, r.st.out)
    [] op[1] = "lambda" -> ExecLambda(st, fm, op)

evalForValue(st, fm, op) ==
  LET r == ExecValue(st, fm, op)
  IN  IF r.exc = NoExc /\ Len(r.vals) # 1 THEN Throw(r.st, "arity mismatch") ELSE r

\* The body of a special command is known to be a lambda: making it cannot
\* fail.
execLambdaOp(st, fm, op) == ExecLambda(st, fm, op).vals[1]

(***************************************************************************)
(* Assignment (compile_lvalue.go).                                         *)
(***************************************************************************)
\* MakeElement reads the containers now; only the last one is assigned to
\* later.
RECURSIVE Containers(_, _)
Containers(c, ks) ==
  IF Len(ks) = 1 THEN <<c>>
  ELSE IF HasIndex(c, Head(ks)) THEN <<c>> \o Containers(Index(c, Head(ks)), Tail(ks))
  ELSE << >>

derefLValue(st, fm, lv) ==
  LET d  == deref(st, fm, lv[1])
      k  == ExecValues(d[1], fm, lv[2])
      cs == Containers(Get(k.st, d[2]), k.vals)
  IN  IF d[2] = <<"none">> THEN Throw(d[1], "no such variable")
      ELSE IF lv[2] = <<>> THEN R(d[1], NoExc, <<d[2]>>)
      ELSE IF k.exc # NoExc THEN k
      ELSE IF Len(cs) # Len(k.vals) THEN Throw(k.st, "no such key")
      ELSE R(k.st, NoExc, << <<"elem", d[2], cs, k.vals>> >>)

RECURSIVE derefLValues(_, _, _)
derefLValues(st, fm, lvs) ==
  IF lvs = <<>> THEN Ok(st)
  ELSE LET one  == derefLValue(st, fm, Head(lvs))
           more == derefLValues(one.st, fm, Tail(lvs))
       IN  IF one.exc # NoExc THEN one
           ELSE IF more.exc # NoExc THEN more
           ELSE R(more.st, NoExc, one.vals \o more.vals)

\* What undoes an assignment to h: the variable of an element is restored
\* as a whole, and a variable of the environment that was not set is unset.
save(st, h) ==
  LET v == IF h[1] = "elem" THEN h[2] ELSE h
  IN  IF v[1] = "env" /\ st.env = <<>> THEN <<"unset">> ELSE <<"restore", v, Get(st, v)>>

Restore(st, act) ==
  IF act[1] = "unset" THEN [st EXCEPT !.env = <<>>] ELSE Put(st, act[2], act[3])

\* Sets the variables one by one; vals of the result are the actions that
\* restore those that were set.
RECURSIVE setAll(_, _, _)
setAll(st, hs, vs) ==
  IF hs = <<>> THEN Ok(st)
  ELSE IF ~CanSet(st, Head(hs), Head(vs)) THEN Throw(st, "cannot set")
  ELSE LET more == setAll(Put(st, Head(hs), Head(vs)), Tail(hs), Tail(vs))
       IN  [more EXCEPT !.vals = <<save(st, Head(hs))>> \o @]

\* The values for n variables, where the rest variable takes a list.
Distribute(vs, n, rest) ==
  IF rest = 0 THEN vs
  ELSE LET k == Len(vs) - n
       IN  SubSeq(vs, 1, rest - 1)
           \o << <<"list", SubSeq(vs, rest, rest + k)>> >>
           \o SubSeq(vs, rest + k + 1, Len(vs))

doAssign(st, fm, lhs, rhs) ==
  LET l == derefLValues(st, fm, lhs.lvs)
      r == ExecValues(l.st, fm, rhs)
      n == Len(lhs.lvs)
  IN  IF l.exc # NoExc THEN Throw(l.st, Reason(l.exc))
      ELSE IF r.exc # NoExc THEN Throw(r.st, Reason(r.exc))
      ELSE IF IF lhs.rest = 0 THEN Len(r.vals) # n ELSE Len(r.vals) < n - 1
           THEN Throw(r.st, "arity mismatch")
      ELSE setAll(r.st, l.vals, Distribute(r.vals, n, lhs.rest))

ExecAssign(st, fm, op) ==
  LET r == doAssign(st, fm, op[3], op[4])
  IN  R(IF op[2] THEN [r.st EXCEPT !.defers[fm.defers] = @ \o r.vals] ELSE r.st, r.exc, <<>>)

\* withOp.exec: whatever happens, the variables that have been set are
\* restored, last first.  Restoring sets a variable to a value it has held,
\* which cannot fail.
RECURSIVE RestoreAll(_, _)
RestoreAll(st, acts) ==
  IF acts = <<>> THEN st ELSE RestoreAll(Restore(st, Last(acts)), Front(acts))

RECURSIVE doAssigns(_, _, _)
doAssigns(st, fm, as) ==
  IF as = <<>> THEN Ok(st)
  ELSE LET one  == doAssign(st, fm, Head(as)[1], Head(as)[2])
           more == doAssigns(one.st, fm, Tail(as))
       IN  IF one.exc # NoExc THEN one ELSE [more EXCEPT !.vals = one.vals \o @]

ExecWith(st, fm, op) ==
  LET as   == doAssigns(st, fm, op[2])
      body == Call(as.st, fm, execLambdaOp(as.st, fm, op[3]), <<>>, <<>>)
      done == IF as.exc # NoExc THEN as ELSE body
  IN  R(RestoreAll(done.st, as.vals), done.exc, <<>>)

(***************************************************************************)
(* Deletion.                                                               *)
(***************************************************************************)
ExecDelLocal(st, fm, i) ==
  LET c == st.nss[fm.local].slots[i]
  IN  Ok([st EXCEPT !.nss[fm.local].slots[i] = 0,
                    !.gone = IF c = 0 THEN @ ELSE @ \cup {st.cells[c].decl}])

\* DelElement, for one index: only maps support it.
ExecDelElem(st, fm, op) ==
  LET d == deref(st, fm, op[2])
      k == ExecValues(d[1], fm, op[3])
      c == Get(k.st, d[2])
  IN  IF k.exc # NoExc THEN k
      ELSE IF d[2] = <<"none">> \/ Len(k.vals) # 1 \/ c[1] # "map"
           THEN Throw(k.st, "cannot delete")
      ELSE Ok(Put(k.st, d[2], Dissoc(c, k.vals[1])))

RECURSIVE ExecDel(_, _, _)
ExecDel(st, fm, ops) ==
  IF ops = <<>> THEN Ok(st)
  ELSE LET o   == Head(ops)
           one == CASE o[1] = "nop" -> Ok(st)
                    [] o[1] = "dellocal" -> ExecDelLocal(st, fm, o[2])
                    [] o[1] = "delenv" -> Ok([st EXCEPT !.env = <<>>])
                    [] o[1] = "delelem" -> ExecDelElem(st, fm, o)
       IN  IF one.exc # NoExc THEN one ELSE ExecDel(one.st, fm, Tail(ops))

(***************************************************************************)
(* Functions and modules.                                                  *)
(***************************************************************************)
SlotPut(st, fm, i, v) == Put(st, <<"cell", st.nss[fm.local].slots[i]>>, v)

\* fnOp.exec.  The slot is nil if a condition that declares and deletes the
\* function is evaluated again: the code then crashes.
ExecFn(st, fm, op) ==
  IF st.nss[fm.local].slots[op[2]] = 0 THEN Throw(st, "crash")
  ELSE LET r == ExecLambda(SlotPut(st, fm, op[2], <<"gofn", "nop~">>), fm, op[3])
       IN  IF r.exc # NoExc THEN r
           ELSE Ok(SlotPut(r.st, fm, op[2],
                           [r.vals[1] EXCEPT ![2].catchReturn = TRUE]))

\* nsOp.prepare: the slots of the namespace and a new variable for every
\* name the chunk adds.  Returns the state and the new namespace.
RECURSIVE AddSlots(_, _, _, _)
AddSlots(st, slots, infos, act) ==
  IF Len(slots) = Len(infos) THEN <<st, slots>>
  ELSE LET k == infos[Len(slots) + 1]
       IN  AddSlots(NewCell(st, k.name, InitialValue(k.name), TypeOfName(k.name), k.decl, act),
                    Append(slots, Len(st.cells) + 1), infos, act)

prepare(st, ns, infos, act) ==
  LET s == AddSlots(st, ns.slots, infos, act)
  IN  <<[s[1] EXCEPT !.nss = Append(@, [slots |-> s[2], infos |-> infos])],
        Len(st.nss) + 1>>

\* What the code in a namespace sees at its start.
EnvOf(infos) ==
  Reverse(SelectSeq([i \in DOMAIN infos |->
                       [name |-> infos[i].name, decl |-> infos[i].decl,
                        depth |-> IF infos[i].deleted THEN 0 ELSE 1]],
                    LAMBDA e : e.depth = 1))

\* PrepareEval: compiles code in a namespace of its own, and makes the frame
\* that executes it.  Returns <<compiled?, state, frame, code>>.
PrepareEval(st, code, ns, adopted) ==
  LET c   == chunkOp(NewCompiler(ns.infos, EnvOf(ns.infos), st.decls), code)
      a   == Len(st.acts) + 1
      st1 == [st EXCEPT !.decls = c[1].decls,
                        !.acts = Append(@, [parent |-> 0, adopted |-> adopted])]
      p   == prepare(st1, ns, c[1].scopes[1], a)
  IN  IF c[1].failed THEN <<FALSE, st, 0, <<>> >>
      ELSE <<TRUE, p[1], [local |-> p[2], up |-> <<>>, upInfos |-> <<>>, act |-> a, defers |-> 0],
             c[2]>>

evalModule_keep(st, key) ==
  LET p == PrepareEval(st, ModCode[key], [slots |-> <<>>, infos |-> <<>>], {})
      r == ExecChunk([p[2] EXCEPT !.mods[key] = p[3].local], p[3], p[4])
  IN  IF ~p[1] THEN Throw(st, "compilation error")
      ELSE IF r.exc # NoExc
           THEN R([r.st EXCEPT !.failed = @ \cup {p[3].local}], r.exc, <<>>)
      ELSE R([r.st EXCEPT !.complete = @ \cup {p[3].local}], NoExc, << <<"ns", p[3].local>> >>)

\* evalModule: the namespace is installed before the code runs, and taken
\* out again if it fails.
evalModule(st, key) ==
  LET p == PrepareEval(st, ModCode[key], [slots |-> <<>>, infos |-> <<>>], {})
      r == ExecChunk([p[2] EXCEPT !.mods[key] = p[3].local], p[3], p[4])
  IN  IF ~p[1] THEN Throw(st, "compilation error")
      ELSE IF r.exc # NoExc
           THEN R([r.st EXCEPT !.mods[key] = 0, !.failed = @ \cup {p[3].local}], r.exc, <<>>)
      ELSE R([r.st EXCEPT !.complete = @ \cup {p[3].local}], NoExc, << <<"ns", p[3].local>> >>)

use(st, key) ==
  IF key \notin DOMAIN ModCode THEN Throw(st, "no such module")
  ELSE IF st.mods[key] # 0 THEN R(st, NoExc, << <<"ns", st.mods[key]>> >>)
  ELSE evalModule(st, key)

ExecUse(st, fm, op) ==
  LET r == use(st, op[2])
  IN  IF r.exc # NoExc THEN r
      ELSE IF r.st.nss[fm.local].slots[op[3]] = 0 THEN Throw(r.st, "crash")
      ELSE Ok(SlotPut(r.st, fm, op[3], r.vals[1]))

(***************************************************************************)
(* Conditions and loops.                                                   *)
(***************************************************************************)
\* andOrOp and coalesceOp: the first value that decides is output, the other
\* arguments are not evaluated.
Decides(kind, v) ==
  CASE kind = "and" -> ~Bool(v) [] kind = "or" -> Bool(v) [] kind = "coalesce" -> v # Nil

RECURSIVE ExecLogic(_, _, _, _, _)
ExecLogic(st, fm, kind, ops, last) ==
  IF ops = <<>> THEN Ok([st EXCEPT !.out = Append(@, last)])
  ELSE LET r   == ExecValue(st, fm, Head(ops))
           hit == SelectSeq(r.vals, LAMBDA v : Decides(kind, v))
           lst == IF kind = "coalesce" \/ r.vals = <<>> THEN last ELSE Last(r.vals)
       IN  IF r.exc # NoExc THEN r
           ELSE IF hit # <<>> THEN Ok([r.st EXCEPT !.out = Append(@, hit[1])])
           ELSE ExecLogic(r.st, fm, kind, Tail(ops), lst)

allTrue(vs) == \A v \in Range(vs) : Bool(v)

CallThunk(st, fm, f) == Call(st, fm, f, <<>>, <<>>)

CallOptional(st, fm, fs) == IF fs = <<>> THEN Ok(st) ELSE CallThunk(st, fm, fs[1])

\* execLambdaOp for a sequence of bodies
Bodies(st, fm, ops) == [i \in DOMAIN ops |-> execLambdaOp(st, fm, ops[i])]

\* The bodies are made before the first condition is evaluated.
RECURSIVE ExecConds(_, _, _, _, _)
ExecConds(st, fm, conds, bodies, else) ==
  IF conds = <<>> THEN CallOptional(st, fm, else)
  ELSE LET c == ExecValue(st, fm, Head(conds))
       IN  IF c.exc # NoExc THEN c
           ELSE IF allTrue(c.vals) THEN CallThunk(c.st, fm, Head(bodies))
           ELSE ExecConds(c.st, fm, Tail(conds), Tail(bodies), else)

ExecIf(st, fm, op) ==
  ExecConds(st, fm, op[2], Bodies(st, fm, op[3]), Bodies(st, fm, op[4]))

RECURSIVE WhileLoop(_, _, _, _, _, _)
WhileLoop(st, fm, cond, body, else, iterated) ==
  LET c == ExecValue(st, fm, cond)
      b == CallThunk(c.st, fm, body)
  IN  IF c.exc # NoExc THEN c
      ELSE IF ~allTrue(c.vals)
           THEN IF iterated THEN Ok(c.st) ELSE CallOptional(c.st, fm, else)
      ELSE IF b.exc = NoExc \/ Reason(b.exc) = "continue"
           THEN WhileLoop(b.st, fm, cond, body, else, TRUE)
      ELSE IF Reason(b.exc) = "break" THEN Ok(b.st)
      ELSE b

ExecWhile(st, fm, op) ==
  WhileLoop(st, fm, op[2], execLambdaOp(st, fm, op[3]), Bodies(st, fm, op[4]), FALSE)

RECURSIVE ForLoop(_, _, _, _, _)
ForLoop(st, fm, h, vs, body) ==
  IF vs = <<>> THEN Ok(st)
  ELSE IF ~CanSet(st, h, Head(vs)) THEN Throw(st, "cannot set")
  ELSE LET b == CallThunk(Put(st, h, Head(vs)), fm, body)
       IN  IF b.exc = NoExc \/ Reason(b.exc) = "continue"
           THEN ForLoop(b.st, fm, h, Tail(vs), body)
           ELSE IF Reason(b.exc) = "break" THEN Ok(b.st)
           ELSE b

ExecFor(st, fm, op) ==
  LET v == derefLValue(st, fm, op[2])
      i == evalForValue(v.st, fm, op[3])
  IN  IF v.exc # NoExc THEN v
      ELSE IF i.exc # NoExc THEN i
      ELSE IF i.vals[1][1] # "list" THEN Throw(i.st, "cannot iterate")
      ELSE IF i.vals[1][2] = <<>> THEN CallOptional(i.st, fm, Bodies(i.st, fm, op[5]))
      ELSE ForLoop(i.st, fm, v.vals[1], i.vals[1][2], execLambdaOp(i.st, fm, op[4]))

\* tryOp.exec.  If the variable of catch cannot be set, finally is skipped.
ExecTry(st, fm, op) ==
  LET v     == derefLValues(st, fm, op[3])
      catch == Bodies(v.st, fm, op[4])
      body  == CallThunk(v.st, fm, execLambdaOp(v.st, fm, op[2]))
      stuck == catch # <<>> /\ v.vals # <<>> /\ body.exc # NoExc
               /\ ~CanSet(body.st, v.vals[1], <<"e", Reason(body.exc)>>)
      st1   == IF catch # <<>> /\ v.vals # <<>> /\ body.exc # NoExc /\ ~stuck
               THEN Put(body.st, v.vals[1], <<"e", Reason(body.exc)>>) ELSE body.st
      r     == IF body.exc = NoExc THEN CallOptional(st1, fm, Bodies(st1, fm, op[5]))
               ELSE IF catch # <<>> THEN CallThunk(st1, fm, catch[1])
               ELSE body
      fin   == CallOptional(r.st, fm, Bodies(r.st, fm, op[6]))
  IN  IF v.exc # NoExc THEN v
      ELSE IF stuck THEN Throw(body.st, "cannot set")
      ELSE IF fin.exc # NoExc THEN fin
      ELSE R(fin.st, r.exc, <<>>)

(***************************************************************************)
(* Calls.                                                                  *)
(***************************************************************************)
\* The callback deferFn registers: it wraps the result of the function in
\* an exception even if that is nil.
DeferResult(r) == IF r.exc = NoExc THEN Throw(r.st, "nil") ELSE r

\* runDefers: all of them, last first; the first exception is kept.
RECURSIVE runDefers(_, _, _, _)
runDefers_stopAtException(st, fm, ds, exc) ==
  IF ds = <<>> \/ exc \notin {NoExc, Exc("nil")} THEN R(st, exc, <<>>)
  ELSE LET d == Last(ds)
           r == IF d[1] = "call" THEN DeferResult(Call(st, fm, d[2], <<>>, <<>>))
                ELSE Ok(Restore(st, d))
       IN  runDefers(r.st, fm, Front(ds), IF exc = NoExc THEN r.exc ELSE exc)

runDefers(st, fm, ds, exc) ==
  IF ds = <<>> THEN R(st, exc, <<>>)
  ELSE LET d == Last(ds)
           r == IF d[1] = "call" THEN DeferResult(Call(st, fm, d[2], <<>>, <<>>))
                ELSE Ok(Restore(st, d))
       IN  runDefers(r.st, fm, Front(ds), IF exc = NoExc THEN r.exc ELSE exc)

ArityOK(f, args) ==
  IF f.rest # 0 THEN Len(args) >= Len(f.args) - 1 ELSE Len(args) = Len(f.args)

OptsOK(f, opts) == {opts[i][1] : i \in DOMAIN opts} \subseteq Range(f.opts)

OptValue(f, opts, i) ==
  LET given == SelectSeq(opts, LAMBDA o : o[1] = f.opts[i])
  IN  IF given = <<>> THEN f.defaults[i] ELSE Last(given)[2]

\* Closure.Call: a new variable for every argument, option and local, a new
\* list of deferred actions; the body, then what it has deferred.
\* Arguments and options are marked as not deleted even if the body
\* declares their names again.
CallClosure(st, f, args, opts) ==
  LET n     == Len(f.args) + Len(f.opts)
      given == Distribute(args, Len(f.args), f.rest)
               \o [i \in DOMAIN f.opts |-> OptValue(f, opts, i)]
      a     == Len(st.acts) + 1
      st1   == FoldLeft(LAMBDA s, i : NewCell(s, f.infos[i].name, given[i], "any", f.infos[i].decl, a),
                        [st EXCEPT !.acts = Append(@, [parent |-> f.act, adopted |-> {}])],
                        [i \in 1 .. n |-> i])
      p     == prepare(st1, [slots |-> [i \in 1 .. n |-> Len(st.cells) + i]],
                       [i \in DOMAIN f.infos |-> IF i <= n THEN [f.infos[i] EXCEPT !.deleted = FALSE]
                                                 ELSE f.infos[i]], a)
      d     == Len(st.defers) + 1
      fm    == [local |-> p[2], up |-> f.captured, upInfos |-> f.upInfos, act |-> a, defers |-> d]
      body  == ExecChunk([p[1] EXCEPT !.defers = Append(@, <<>>)], fm, f.body)
      after == runDefers(body.st, fm, body.st.defers[d], NoExc)
  IN  CASE ~ArityOK(f, args) -> Throw(st, "arity mismatch")
        [] ArityOK(f, args) /\ ~OptsOK(f, opts) -> Throw(st, "unsupported option")
        [] ArityOK(f, args) /\ OptsOK(f, opts) ->
             IF body.exc = NoExc \/ (f.catchReturn /\ body.exc = Exc("return"))
             THEN after ELSE [after EXCEPT !.exc = body.exc]

\* each: a function that breaks or throws ends the iteration.
RECURSIVE each(_, _, _, _)
each(st, fm, f, vs) ==
  IF vs = <<>> THEN Ok(st)
  ELSE LET r == Call(st, fm, f, <<Head(vs)>>, <<>>)
       IN  IF r.exc = NoExc \/ Reason(r.exc) \in {"nil", "continue"}
           THEN each(r.st, fm, f, Tail(vs))
           ELSE IF Reason(r.exc) = "break" THEN Ok(r.st)
           ELSE r

\* CombineNs of the upvalues and the local namespace; names of the latter
\* take precedence.
CombineNs(st, fm) ==
  LET loc  == st.nss[fm.local]
      free == SelectSeq([i \in DOMAIN fm.up |-> i],
                LAMBDA i : ~fm.upInfos[i].deleted /\ lookup(loc.infos, fm.upInfos[i].name) = 0)
  IN  [slots |-> loc.slots \o [i \in DOMAIN free |-> fm.up[free[i]]],
       infos |-> loc.infos \o [i \in DOMAIN free |-> fm.upInfos[free[i]]]]

\* eval: the code runs in a copy of the namespace.
evalFn(st, fm, code) ==
  LET ns == CombineNs(st, fm)
      p  == PrepareEval(st, code, ns, Range(ns.slots))
  IN  IF ~p[1] THEN Throw(st, "compilation error") ELSE ExecChunk(p[2], p[3], p[4])

CallGoFn(st, fm, name, args) ==
  LET fn == BuiltinFns[name]
  IN  IF Len(args) < fn.low \/ Len(args) > fn.high THEN Throw(st, "arity mismatch")
      ELSE IF \E i \in fn.fns : ~IsFn(args[i]) THEN Throw(st, "wrong type")
      ELSE CASE name = "nop~" -> Ok(st)
             [] name = "put~" -> Ok([st EXCEPT !.out = @ \o args])
             [] name = "fail~" -> Throw(st, IF args[1][1] = "e" THEN args[1][2] ELSE "fail")
             [] name = "return~" -> Throw(st, "return")
             [] name = "break~" -> Throw(st, "break")
             [] name = "continue~" -> Throw(st, "continue")
             [] name = "defer~" ->
                  IF fm.defers = 0 THEN Throw(st, "not in closure")
                  ELSE Ok([st EXCEPT !.defers[fm.defers] = Append(@, <<"call", args[1]>>)])
             [] name = "each~" ->
                  IF args[2][1] # "list" THEN Throw(st, "cannot iterate")
                  ELSE each(st, fm, args[1], args[2][2])
             [] name = "eval~" -> evalFn(st, fm, args[1][2])
             [] name = "more~" ->
                  Ok([st EXCEPT !.out = Append(@, <<"b", st.inp > 0>>),
                                !.inp = IF @ = 0 THEN 0 ELSE @ - 1])

Call(st, fm, f, args, opts) ==
  CASE f[1] = "closure" -> CallClosure(st, f[2], args, opts)
    [] f[1] = "gofn" -> IF opts # <<>> /\ f[2] # "nop~" THEN Throw(st, "no option accepted")
                        ELSE CallGoFn(st, fm, f[2], args)
    [] f[1] = "external" -> Throw(st, "external command fails")

(***************************************************************************)
(* Forms, pipelines of one form, and chunks.                               *)
(***************************************************************************)
\* An ordinary command: head, arguments, options, then the call.
ExecCall(st, fm, op) ==
  LET h == evalForValue(st, fm, op[2])
      a == ExecValues(h.st, fm, op[3])
      o == ExecValues(a.st, fm, [i \in DOMAIN op[4] |-> op[4][i][2]])
      r == Call(o.st, fm, h.vals[1], a.vals,
                [i \in DOMAIN op[4] |-> <<op[4][i][1], o.vals[i]>>])
  IN  IF h.exc # NoExc THEN h
      ELSE IF ~IsFn(h.vals[1]) THEN Throw(h.st, "bad command")
      ELSE IF a.exc # NoExc THEN a
      ELSE IF o.exc # NoExc THEN o
      ELSE IF r.exc = NoExc THEN Throw(r.st, "nil") ELSE r

ExecForm(st, fm, op) ==
  CASE op[1] = "nop"    -> Ok(st)
    [] op[1] = "assign" -> ExecAssign(st, fm, op)
    [] op[1] = "with"   -> ExecWith(st, fm, op)
    [] op[1] = "del"    -> ExecDel(st, fm, op[2])
    [] op[1] = "fn"     -> ExecFn(st, fm, op)
    [] op[1] = "use"    -> ExecUse(st, fm, op)
    [] op[1] \in {"and", "or", "coalesce"} ->
         ExecLogic(st, fm, op[1], op[2],
                   IF op[1] = "coalesce" THEN Nil ELSE <<"b", op[1] = "and">>)
    [] op[1] = "if"     -> ExecIf(st, fm, op)
    [] op[1] = "while"  -> ExecWhile(st, fm, op)
    [] op[1] = "for"    -> ExecFor(st, fm, op)
    [] op[1] = "try"    -> ExecTry(st, fm, op)
    [] op[1] = "call"   -> ExecCall(st, fm, op)

\* MakePipelineError for one form: an exception that wraps nil is none.
PipelineError(exc) == IF exc = Exc("nil") THEN NoExc ELSE exc

ExecChunk(st, fm, ops) ==
  IF ops = <<>> THEN Ok(st)
  ELSE LET r == ExecForm(st, fm, Head(ops))
       IN  IF PipelineError(r.exc) # NoExc THEN R(r.st, r.exc, <<>>)
           ELSE ExecChunk(r.st, fm, Tail(ops))

(***************************************************************************)
(* Evaler.Eval: code that does not compile changes nothing; otherwise the  *)
(* new global namespace is installed before the code runs.                 *)
(***************************************************************************)
NewEvaler(input) ==
  [cells |-> <<>>, nss |-> << [slots |-> <<>>, infos |-> <<>>] >>, global |-> 1,
   acts |-> << [parent |-> 0, adopted |-> {}] >>, defers |-> <<>>, out |-> <<>>, env |-> <<>>,
   mods |-> [m \in DOMAIN ModCode |-> 0], failed |-> {}, complete |-> {},
   inp |-> input, gone |-> {}, bad |-> {}, decls |-> 0]

Eval(st, code) ==
  LET g == st.nss[st.global]
      c == chunkOp(NewCompiler(g.infos, EnvOf(g.infos), st.decls), code)
      p == prepare([st EXCEPT !.decls = c[1].decls], g, c[1].scopes[1], 1)
      r == ExecChunk([p[1] EXCEPT !.global = p[2]],
                     [local |-> p[2], up |-> <<>>, upInfos |-> <<>>, act |-> 1, defers |-> 0], c[2])
  IN  IF c[1].failed THEN Throw(st, "compilation error") ELSE r

=============================================================================
