------------------------------- MODULE Values -------------------------------
(***************************************************************************)
(* Values (pkg/eval/vals) and the builtin functions on numbers, containers *)
(* and streams of values.                                                  *)
(*                                                                         *)
(* A value is a record with its Go type t: nil, bool, int, bigint, rat,    *)
(* float, string, list, map, fieldmap.  An int has IntBits bits.  A float  *)
(* is a number of halves (fields n), or one of the special ones; what      *)
(* matters of floats here is that exact numbers are rounded to them.  A    *)
(* string is a sequence of bytes; a map a sequence of pairs in the order   *)
(* of iteration, searched by hash and Equal.  There are no files, pseudo   *)
(* maps or values with Equal, Hash or Index methods of their own.          *)
(***************************************************************************)
EXTENDS Integers, Sequences, FiniteSets, SequencesExt

CONSTANT IntBits

MaxInt == 2 ^ (IntBits - 1) - 1
MinInt == -(2 ^ (IntBits - 1))
Wrap(i) == ((i - MinInt) % (2 ^ IntBits)) + MinInt

Nil == [t |-> "nil"]
BoolV(b) == [t |-> "bool", b |-> b]
SmallInt(i) == [t |-> "int", n |-> i]
BigInt(i) == [t |-> "bigint", n |-> i]
Str(bytes) == [t |-> "string", b |-> bytes]
ListV(s) == [t |-> "list", e |-> s]
MapV(pairs) == [t |-> "map", p |-> pairs]
Float(n) == [t |-> "float", s |-> "num", n |-> n]
Special(s) == [t |-> "float", s |-> s, n |-> 0]     \* inf, -inf, nan, -0

Ok(v) == [v |-> v, err |-> "none"]
Err(e) == [v |-> Nil, err |-> e]

(***************************************************************************)
(* Numbers (vals/num.go).                                                  *)
(***************************************************************************)
Abs(i) == IF i < 0 THEN -i ELSE i
Gcd(a, b) == CHOOSE g \in 1 .. (Abs(a) + b) : /\ a % g = 0 /\ b % g = 0
                                              /\ \A h \in 1 .. (Abs(a) + b) : a % h = 0 /\ b % h = 0 => h <= g
\* big.Rat keeps its values in simplest form.
Rat(n, d) ==
  LET sign == IF d < 0 THEN -1 ELSE 1
      g    == Gcd(n, Abs(d))
  IN  [t |-> "rat", n |-> (sign * n) \div g, d |-> Abs(d) \div g]

IsNum(v) == v.t \in {"int", "bigint", "rat", "float"}
Types == <<"int", "bigint", "rat", "float">>
getNumType(v) == CHOOSE i \in 1 .. 4 : Types[i] = v.t
getInt(i) == i \in MinInt .. MaxInt

NormalizeBigInt_never(z) == z

NormalizeBigInt(z) == IF getInt(z.n) THEN SmallInt(z.n) ELSE z

NormalizeBigRat(z) == IF z.d = 1 THEN NormalizeBigInt(BigInt(z.n)) ELSE z
PromoteToBigInt(v) == BigInt(v.n)
PromoteToBigRat(v) == IF v.t = "rat" THEN v ELSE Rat(v.n, 1)
\* The half nearest to n / d.
Nearest(n, d) == Float((4 * n + d) \div (2 * d))
\* Integers beyond the range of int64 become infinite; an int has 64 bits too.
ConvertToFloat64(v) ==
  CASE v.t = "int"    -> Nearest(v.n, 1)
    [] v.t = "bigint" -> IF getInt(v.n) THEN Nearest(v.n, 1) ELSE Special(IF v.n < 0 THEN "-inf" ELSE "inf")
    [] v.t = "rat"    -> Nearest(v.n, v.d)
    [] v.t = "float"  -> v
UnifyTo(v, typ) ==
  CASE typ = 1 -> v [] typ = 2 -> PromoteToBigInt(v) [] typ = 3 -> PromoteToBigRat(v) [] typ = 4 -> ConvertToFloat64(v)
HighestType(vs, typ) == LET ts == {getNumType(vs[i]) : i \in DOMAIN vs} \cup {typ}
                        IN  CHOOSE m \in ts : \A x \in ts : x <= m
UnifyNums(vs, typ) == [i \in DOMAIN vs |-> UnifyTo(vs[i], HighestType(vs, typ))]
UnifyNums2(a, b, typ) == UnifyNums(<<a, b>>, typ)
FromGo(v) == CASE v.t = "bigint" -> NormalizeBigInt(v) [] v.t = "rat" -> NormalizeBigRat(v) [] OTHER -> v

(***************************************************************************)
(* Hashes, equality and order.  Hashes keep 16 bits here; what the hash    *)
(* functions of the base types return is arbitrary.                        *)
(***************************************************************************)
DJBCombine(acc, h) == (acc * 33 + h) % 65536
DJB(h1, h2) == DJBCombine(DJBCombine(5381, h1), h2)
Float64bits(v) == CASE v.s = "num" -> (v.n + 1024) % 1024 [] v.s = "-0" -> 32768 [] v.s = "inf" -> 20000
                    [] v.s = "-inf" -> 52768 [] v.s = "nan" -> 20001

\* A field map (a Go struct) behaves as the map of its fields.
IsMapLike(v) == v.t \in {"map", "fieldmap"}

RECURSIVE Hash(_), Equal(_, _)

HashSeq(s) == FoldLeft(LAMBDA h, x : DJBCombine(h, Hash(x)), 5381, s)
hashMap(pairs) == FoldLeft(LAMBDA h, p : (h + DJB(Hash(p[1]), Hash(p[2]))) % 65536, 0, pairs)

Hash(v) ==
  CASE v.t = "nil"    -> 0
    [] v.t = "bool"   -> IF v.b THEN 1 ELSE 0
    [] v.t = "int"    -> v.n % 65536
    [] v.t = "bigint" -> DJBCombine(DJBCombine(5381, IF v.n < 0 THEN 65535 ELSE 1), Abs(v.n) % 65536)
    [] v.t = "rat"    -> DJB(Hash(BigInt(v.n)), Hash(BigInt(v.d)))
    [] v.t = "float"  -> Float64bits(v)
    [] v.t = "string" -> FoldLeft(DJBCombine, 5381, v.b)
    [] v.t = "list"   -> HashSeq(v.e)
    [] IsMapLike(v)   -> hashMap(v.p)

\* The positions of a key in a map: found by hash and Equal.  A field map
\* is searched for its field names.
At(m, k) == {i \in DOMAIN m.p : Hash(m.p[i][1]) = Hash(k) /\ Equal(m.p[i][1], k)}

equalList(x, y) == Len(x) = Len(y) /\ \A i \in DOMAIN x : Equal(x[i], y[i])
equalMap(x, y) == /\ Len(x.p) = Len(y.p)
                  /\ \A i \in DOMAIN x.p : \E j \in At(y, x.p[i][1]) : Equal(x.p[i][2], y.p[j][2])

FloatEqual(x, y) ==
  /\ x.s # "nan" /\ y.s # "nan"
  /\ \/ x.s = y.s /\ x.n = y.n
     \/ x.n = 0 /\ y.n = 0 /\ {x.s, y.s} \subseteq {"num", "-0"}

Equal(x, y) ==
  CASE x.t = "nil"               -> y.t = "nil"
    [] x.t = "bool"              -> y.t = "bool" /\ x.b = y.b
    [] x.t \in {"int", "bigint"} -> y.t = x.t /\ x.n = y.n
    [] x.t = "rat"               -> y.t = "rat" /\ x.n = y.n /\ x.d = y.d
    [] x.t = "float"             -> y.t = "float" /\ FloatEqual(x, y)
    [] x.t = "string"            -> y.t = "string" /\ x.b = y.b
    [] x.t = "list"              -> y.t = "list" /\ equalList(x.e, y.e)
    [] IsMapLike(x)              -> IsMapLike(y) /\ equalMap(x, y)

compareInt(a, b) == IF a < b THEN "less" ELSE IF a > b THEN "more" ELSE "equal"
FloatRank(v) == CASE v.s = "inf" -> 10000 [] v.s = "-inf" -> -10000 [] OTHER -> v.n
compareFloat(a, b) ==
  CASE a.s = "nan" /\ b.s = "nan" -> "equal"
    [] a.s = "nan" /\ b.s # "nan" -> "less"
    [] a.s # "nan" /\ b.s = "nan" -> "more"
    [] OTHER -> compareInt(FloatRank(a), FloatRank(b))
compareNum(x, y) ==
  LET u == UnifyNums2(x, y, 1)
  IN  CASE u[1].t \in {"int", "bigint"} -> compareInt(u[1].n, u[2].n)
        [] u[1].t = "rat"   -> compareInt(u[1].n * u[2].d, u[2].n * u[1].d)
        [] u[1].t = "float" -> compareFloat(u[1], u[2])
compareBytes(a, b) ==
  LET d == {i \in DOMAIN a \cap DOMAIN b : a[i] # b[i]}
  IN  IF d = {} THEN compareInt(Len(a), Len(b))
      ELSE LET i == CHOOSE i \in d : \A j \in d : i <= j IN compareInt(a[i], b[i])

\* The type of a value as CmpTotal sees it; types are ordered somehow.
typeOf(v) ==
  CASE v.t = "nil" -> 1 [] v.t = "bool" -> 2 [] IsNum(v) -> 3 [] v.t = "string" -> 4 [] v.t = "list" -> 5
    [] IsMapLike(v) -> 6

RECURSIVE cmpInner(_, _, _)
cmpRecurse_uncomparableLess(a, b, total) ==
  LET o == cmpInner(a, b, total)
  IN  CASE total /\ typeOf(a) # typeOf(b) -> compareInt(typeOf(a), typeOf(b))
        [] total /\ typeOf(a) = typeOf(b) -> IF o = "uncomparable" THEN "less" ELSE o
        [] ~total -> o

cmpRecurse(a, b, total) ==
  LET o == cmpInner(a, b, total)
  IN  CASE total /\ typeOf(a) # typeOf(b) -> compareInt(typeOf(a), typeOf(b))
        [] total /\ typeOf(a) = typeOf(b) -> IF o = "uncomparable" THEN "equal" ELSE o
        [] ~total -> o

\* Lists are compared element by element up to the first difference.
compareList(a, b, total) ==
  LET os == [i \in 1 .. (IF Len(a) < Len(b) THEN Len(a) ELSE Len(b)) |-> cmpRecurse(a[i], b[i], total)]
      d  == {i \in DOMAIN os : os[i] # "equal"}
  IN  IF d = {} THEN compareInt(Len(a), Len(b)) ELSE os[CHOOSE i \in d : \A j \in d : i <= j]

cmpInner(a, b, total) ==
  CASE a.t = "nil" /\ b.t = "nil"       -> "equal"
    [] a.t = "bool" /\ b.t = "bool"     -> IF a.b = b.b THEN "equal" ELSE IF ~a.b THEN "less" ELSE "more"
    [] IsNum(a) /\ IsNum(b)             -> compareNum(a, b)
    [] a.t = "string" /\ b.t = "string" -> compareBytes(a.b, b.b)
    [] a.t = "list" /\ b.t = "list"     -> compareList(a.e, b.e, total)
    [] IsMapLike(a) /\ Equal(a, b)      -> "equal"
    [] OTHER                            -> "uncomparable"
Cmp(a, b) == cmpRecurse(a, b, FALSE)
CmpTotal(a, b) == cmpRecurse(a, b, TRUE)

(***************************************************************************)
(* Indices (vals/index_list.go, index_string.go).  A raw index is what     *)
(* splitIndexString makes of a string: the separator, "" for a single      *)
(* number, and two parts, each <<>> if empty, the number in it, which may  *)
(* be too large for an int, or NotANumber.  An int is like a string with   *)
(* the same number.                                                        *)
(***************************************************************************)
NotANumber == <<0, 0>>
atoi(part) ==
  IF part \in {<<>>, NotANumber} THEN Err("index must be integer")
  ELSE IF getInt(part[1]) THEN Ok(part[1]) ELSE Err("out of range")

adjustAndCheckIndex(i, n, includeN) ==
  IF i < 0 THEN IF i < -n THEN Err("out of range") ELSE Ok(i + n)
  ELSE IF i > n \/ (i = n /\ ~includeN) THEN Err("out of range") ELSE Ok(i)

SliceUpper_inclusive(r, n) ==
  IF r.high = <<>> THEN Ok(n)
  ELSE LET j == atoi(r.high)
       IN  IF j.err = "none" /\ r.sep = "..=" THEN Ok(Wrap(j.v + 1)) ELSE j

\* An inclusive upper bound of -1 is the same as none.
SliceUpper(r, n) ==
  IF r.high = <<>> THEN Ok(n)
  ELSE LET j == atoi(r.high)
       IN  IF j.err = "none" /\ r.sep = "..=" THEN Ok(IF j.v = -1 THEN n ELSE Wrap(j.v + 1)) ELSE j

\* The bounds of an index: one number, or the two of a slice.
parseIndexString(r, n) ==
  IF r.sep = "" THEN <<atoi(r.low)>>
  ELSE <<IF r.low = <<>> THEN Ok(0) ELSE atoi(r.low), SliceUpper(r, n)>>

ConvertListIndex(r, n) ==
  LET slice  == r.sep # ""
      parsed == parseIndexString(r, n)
      bounds == [k \in DOMAIN parsed |->
                   IF parsed[k].err # "none" THEN parsed[k] ELSE adjustAndCheckIndex(parsed[k].v, n, slice)]
      \* Both are parsed before one is checked.
      errs   == SelectSeq(parsed \o bounds, LAMBDA b : b.err # "none")
  IN  IF errs # <<>> THEN Err(errs[1].err)
      ELSE IF slice /\ bounds[2].v < bounds[1].v THEN Err("out of range")
      ELSE Ok([slice |-> slice, lower |-> bounds[1].v, upper |-> IF slice THEN bounds[2].v ELSE 0])

\* UTF-8: a byte below 128 is a character, 195 starts one of two bytes.
RuneSize(s, i) == IF i >= Len(s) THEN 0
                  ELSE IF s[i + 1] < 128 THEN 1
                  ELSE IF s[i + 1] = 195 /\ i + 1 < Len(s) /\ s[i + 2] \in 128 .. 191 THEN 2 ELSE 0
startsWithRuneBoundary(s) == s = <<>> \/ RuneSize(s, 0) > 0
endsWithRuneBoundary(s) ==
  s = <<>> \/ s[Len(s)] < 128 \/ (Len(s) > 1 /\ RuneSize(s, Len(s) - 2) = 2)
convertStringIndex(r, s) ==
  LET c == ConvertListIndex(r, Len(s))
  IN  IF c.err # "none" THEN Err(c.err)
      ELSE IF c.v.slice
      THEN IF startsWithRuneBoundary(SubSeq(s, c.v.lower + 1, Len(s))) /\ endsWithRuneBoundary(SubSeq(s, 1, c.v.upper))
           THEN Ok(<<c.v.lower, c.v.upper>>) ELSE Err("rune boundary")
      ELSE LET size == RuneSize(s, c.v.lower)
           IN  IF size = 0 THEN Err("rune boundary") ELSE Ok(<<c.v.lower, c.v.lower + size>>)
indexString(s, r) ==
  LET c == convertStringIndex(r, s)
  IN  IF c.err # "none" THEN c ELSE Ok(Str(SubSeq(s, c.v[1] + 1, c.v[2])))
indexList(l, r) ==
  LET c == ConvertListIndex(r, Len(l))
  IN  IF c.err # "none" THEN c
      ELSE IF c.v.slice THEN Ok(ListV(SubSeq(l, c.v.lower + 1, c.v.upper))) ELSE Ok(l[c.v.lower + 1])
assocString(s, r, repl) ==
  LET c == convertStringIndex(r, s)
  IN  IF c.err # "none" THEN c
      ELSE IF repl.t # "string" THEN Err("replacement must be string")
      ELSE Ok(Str(SubSeq(s, 1, c.v[1]) \o repl.b \o SubSeq(s, c.v[2] + 1, Len(s))))
assocList(l, r, v) ==
  LET c == ConvertListIndex(r, Len(l))
  IN  IF c.err # "none" THEN c
      ELSE IF c.v.slice THEN Err("assoc with slice") ELSE Ok(ListV(ReplaceAt(l, c.v.lower + 1, v)))

\* Maps.  A field map becomes a map when it is changed.
MapIndex(m, k) == IF At(m, k) = {} THEN Err("no such key") ELSE Ok(m.p[CHOOSE i \in At(m, k) : TRUE][2])
promoteFieldMapToMap(m) == MapV(m.p)
MapAssoc(m, k, v) ==
  LET p == promoteFieldMapToMap(m).p
  IN  IF At(m, k) = {} THEN MapV(Append(p, <<k, v>>))
      ELSE MapV(ReplaceAt(p, CHOOSE i \in At(m, k) : TRUE, <<k, v>>))
Dissoc(m, k) == MapV(SelectSeq(m.p, LAMBDA e : ~(Hash(e[1]) = Hash(k) /\ Equal(e[1], k))))
HasKey(m, k) == At(m, k) # {}

\* HasKey of a list or string only converts the index.
hasKeyViaIterateKeys(len, r) == ConvertListIndex(r, len).err = "none"

\* scanFieldMapFromMap: whether a map with the keys src can be scanned into a
\* field map with the keys dst, where the values of the keys fit can be scanned
\* into the fields of the same name.
scanFieldMapFromMap(src, dst, fit, allowMissing, allowExtra) ==
  LET n    == Cardinality(src)
      used == Cardinality(src \cap dst)
  IN  /\ ~allowMissing /\ ~allowExtra => n = Cardinality(dst)
      /\ allowMissing /\ ~allowExtra => n <= Cardinality(dst)
      /\ ~allowMissing /\ allowExtra => n >= Cardinality(dst)
      /\ ~allowMissing => dst \subseteq src
      /\ src \cap dst \subseteq fit
      /\ ~allowExtra => used >= n

(***************************************************************************)
(* Arithmetic (builtin_fn_num.go).  Results pass through FromGo on output. *)
(* Sums and products of floats are not modelled: they are AnyFloat.        *)
(***************************************************************************)
AnyFloat == Special("any")
AddN(a, b) == IF a.t = "rat" THEN Rat(a.n * b.d + b.n * a.d, a.d * b.d) ELSE BigInt(a.n + b.n)
NegN(a) == [a EXCEPT !.n = -a.n]
MulN(a, b) == IF a.t = "rat" THEN Rat(a.n * b.n, a.d * b.d) ELSE BigInt(a.n * b.n)
QuoN(a, b) == Rat(a.n * b.d, a.d * b.n)
IsExact0(v) == v.t = "int" /\ v.n = 0
HasFloat(vs) == \E i \in DOMAIN vs : vs[i].t = "float"

\* A float that is not a number is unequal to every one, and neither less nor more.
unifyNums2And(op, a, b) ==
  LET u == UnifyNums2(a, b, 1)
      o == IF \E i \in 1 .. 2 : u[i].t = "float" /\ u[i].s = "nan" THEN "unordered" ELSE compareNum(a, b)
  IN  o \in CASE op = "<" -> {"less"} [] op = "<=" -> {"less", "equal"} [] op = "==" -> {"equal"}
              [] op = "!=" -> {"less", "more", "unordered"} [] op = ">" -> {"more"} [] op = ">=" -> {"more", "equal"}
chainCompareNums(op, vs) == \A i \in 1 .. Len(vs) - 1 : unifyNums2And(op, vs[i], vs[i + 1])

exactNum(v) ==
  IF v.t # "float" THEN Ok(v)
  ELSE IF v.s \in {"num", "-0"} THEN Ok(FromGo(Rat(v.n, 2))) ELSE Err("finite float")

add(vs) == IF HasFloat(vs) THEN Ok(AnyFloat)
           ELSE Ok(FromGo(FoldLeft(AddN, UnifyTo(SmallInt(0), HighestType(vs, 2)), UnifyNums(vs, 2))))
sub(vs) ==
  LET u == UnifyNums(vs, 2)
  IN  CASE vs = <<>> -> Err("arity")
        [] vs # <<>> /\ HasFloat(vs) -> Ok(AnyFloat)
        [] Len(vs) = 1 /\ ~HasFloat(vs) -> Ok(FromGo(NegN(u[1])))
        [] Len(vs) > 1 /\ ~HasFloat(vs) -> Ok(FromGo(FoldLeft(LAMBDA a, b : AddN(a, NegN(b)), u[1], Tail(u))))
mul(vs) ==
  LET exact0 == \E i \in DOMAIN vs : IsExact0(vs[i])
      hasInf == \E i \in DOMAIN vs : vs[i].t = "float" /\ vs[i].s \in {"inf", "-inf"}
  IN  CASE exact0 /\ ~hasInf -> Ok(SmallInt(0))
        [] ~(exact0 /\ ~hasInf) /\ HasFloat(vs) -> Ok(AnyFloat)
        [] OTHER -> Ok(FromGo(FoldLeft(MulN, UnifyTo(SmallInt(1), HighestType(vs, 2)), UnifyNums(vs, 2))))
\* Only the divisors after the first number are checked.  There is a first one:
\* / without arguments is not a division.
div(vs) ==
  LET u == UnifyNums(vs, 3)
  IN  CASE \E i \in 2 .. Len(vs) : IsExact0(vs[i]) -> Err("divide by zero")
        [] (\A i \in 2 .. Len(vs) : ~IsExact0(vs[i])) /\ IsExact0(vs[1]) -> Ok(SmallInt(0))
        [] OTHER -> IF HasFloat(vs) THEN Ok(AnyFloat)
                    ELSE IF Len(vs) = 1 THEN Ok(FromGo(Rat(u[1].d, u[1].n)))
                    ELSE Ok(FromGo(FoldLeft(QuoN, u[1], Tail(u))))
\* Go's remainder has the sign of the dividend.
RemN(a, b) == LET r == Abs(a) % Abs(b) IN IF a < 0 THEN -r ELSE r
checkExactIntArg(v) == v.t \in {"int", "bigint"}
rem(a, b) ==
  IF ~checkExactIntArg(a) \/ ~checkExactIntArg(b) THEN Err("exact integer")
  ELSE IF IsExact0(b) THEN Err("divide by zero")
  ELSE Ok(FromGo(BigInt(RemN(a.n, b.n))))

\* The results randint may have.  Intn panics if its argument is not positive.
randIntSmallInt(low, high) ==
  IF high <= low THEN {Err("high value")}
  ELSE IF Wrap(high - low) <= 0 THEN {Err("panic")}
  ELSE {Ok(SmallInt(Wrap(low + x))) : x \in 0 .. Wrap(high - low) - 1}
randIntBigInt(low, high) ==
  IF high <= low THEN {Err("high value")} ELSE {Ok(FromGo(BigInt(x))) : x \in low .. high - 1}
randint(args) ==
  LET low  == IF Len(args) = 1 THEN SmallInt(0) ELSE args[1]
      high == args[Len(args)]
  IN  IF Len(args) \notin 1 .. 2 THEN {Err("arity")}
      ELSE IF \E i \in DOMAIN args : ~checkExactIntArg(args[i]) THEN {Err("exact integer")}
      ELSE IF low.t = "int" /\ high.t = "int" THEN randIntSmallInt(low.n, high.n)
      ELSE randIntBigInt(low.n, high.n)

\* The numbers from cur up or down to end.  Ints stop before they overflow;
\* floats (in halves) do not get large enough to here.
RECURSIVE RangeBuiltin(_, _, _, _), RangeBig(_, _, _)
RangeBuiltin(cur, end, step, float) ==
  LET next == IF float THEN cur + step ELSE Wrap(cur + step)
  IN  IF (step > 0 /\ cur >= end) \/ (step < 0 /\ cur <= end) THEN <<>>
      ELSE <<IF float THEN Float(cur) ELSE SmallInt(cur)>>
             \o IF (step > 0 /\ next <= cur) \/ (step < 0 /\ next >= cur) THEN <<>>
                ELSE RangeBuiltin(next, end, step, float)
RangeBig(cur, end, step) ==
  LET o == compareNum(cur, end)
  IN  IF (step.n > 0 /\ o # "less") \/ (step.n < 0 /\ o # "more") THEN <<>>
      ELSE <<FromGo(cur)>> \o RangeBig(AddN(cur, step), end, step)
\* One argument is the end.  Ranges of special floats are not modelled.
rangeFn(args, step) ==
  LET u    == UnifyNums((IF Len(args) = 1 THEN <<SmallInt(0)>> ELSE <<>>) \o args \o step, 1)
      up   == compareNum(u[1], u[2]) # "more"
      s    == IF step # <<>> THEN u[3] ELSE UnifyTo(SmallInt(IF up THEN 1 ELSE -1), getNumType(u[1]))
  IN  IF Len(args) \notin 1 .. 2 THEN Err("arity")
      ELSE IF \E i \in DOMAIN u : u[i].t = "float" /\ u[i].s # "num" THEN Ok(<<AnyFloat>>)
      ELSE IF (up /\ s.n <= 0) \/ (~up /\ s.n >= 0) THEN Err("step")
      ELSE Ok(IF u[1].t \in {"int", "float"} THEN RangeBuiltin(u[1].n, u[2].n, s.n, u[1].t = "float")
              ELSE RangeBig(u[1], u[2], s))

(***************************************************************************)
(* Streams of values (builtin_fn_stream.go, builtin_fn_container.go).      *)
(***************************************************************************)
take(n, vs) == SubSeq(vs, 1, IF n < Len(vs) THEN n ELSE Len(vs))
drop(n, vs) == IF n < 0 THEN vs ELSE SubSeq(vs, n + 1, Len(vs))
compact(vs) == FoldLeft(LAMBDA out, v : IF out = <<>> \/ ~Equal(v, out[Len(out)]) THEN Append(out, v) ELSE out, <<>>, vs)

\* The characters of a string; an invalid byte gives U+FFFD.
RECURSIVE Runes(_)
Runes(s) ==
  LET size == RuneSize(s, 0)
      n    == IF size = 0 THEN 1 ELSE size
  IN  IF s = <<>> THEN <<>>
      ELSE <<Str(IF size = 0 THEN <<239, 191, 189>> ELSE SubSeq(s, 1, n))>> \o Runes(SubSeq(s, n + 1, Len(s)))
CanIterate(v) == v.t \in {"string", "list"}
Collect(v) == IF v.t = "string" THEN Runes(v.b) ELSE v.e
LenOf(v) == IF v.t = "string" THEN Len(v.b) ELSE IF v.t = "list" THEN Len(v.e) ELSE IF IsMapLike(v) THEN Len(v.p) ELSE -1

hasValue(c, v) ==
  IF c.t = "map" THEN Ok(BoolV(\E i \in DOMAIN c.p : Equal(c.p[i][2], v)))
  ELSE IF CanIterate(c) THEN Ok(BoolV(\E i \in DOMAIN Collect(c) : Equal(Collect(c)[i], v)))
  ELSE Err("cannot iterate")
\* The length of a string is that of its bytes, but its elements are characters.
makeMap(vs) ==
  FoldLeft(LAMBDA m, v : IF m.err # "none" THEN m
                         ELSE IF ~CanIterate(v) THEN Err("input to make-map")
                         ELSE IF LenOf(v) # 2 THEN Err("input to make-map")
                         ELSE IF Len(Collect(v)) # 2 THEN Err("internal bug")
                         ELSE Ok(MapAssoc(m.v, Collect(v)[1], Collect(v)[2])),
           Ok(MapV(<<>>)), vs)

\* order: the options are total, reverse and two callbacks: lessThan, which is
\* "none", "longer" or "bad", and key, which is "none", "length" or "bad".  A bad
\* callback fails, or does not output one value of the type that is needed.
Size(v) == IF v.t = "list" THEN Len(v.e) ELSE 0
SortKey(opts, v) == IF opts.key = "length" THEN SmallInt(Size(v)) ELSE v

\* slice.Less of two keys, or values if there are no keys.  s.err is sticky.
Less(s, opts, a, b) ==
  LET o == Cmp(a, b)
  IN  CASE s.err # "none" -> [s EXCEPT !.r = TRUE]
        [] s.err = "none" /\ opts.lessThan = "bad" -> [s EXCEPT !.err = "less-than", !.r = TRUE]
        [] s.err = "none" /\ opts.lessThan = "longer" -> [s EXCEPT !.r = Size(a) > Size(b)]
        [] s.err = "none" /\ opts.lessThan = "none" /\ opts.total -> [s EXCEPT !.r = CmpTotal(a, b) = "less"]
        [] OTHER -> IF o = "uncomparable" THEN [s EXCEPT !.err = "uncomparable", !.r = TRUE] ELSE [s EXCEPT !.r = o = "less"]
LessOrReverse_negated(s, opts, i, j) ==
  LET l == Less(s, opts, s.keys[i], s.keys[j]) IN [l EXCEPT !.r = IF opts.reverse THEN ~l.r ELSE l.r]

LessOrReverse(s, opts, i, j) ==
  IF opts.reverse THEN Less(s, opts, s.keys[j], s.keys[i]) ELSE Less(s, opts, s.keys[i], s.keys[j])

\* Values and keys are swapped together.
SwapIn(seq, i, j) == ReplaceAt(ReplaceAt(seq, i, seq[j]), j, seq[i])
Swap(s, i, j) == [s EXCEPT !.vs = SwapIn(@, i, j), !.keys = SwapIn(@, i, j)]

\* sort.Stable sorts as few values as here by insertion.
RECURSIVE Insert(_, _, _)
Insert(s, opts, j) ==
  IF j = 1 THEN s
  ELSE LET l == LessOrReverse(s, opts, j, j - 1)
       IN  IF l.r THEN Insert(Swap(l, j, j - 1), opts, j - 1) ELSE l
order(vs, opts) ==
  LET start == [vs |-> vs, keys |-> [i \in DOMAIN vs |-> SortKey(opts, vs[i])], err |-> "none", r |-> FALSE]
      s     == FoldLeft(LAMBDA st, i : Insert(st, opts, i), start, [i \in DOMAIN vs |-> i])
  IN  IF opts.total /\ opts.lessThan # "none" THEN Err("both &total and &less-than")
      ELSE IF opts.key = "bad" /\ vs # <<>> THEN Err("key")
      ELSE IF s.err # "none" THEN Err(s.err) ELSE Ok(s.vs)

(***************************************************************************)
(* Properties.                                                             *)
(***************************************************************************)
Normal(v) == CASE v.t = "int" -> v.n \in MinInt .. MaxInt [] v.t = "bigint" -> v.n \notin MinInt .. MaxInt
               [] v.t = "rat" -> v.d > 1 [] OTHER -> TRUE
SameNumber(v, n, d) == CASE v.t = "rat" -> v.n * d = n * v.d [] v.t \in {"int", "bigint"} -> v.n * d = n

\* Exact numbers stay exact: +, - and * of two give the mathematical result
\* in its only representation, whatever the widths of the operands, and so do
\* / and % unless the divisor is 0, where they fail.  randint and range give
\* what they promise, except that randint fails on a range of more than
\* MaxInt ints, and range stops at the end of the ints.
ExactArithmetic(a, b) ==
  LET Num(v) == IF v.t = "rat" THEN <<v.n, v.d>> ELSE <<v.n, 1>>
      x == Num(a)
      y == Num(b)
      Is(r, n, d) == r.err = "none" /\ Normal(r.v) /\ SameNumber(r.v, n, d)
      ints == {a.t, b.t} \subseteq {"int", "bigint"}
      lt   == chainCompareNums("<", <<a, b>>)
      gt   == chainCompareNums(">", <<a, b>>)
  IN  /\ Is(add(<<a, b>>), x[1] * y[2] + y[1] * x[2], x[2] * y[2])
      /\ Is(sub(<<a, b>>), x[1] * y[2] - y[1] * x[2], x[2] * y[2])
      /\ Is(mul(<<a, b>>), x[1] * y[1], x[2] * y[2])
      /\ IF y[1] = 0 THEN div(<<a, b>>).err # "none" ELSE Is(div(<<a, b>>), x[1] * y[2] * (IF y[1] < 0 THEN -1 ELSE 1), x[2] * Abs(y[1]))
      /\ ints /\ y[1] # 0 => LET r == rem(a, b) IN Normal(r.v) /\ Abs(r.v.n) < Abs(b.n) /\ (a.n - r.v.n) % Abs(b.n) = 0
      /\ ints => \A r \in randint(<<a, b>>) :
           \/ r.err = "none" /\ Normal(r.v) /\ a.n <= r.v.n /\ r.v.n < b.n
           \/ r.err = "high value" /\ b.n <= a.n
           \/ r.err = "panic" /\ b.n - a.n > MaxInt
      /\ lt = (x[1] * y[2] < y[1] * x[2]) /\ gt = (x[1] * y[2] > y[1] * x[2])
      /\ chainCompareNums("==", <<a, b>>) = ~(lt \/ gt) /\ chainCompareNums("!=", <<a, b>>) = (lt \/ gt)
      /\ chainCompareNums("<=", <<a, b>>) = ~gt /\ chainCompareNums(">=", <<a, b>>) = ~lt
      /\ LET f == exactNum(ConvertToFloat64(a))
         IN  f.err = "none" => Normal(f.v) /\ LET d == Num(f.v) IN Abs(d[1] * x[2] - x[1] * d[2]) * 4 <= x[2] * d[2]
      /\ LET r == rangeFn(<<a, b>>, <<>>).v
         IN  /\ \A i \in DOMAIN r : Normal(r[i]) /\ SameNumber(r[i], x[1] + (i - 1) * x[2] * (IF Cmp(a, b) = "more" THEN -1 ELSE 1), x[2])
             /\ r # <<>> => Cmp(add(<<r[Len(r)], SmallInt(IF Cmp(a, b) = "more" THEN -1 ELSE 1)>>).v, b)
                              \in (IF Cmp(a, b) = "more" THEN {"less", "equal"} ELSE {"more", "equal"})
             /\ r = <<>> => Cmp(a, b) = "equal"

Exactly(v) == ~IsNum(v) \/ v.t # "float"
Opposite(o) == CASE o = "less" -> "more" [] o = "more" -> "less" [] OTHER -> o

\* CmpTotal orders all values without floats totally, Cmp agrees with it and
\* with Equal, and both are antisymmetric even with floats; so order puts
\* values in order, reversed or not, keeps equal ones in place, and outputs
\* nothing if it met two values that cannot be compared.  Equal values have the
\* same hash, so that a map finds every key equal to one it has, and compact
\* leaves one of each run of them.
OrderIsOrder(vs, opts) ==
  LET r == order(vs, opts)
      D == DOMAIN vs
      Before(a, b) == Less([err |-> "none", r |-> FALSE], opts, SortKey(opts, a), SortKey(opts, b)).r
      Ordered(a, b) == IF opts.reverse THEN ~Before(a, b) ELSE ~Before(b, a)
  IN  /\ \A i, j \in D : /\ CmpTotal(vs[i], vs[j]) = Opposite(CmpTotal(vs[j], vs[i]))
                         /\ Cmp(vs[i], vs[j]) = Opposite(Cmp(vs[j], vs[i]))
                         /\ Exactly(vs[i]) /\ Exactly(vs[j]) => (Cmp(vs[i], vs[j]) = "equal") = Equal(vs[i], vs[j])
                         /\ Equal(vs[i], vs[j]) => Hash(vs[i]) = Hash(vs[j])
      /\ LET c == compact(vs) IN /\ \A i \in 2 .. Len(c) : ~Equal(c[i - 1], c[i])
                                /\ \A i \in D : \E j \in DOMAIN c : Equal(c[j], vs[i]) \/ c[j] = vs[i]
      /\ \A i, j, k \in D :
           CmpTotal(vs[i], vs[j]) \in {"less", "equal"} /\ CmpTotal(vs[j], vs[k]) \in {"less", "equal"}
             => CmpTotal(vs[i], vs[k]) \in {"less", "equal"}
      /\ r.err = "none" =>
           /\ \E f \in [D -> D] : /\ \A i, j \in D : i # j => f[i] # f[j]
                                  /\ \A i \in D : r.v[i] = vs[f[i]]
                                  /\ \A i \in D : i > 1 /\ Ordered(r.v[i], r.v[i - 1]) => f[i - 1] < f[i]
           /\ \A i, j \in D : i < j => Ordered(r.v[i], r.v[j])

\* Indices select what the language says: an index or slice is accepted if
\* and only if its bounds, counted from either end, lie in the list in
\* order; take and drop are slices; a string is only cut between characters.  What assoc changes is
\* what the same index then gives, and nothing else.
IndexingAgrees(bytes, r, v) ==
  LET n   == Len(bytes)
      l   == [i \in 1 .. n |-> SmallInt(bytes[i])]
      Pos(x, lim) == IF x < 0 THEN x + n ELSE x
      nums == r.low # NotANumber /\ r.high # NotANumber
      lo  == IF r.low = <<>> THEN 0 ELSE Pos(r.low[1], n)
      hi  == IF r.high = <<>> THEN n ELSE IF r.sep = "..=" THEN Pos(r.high[1], n) + 1 ELSE Pos(r.high[1], n)
      ok  == /\ nums
             /\ IF r.sep = "" THEN r.low # <<>> /\ lo \in 0 .. n - 1
                ELSE lo \in 0 .. n /\ hi \in 0 .. n /\ lo <= hi
      il  == indexList(l, r)
      is  == indexString(bytes, r)
      al  == assocList(l, r, v)
      bd  == {i \in 0 .. n : startsWithRuneBoundary(SubSeq(bytes, i + 1, n))}
      utf8 == \A i \in 1 .. n : IF bytes[i] < 128 THEN TRUE
                               ELSE IF bytes[i] = 195 THEN RuneSize(bytes, i - 1) = 2
                               ELSE i > 1 /\ bytes[i - 1] = 195
      isOk == IF r.sep = "" THEN ok /\ lo \in bd ELSE ok /\ {lo, hi} \subseteq bd
  IN  /\ (il.err = "none") = ok
      /\ hasKeyViaIterateKeys(n, r) = ok
      /\ ok => il.v = IF r.sep = "" THEN l[lo + 1] ELSE ListV(SubSeq(l, lo + 1, hi))
      /\ ok /\ r.sep # "" => il.v.e = take(hi - lo, drop(lo, l))
      /\ utf8 => (is.err = "none") = isOk
      /\ utf8 /\ isOk => startsWithRuneBoundary(is.v.b) /\ endsWithRuneBoundary(is.v.b)
      /\ utf8 /\ isOk => LET a == assocString(bytes, r, is.v) IN a.err = "none" /\ a.v.b = bytes
      /\ r.sep = "" /\ ok => /\ indexList(al.v.e, r).v = v
                             /\ \A i \in 1 .. n : i # lo + 1 => al.v.e[i] = l[i]

\* Maps and field maps: assoc and dissoc change one key, and a map is
\* scanned into a field map exactly if its keys fit; make-map makes a map from
\* its pairs again.
MapsAgree(m, k, v) ==
  LET a == MapAssoc(m, k, v)
      d == Dissoc(m, k)
      Others(x) == {i \in DOMAIN m.p : ~Equal(m.p[i][1], k)} =
                   {i \in DOMAIN m.p : ~Equal(m.p[i][1], k) /\ MapIndex(x, m.p[i][1]) = Ok(m.p[i][2])}
      keys == {m.p[i][1] : i \in DOMAIN m.p}
  IN  /\ a.t = "map" => makeMap([i \in DOMAIN a.p |-> ListV(a.p[i])]) = Ok(a)
      /\ MapIndex(a, k) = Ok(v) /\ Others(a) /\ hasValue(a, v).v.b
      /\ ~HasKey(d, k) /\ Others(d)
      /\ Len(a.p) = Len(d.p) + 1
      /\ \A miss, extra \in BOOLEAN : scanFieldMapFromMap(keys, {k, v}, keys, miss, extra) =
           ((miss \/ {k, v} \subseteq keys) /\ (extra \/ keys \subseteq {k, v}))
=============================================================================
