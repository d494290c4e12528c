------------------------------- MODULE Vector -------------------------------
(***************************************************************************)
(* The persistent vector (pkg/persistent/vector).                          *)
(*                                                                         *)
(* A vector is [count, height, root, tail]: a tree of nodes of nodeSize    *)
(* elements, and a tail of at most as many.  Nodes live in a heap and are  *)
(* shared between versions; 0 is Go's nil.  A slice of a vector is         *)
(* [of |-> vector, begin, end].                                            *)
(***************************************************************************)
EXTENDS Integers, Sequences, SequencesExt

CONSTANT chunkBits

nodeSize == 2 ^ chunkBits
Empty == [count |-> 0, height |-> 0, root |-> 0, tail |-> <<>>]

Res(h, n) == [h |-> h, n |-> n]
Alloc(h, node) == Res(Append(h, node), Len(h) + 1)
nodeFromSlice(s) == s \o [i \in 1 .. nodeSize - Len(s) |-> 0]

clone_shared(h, n, i, x) == Res([h EXCEPT ![n][i] = x], n)

\* A copy of node n whose element i is x.
clone(h, n, i, x) == Alloc(h, [h[n] EXCEPT ![i] = x])

treeSize(v) == IF v.count < nodeSize THEN 0 ELSE ((v.count - 1) \div nodeSize) * nodeSize

\* The position of element i in a node at a height, counted from 1.
At(i, height) == 1 + ((i \div 2 ^ (height * chunkBits)) % nodeSize)

RECURSIVE leafFor(_, _, _, _)
leafFor(h, n, height, i) ==
  IF height = 0 THEN n ELSE leafFor(h, h[n][At(i, height)], height - 1, i)

\* <<>> or <<element>>
Index(h, v, i) ==
  IF i < 0 \/ i >= v.count THEN <<>>
  ELSE IF i >= treeSize(v) THEN <<v.tail[At(i, 0)]>>
  ELSE <<h[leafFor(h, v.root, v.height, i)][At(i, 0)]>>

sliceFor(h, v, i) ==
  IF i >= treeSize(v) THEN v.tail
  ELSE h[leafFor(h, v.root, v.height, i)]

RECURSIVE newPath(_, _, _)
newPath(h, height, leaf) ==
  IF height = 0 THEN Res(h, leaf)
  ELSE LET r == newPath(h, height - 1, leaf)
       IN  Alloc(r.h, nodeFromSlice(<<r.n>>))

RECURSIVE pushTail(_, _, _, _, _)
pushTail(h, v, height, n, leaf) ==
  LET i == At(v.count - 1, height)
      r == IF h[n][i] = 0 THEN newPath(h, height - 1, leaf)
           ELSE pushTail(h, v, height - 1, h[n][i], leaf)
  IN  IF height = 0 THEN Res(h, leaf) ELSE clone(r.h, n, i, r.n)

\* The operations return <<heap, vector>>, or <<heap, <<>> >> for nil.
Conj(h, v, x) ==
  LET full == Alloc(h, nodeFromSlice(v.tail))
      path == newPath(full.h, v.height, full.n)
      grow == Alloc(path.h, nodeFromSlice(<<v.root, path.n>>))
      push == pushTail(full.h, v, v.height, v.root, full.n)
  IN  IF v.count - treeSize(v) < nodeSize
      THEN <<h, [v EXCEPT !.count = @ + 1, !.tail = Append(@, x)]>>
      ELSE IF v.count \div nodeSize > 2 ^ (v.height * chunkBits)
           THEN <<grow.h, [count |-> v.count + 1, height |-> v.height + 1, root |-> grow.n,
                           tail |-> <<x>>]>>
      ELSE <<push.h, [v EXCEPT !.count = @ + 1, !.root = push.n, !.tail = <<x>>]>>

RECURSIVE doAssoc(_, _, _, _, _)
doAssoc(h, height, n, i, x) ==
  LET r == doAssoc(h, height - 1, h[n][At(i, height)], i, x)
  IN  IF height = 0 THEN clone(h, n, At(i, 0), x) ELSE clone(r.h, n, At(i, height), r.n)

Assoc(h, v, i, x) ==
  LET r == doAssoc(h, v.height, v.root, i, x)
  IN  IF i < 0 \/ i > v.count THEN <<h, <<>> >>
      ELSE IF i = v.count THEN Conj(h, v, x)
      ELSE IF i >= treeSize(v) THEN <<h, [v EXCEPT !.tail[At(i, 0)] = x]>>
      ELSE <<r.h, [v EXCEPT !.root = r.n]>>

\* popTail removes the last leaf; n = 0 in the result is nil.
RECURSIVE popTail(_, _, _, _)
popTail(h, v, level, n) ==
  LET i == At(v.count - 2, level)
      r == popTail(h, v, level - 1, h[n][i])
  IN  IF level > 1
      THEN IF r.n = 0 /\ i = 1 THEN Res(r.h, 0) ELSE clone(r.h, n, i, r.n)
      ELSE IF i = 1 THEN Res(h, 0) ELSE clone(h, n, i, 0)

Pop(h, v) ==
  LET r    == popTail(h, v, v.height, v.root)
      thin == v.height > 0 /\ r.h[r.n][2] = 0
  IN  IF v.count = 0 THEN <<h, <<>> >>
      ELSE IF v.count = 1 THEN <<h, Empty>>
      ELSE IF v.count - treeSize(v) > 1
           THEN <<h, [v EXCEPT !.count = @ - 1, !.tail = Front(@)]>>
      ELSE <<r.h, [count |-> v.count - 1, height |-> IF thin THEN v.height - 1 ELSE v.height,
                   root |-> IF thin THEN r.h[r.n][1] ELSE r.n,
                   tail |-> sliceFor(h, v, v.count - 2)]>>

(***************************************************************************)
(* Slices.                                                                 *)
(***************************************************************************)
SubVector(v, i, j) ==
  IF i < 0 \/ i > j \/ j > v.count THEN <<>> ELSE [of |-> v, begin |-> i, end |-> j]

SubLen(s) == s.end - s.begin

SubIndex(h, s, i) ==
  IF i < 0 \/ s.begin + i >= s.end THEN <<>> ELSE Index(h, s.of, s.begin + i)

SubConj(h, s, x) ==
  LET r == Assoc(h, s.of, s.end, x) IN <<r[1], SubVector(r[2], s.begin, s.end + 1)>>

SubAssoc(h, s, i, x) ==
  LET r == Assoc(h, s.of, s.begin + i, x)
  IN  IF i < 0 \/ s.begin + i > s.end THEN <<h, <<>> >>
      ELSE IF s.begin + i = s.end THEN SubConj(h, s, x)
      ELSE <<r[1], SubVector(r[2], s.begin, s.end)>>

SubPop(h, s) ==
  CASE SubLen(s) = 0 -> <<h, <<>> >>
    [] SubLen(s) = 1 -> <<h, Empty>>
    [] OTHER -> <<h, SubVector(s.of, s.begin, s.end - 1)>>

SubSub(s, i, j) == SubVector(s.of, s.begin + i, s.begin + j)

(***************************************************************************)
(* Iterators: [i, end, path], where the path is a sequence of a node and   *)
(* an index for each level of the tree.                                    *)
(***************************************************************************)
RECURSIVE pathTo(_, _, _, _)
pathTo(h, n, height, i) ==
  << <<n, At(i, height)>> >>
  \o (IF height = 0 THEN <<>> ELSE pathTo(h, h[n][At(i, height)], height - 1, i))

newIteratorWithRange(h, v, begin, end) ==
  [i |-> begin, end |-> end,
   path |-> IF begin >= treeSize(v) THEN <<>> ELSE pathTo(h, v.root, v.height, begin)]

Elem(h, v, it) ==
  IF it.i >= treeSize(v) THEN v.tail[it.i - treeSize(v) + 1]
  ELSE h[Last(it.path)[1]][Last(it.path)[2]]

\* Moves on in the deepest node that has another element, and enters the
\* first element of every node below it.
NextElem(h, v, it) ==
  LET p    == it.path
      more == {k \in DOMAIN p : p[k][2] < nodeSize}
      d    == CHOOSE k \in more : \A j \in more : j <= k
      n    == h[p[d][1]][p[d][2] + 1]
  IN  IF it.i + 1 >= treeSize(v) THEN [it EXCEPT !.i = @ + 1]
      ELSE [it EXCEPT !.i = @ + 1,
                      !.path = SubSeq(p, 1, d - 1) \o << <<p[d][1], p[d][2] + 1>> >>
                               \o (IF d = Len(p) THEN <<>> ELSE pathTo(h, n, Len(p) - d - 1, 0))]

RECURSIVE Elems(_, _, _)
Elems(h, v, it) ==
  IF it.i < it.end THEN <<Elem(h, v, it)>> \o Elems(h, v, NextElem(h, v, it)) ELSE <<>>
=============================================================================
