------------------------------ MODULE Hashmap ------------------------------
(***************************************************************************)
(* The persistent hash map (pkg/persistent/hashmap).                       *)
(*                                                                         *)
(* Nodes live in a heap, a sequence of nodes whose first element is        *)
(* emptyBitmapNode: operations share nodes between versions and compare    *)
(* pointers, so addresses matter.  A node is one of                        *)
(*   [kind |-> "bitmap", at |-> positions in use, entries |-> sequence]    *)
(*   [kind |-> "array", n |-> number of children, children |-> addresses]  *)
(*   [kind |-> "collision", hash |-> hash code, entries |-> sequence]      *)
(* and an entry is <<"kv", key, value>> or, for a child, <<"node", addr>>. *)
(* An array of children has 0 where Go has nil.                            *)
(*                                                                         *)
(* A map is [count, root, nilV]; nilV is <<>> or <<value of the key nil>>. *)
(***************************************************************************)
EXTENDS Integers, Sequences, FiniteSets, SequencesExt

CONSTANTS
  chunkBits,    \* bits of the hash code that select a child
  HashOf        \* key -> hash code

nodeCap == 2 ^ chunkBits
Nil == "nil"
emptyBitmapNode == 1
EmptyHeap == << [kind |-> "bitmap", at |-> {}, entries |-> <<>>] >>
New == [count |-> 0, root |-> emptyBitmapNode, nilV |-> <<>>]

\* The operators on nodes return the new heap, the node and a flag.
Res(h, n, flag) == [h |-> h, n |-> n, flag |-> flag]
Alloc(h, node, flag) == Res(Append(h, node), Len(h) + 1, flag)

chunk(shift, hash) == (hash \div 2 ^ shift) % nodeCap
index(at, pos) == Cardinality({p \in at : p < pos}) + 1

SetChild(children, i, child) == [j \in DOMAIN children |-> IF j = i THEN child ELSE children[j]]

withNewChild(h, n, i, child, d) ==
  Alloc(h, [h[n] EXCEPT !.children = SetChild(@, i, child), !.n = @ + d], TRUE)

withReplacedEntry(h, n, i, e) == Alloc(h, [h[n] EXCEPT !.entries[i] = e], FALSE)

withoutEntry(h, n, pos, i) ==
  IF h[n].at = {pos} THEN Res(h, emptyBitmapNode, TRUE)
  ELSE Alloc(h, [h[n] EXCEPT !.at = @ \ {pos}, !.entries = RemoveAt(@, i)], TRUE)

findIndex(h, n, k) ==
  LET found == {i \in DOMAIN h[n].entries : h[n].entries[i][2] = k}
  IN  IF found = {} THEN 0 ELSE CHOOSE i \in found : TRUE

(***************************************************************************)
(* assoc                                                                   *)
(***************************************************************************)
RECURSIVE assoc(_, _, _, _, _, _)

createNode(h, shift, e, hash, k, v) ==
  LET h1  == HashOf[e[2]]
      one == assoc(h, emptyBitmapNode, shift, h1, e[2], e[3])
  IN  IF h1 = hash
      THEN Alloc(h, [kind |-> "collision", hash |-> h1, entries |-> <<e, <<"kv", k, v>> >>], TRUE)
      ELSE assoc(one.h, one.n, shift, hash, k, v)

\* The children of the array node that replaces bitmap node n: every leaf
\* gets a bitmap node of its own.
RECURSIVE Unpacked(_, _, _, _, _)
Unpacked(h, n, shift, i, children) ==
  IF i = nodeCap THEN Res(h, children, TRUE)
  ELSE LET e == h[n].entries[index(h[n].at, i)]
           r == IF e[1] = "node" THEN Res(h, e[2], TRUE)
                ELSE assoc(h, emptyBitmapNode, shift + chunkBits, HashOf[e[2]], e[2], e[3])
       IN  IF i \notin h[n].at THEN Unpacked(h, n, shift, i + 1, children)
           ELSE Unpacked(r.h, n, shift, i + 1, SetChild(children, i, r.n))

unpack(h, n, shift, i, child) ==
  LET r == Unpacked(h, n, shift, 0, [j \in 0 .. nodeCap - 1 |-> IF j = i THEN child ELSE 0])
  IN  Alloc(r.h, [kind |-> "array", n |-> Len(h[n].entries) + 1, children |-> r.n], TRUE)

bitmapAssoc(h, n, shift, hash, k, v) ==
  LET pos   == chunk(shift, hash)
      i     == index(h[n].at, pos)
      e     == h[n].entries[i]
      leaf  == assoc(h, emptyBitmapNode, shift + chunkBits, hash, k, v)
      child == assoc(h, e[2], shift + chunkBits, hash, k, v)
      new   == createNode(h, shift + chunkBits, e, hash, k, v)
  IN  IF pos \notin h[n].at
      THEN IF Len(h[n].entries) >= nodeCap \div 2 THEN unpack(leaf.h, n, shift, pos, leaf.n)
           ELSE Alloc(h, [h[n] EXCEPT !.at = @ \cup {pos},
                                      !.entries = InsertAt(@, i, <<"kv", k, v>>)], TRUE)
      ELSE IF e[1] = "node"
           THEN [withReplacedEntry(child.h, n, i, <<"node", child.n>>) EXCEPT !.flag = child.flag]
      ELSE IF e[2] = k THEN withReplacedEntry(h, n, i, <<"kv", k, v>>)
      ELSE [withReplacedEntry(new.h, n, i, <<"node", new.n>>) EXCEPT !.flag = TRUE]

arrayAssoc(h, n, shift, hash, k, v) ==
  LET i == chunk(shift, hash)
      c == h[n].children[i]
      r == assoc(h, IF c = 0 THEN emptyBitmapNode ELSE c, shift + chunkBits, hash, k, v)
  IN  IF c = 0 THEN withNewChild(r.h, n, i, r.n, 1)
      ELSE [withNewChild(r.h, n, i, r.n, 0) EXCEPT !.flag = r.flag]

collisionAssoc(h, n, shift, hash, k, v) ==
  LET i    == findIndex(h, n, k)
      wrap == Alloc(h, [kind |-> "bitmap", at |-> {chunk(shift, h[n].hash)},
                        entries |-> << <<"node", n>> >>], FALSE)
  IN  IF hash # h[n].hash THEN assoc(wrap.h, wrap.n, shift, hash, k, v)
      ELSE IF i # 0 THEN Alloc(h, [h[n] EXCEPT !.entries[i] = <<"kv", k, v>>], FALSE)
      ELSE Alloc(h, [h[n] EXCEPT !.entries = Append(@, <<"kv", k, v>>)], TRUE)

assoc(h, n, shift, hash, k, v) ==
  CASE h[n].kind = "bitmap" -> bitmapAssoc(h, n, shift, hash, k, v)
    [] h[n].kind = "array" -> arrayAssoc(h, n, shift, hash, k, v)
    [] h[n].kind = "collision" -> collisionAssoc(h, n, shift, hash, k, v)

(***************************************************************************)
(* without                                                                 *)
(***************************************************************************)
RECURSIVE without(_, _, _, _, _)

\* A bitmap node of the children of array node n other than skip.
pack(h, n, skip) ==
  LET c  == h[n].children
      at == {i \in DOMAIN c : i # skip /\ c[i] # 0}
  IN  Alloc(h, [kind |-> "bitmap", at |-> at,
                entries |-> [j \in 1 .. Cardinality(at) |->
                               <<"node", c[CHOOSE i \in at : index(at, i) = j]>>]], TRUE)

arrayWithout(h, n, shift, hash, k) ==
  LET i == chunk(shift, hash)
      c == h[n].children[i]
      r == without(h, c, shift + chunkBits, hash, k)
  IN  IF c = 0 THEN Res(h, n, FALSE)
      ELSE IF r.n = c THEN Res(h, n, FALSE)
      ELSE IF r.n # emptyBitmapNode THEN withNewChild(r.h, n, i, r.n, 0)
      ELSE IF h[n].n <= nodeCap \div 4 THEN pack(r.h, n, i)
      ELSE withNewChild(r.h, n, i, 0, -1)

bitmapWithout(h, n, shift, hash, k) ==
  LET pos == chunk(shift, hash)
      i   == index(h[n].at, pos)
      e   == h[n].entries[i]
      r   == without(h, e[2], shift + chunkBits, hash, k)
  IN  IF pos \notin h[n].at THEN Res(h, n, FALSE)
      ELSE IF e[1] = "node"
           THEN IF r.n = e[2] THEN Res(h, n, FALSE)
                ELSE IF r.n = emptyBitmapNode THEN withoutEntry(r.h, n, pos, i)
                ELSE [withReplacedEntry(r.h, n, i, <<"node", r.n>>) EXCEPT !.flag = r.flag]
      ELSE IF e[2] = k THEN withoutEntry(h, n, pos, i)
      ELSE Res(h, n, FALSE)

collisionWithout(h, n, k) ==
  LET i == findIndex(h, n, k)
  IN  IF i = 0 THEN Res(h, n, FALSE)
      ELSE IF Len(h[n].entries) = 1 THEN Res(h, emptyBitmapNode, TRUE)
      ELSE Alloc(h, [h[n] EXCEPT !.entries = RemoveAt(@, i)], TRUE)

without(h, n, shift, hash, k) ==
  CASE h[n].kind = "bitmap" -> bitmapWithout(h, n, shift, hash, k)
    [] h[n].kind = "array" -> arrayWithout(h, n, shift, hash, k)
    [] h[n].kind = "collision" -> collisionWithout(h, n, k)

(***************************************************************************)
(* find: <<>> or <<value>>                                                 *)
(***************************************************************************)
RECURSIVE find(_, _, _, _, _)

bitmapFind(h, n, shift, hash, k) ==
  LET pos == chunk(shift, hash)
      e   == h[n].entries[index(h[n].at, pos)]
  IN  IF pos \notin h[n].at THEN <<>>
      ELSE IF e[1] = "node" THEN find(h, e[2], shift + chunkBits, hash, k)
      ELSE IF e[2] = k THEN <<e[3]>> ELSE <<>>

arrayFind(h, n, shift, hash, k) ==
  LET c == h[n].children[chunk(shift, hash)]
  IN  IF c = 0 THEN <<>> ELSE find(h, c, shift + chunkBits, hash, k)

collisionFind(h, n, k) ==
  LET i == findIndex(h, n, k) IN IF i = 0 THEN <<>> ELSE <<h[n].entries[i][3]>>

find(h, n, shift, hash, k) ==
  CASE h[n].kind = "bitmap" -> bitmapFind(h, n, shift, hash, k)
    [] h[n].kind = "array" -> arrayFind(h, n, shift, hash, k)
    [] h[n].kind = "collision" -> collisionFind(h, n, k)

(***************************************************************************)
(* Iterators: [n |-> node, i |-> index, cur |-> <<>> or <<iterator>>].     *)
(***************************************************************************)
RECURSIVE iterator(_, _)

bitmapFix(h, n, i) ==
  LET e == h[n].entries[i + 1]
  IN  [n |-> n, i |-> i,
       cur |-> IF i < Len(h[n].entries) /\ e[1] = "node" THEN <<iterator(h, e[2])>> ELSE <<>>]

arrayFix(h, n, from) ==
  LET used == {i \in from .. nodeCap - 1 : h[n].children[i] # 0}
      i    == CHOOSE i \in used : \A j \in used : i <= j
  IN  IF used = {} THEN [n |-> n, i |-> nodeCap, cur |-> <<>>]
      ELSE [n |-> n, i |-> i, cur |-> <<iterator(h, h[n].children[i])>>]

fixCurrent(h, n, i) ==
  CASE h[n].kind = "bitmap" -> bitmapFix(h, n, i)
    [] h[n].kind = "array" -> arrayFix(h, n, i)
    [] h[n].kind = "collision" -> [n |-> n, i |-> i, cur |-> <<>>]

iterator(h, n) == fixCurrent(h, n, 0)

HasElem(h, it) ==
  IF h[it.n].kind = "array" THEN it.cur # <<>> ELSE it.i < Len(h[it.n].entries)

RECURSIVE Elem(_, _)
Elem(h, it) ==
  IF it.cur # <<>> THEN Elem(h, it.cur[1])
  ELSE LET e == h[it.n].entries[it.i + 1] IN <<e[2], e[3]>>

RECURSIVE NextElem(_, _)
NextElem(h, it) ==
  LET cur == IF it.cur = <<>> THEN <<>> ELSE <<NextElem(h, it.cur[1])>>
  IN  IF h[it.n].kind = "collision" THEN [it EXCEPT !.i = @ + 1]
      ELSE IF cur # <<>> /\ HasElem(h, cur[1]) THEN [it EXCEPT !.cur = cur]
      ELSE fixCurrent(h, it.n, it.i + 1)

RECURSIVE Elems(_, _)
Elems(h, it) ==
  IF HasElem(h, it) THEN <<Elem(h, it)>> \o Elems(h, NextElem(h, it)) ELSE <<>>

(***************************************************************************)
(* The map.                                                                *)
(***************************************************************************)
Index(h, m, k) == IF k = Nil THEN m.nilV ELSE find(h, m.root, 0, HashOf[k], k)

\* Returns <<heap, map>>.
Assoc(h, m, k, v) ==
  LET r == assoc(h, m.root, 0, HashOf[k], k, v)
  IN  IF k = Nil
      THEN <<h, [m EXCEPT !.count = IF m.nilV = <<>> THEN @ + 1 ELSE @, !.nilV = <<v>>]>>
      ELSE <<r.h, [m EXCEPT !.count = IF r.flag THEN @ + 1 ELSE @, !.root = r.n]>>

Dissoc(h, m, k) ==
  LET r == without(h, m.root, 0, HashOf[k], k)
  IN  IF k = Nil
      THEN <<h, [m EXCEPT !.count = IF m.nilV = <<>> THEN @ ELSE @ - 1, !.nilV = <<>>]>>
      ELSE <<r.h, [m EXCEPT !.count = IF r.flag THEN @ - 1 ELSE @, !.root = r.n]>>

\* The pairs Iterator visits; the key nil comes first.
Pairs(h, m) ==
  (IF m.nilV = <<>> THEN <<>> ELSE << <<Nil, m.nilV[1]>> >>) \o Elems(h, iterator(h, m.root))
=============================================================================
