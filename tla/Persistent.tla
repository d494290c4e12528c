----------------------------- MODULE Persistent -----------------------------
(***************************************************************************)
(* Versions of persistent maps and vectors that share their nodes in one   *)
(* heap.  Every operation may be applied to every version so far.          *)
(***************************************************************************)
EXTENDS Integers, Sequences, FiniteSets, SequencesExt

CONSTANTS
  MapBits, VectorBits,  \* chunkBits of the two structures
  Keys, HashOf,         \* keys of maps, and their hash codes
  MaxLen,               \* length of the longest vector to start from
  MaxOps                \* number of operations

VARIABLES
  heap,     \* the nodes
  vers,     \* versions: [kind, obj, is] where is is what obj should contain
  built     \* number of versions at the start

M == INSTANCE Hashmap WITH chunkBits <- MapBits
V == INSTANCE Vector WITH chunkBits <- VectorBits

pVars == <<heap, vers, built>>

Map(obj, is) == [kind |-> "map", obj |-> obj, is |-> is]
Vec(obj, is) == [kind |-> "vector", obj |-> obj, is |-> is]
Sub(obj, is) == [kind |-> "slice", obj |-> obj, is |-> is]

\* A map to which the first n keys were added and from which the first d
\* were deleted again, and a vector of 1 .. n.
RECURSIVE MapOf(_, _)
MapOf(n, d) ==
  IF n = 0 THEN <<M!EmptyHeap, M!New>>
  ELSE IF d = 0 THEN LET r == MapOf(n - 1, 0) IN M!Assoc(r[1], r[2], Keys[n], n)
  ELSE LET r == MapOf(n, d - 1) IN M!Dissoc(r[1], r[2], Keys[d])

RECURSIVE VecOf(_)
VecOf(n) ==
  IF n = 0 THEN << <<>>, V!Empty>>
  ELSE LET r == VecOf(n - 1) IN V!Conj(r[1], r[2], n)

PInit ==
  /\ built = 1
  /\ \/ \E n \in 0 .. Len(Keys) : \E d \in 0 .. n :
          LET r == MapOf(n, d)
          IN  heap = r[1] /\ vers = << Map(r[2], [k \in {Keys[i] : i \in d + 1 .. n} |->
                                                  CHOOSE i \in 1 .. n : Keys[i] = k]) >>
     \/ \E n \in 0 .. MaxLen :
          LET r == VecOf(n) IN heap = r[1] /\ vers = << Vec(r[2], [i \in 1 .. n |-> i]) >>

\* The result of an operation on version i; <<>> stands for nil.
Result(r, version) ==
  /\ Len(vers) < built + MaxOps
  /\ heap' = r[1]
  /\ vers' = Append(vers, version)
  /\ UNCHANGED built

Put(f, k, v) == [j \in DOMAIN f \cup {k} |-> IF j = k THEN v ELSE f[j]]
Drop(f, k) == [j \in DOMAIN f \ {k} |-> f[j]]

AssocMap(i, k) ==
  /\ vers[i].kind = "map"
  /\ LET r == M!Assoc(heap, vers[i].obj, k, 0) IN Result(r, Map(r[2], Put(vers[i].is, k, 0)))

DissocMap(i, k) ==
  /\ vers[i].kind = "map"
  /\ LET r == M!Dissoc(heap, vers[i].obj, k) IN Result(r, Map(r[2], Drop(vers[i].is, k)))

ConjVec(i) ==
  /\ vers[i].kind = "vector"
  /\ LET r == V!Conj(heap, vers[i].obj, 0) IN Result(r, Vec(r[2], Append(vers[i].is, 0)))

AssocVec(i, j) ==
  /\ vers[i].kind = "vector"
  /\ j \in DOMAIN vers[i].is
  /\ LET r == V!Assoc(heap, vers[i].obj, j - 1, 0)
     IN  Result(r, Vec(r[2], [vers[i].is EXCEPT ![j] = 0]))

PopVec(i) ==
  /\ vers[i].kind = "vector" /\ vers[i].is # <<>>
  /\ LET r == V!Pop(heap, vers[i].obj) IN Result(r, Vec(r[2], Front(vers[i].is)))

SubVec(i, j, k) ==
  /\ vers[i].kind # "map"
  /\ j <= k /\ k <= Len(vers[i].is)
  /\ \/ /\ vers[i].kind = "vector"
        /\ Result(<<heap>>, Sub(V!SubVector(vers[i].obj, j, k), SubSeq(vers[i].is, j + 1, k)))
     \/ /\ vers[i].kind = "slice"
        /\ Result(<<heap>>, Sub(V!SubSub(vers[i].obj, j, k), SubSeq(vers[i].is, j + 1, k)))

\* Pop of a slice of one element is the empty vector.
ChangeSlice(i) ==
  /\ vers[i].kind = "slice"
  /\ \/ LET r == V!SubConj(heap, vers[i].obj, 0) IN Result(r, Sub(r[2], Append(vers[i].is, 0)))
     \/ \E j \in 1 .. Len(vers[i].is) :
          LET r == V!SubAssoc(heap, vers[i].obj, j - 1, 0)
          IN  Result(r, Sub(r[2], [vers[i].is EXCEPT ![j] = 0]))
     \/ /\ vers[i].is # <<>>
        /\ LET r == V!SubPop(heap, vers[i].obj)
           IN  Result(r, IF Len(vers[i].is) = 1 THEN Vec(r[2], <<>>) ELSE Sub(r[2], Front(vers[i].is)))

PNext ==
  \E i \in DOMAIN vers :
    \/ \E k \in Range(Keys) : AssocMap(i, k) \/ DissocMap(i, k)
    \/ ConjVec(i)
    \/ \E j \in 1 .. MaxLen + MaxOps : AssocVec(i, j)
    \/ PopVec(i)
    \/ \E j, k \in 0 .. MaxLen + MaxOps : SubVec(i, j, k)
    \/ ChangeSlice(i)

\* What Index, Len and the iterator of a map show is the function "is".
MapShows(h, m, is) ==
  LET pairs == M!Pairs(h, m)
  IN  /\ m.count = Cardinality(DOMAIN is)
      /\ \A k \in Range(Keys) :
           M!Index(h, m, k) = IF k \in DOMAIN is THEN <<is[k]>> ELSE <<>>
      /\ Len(pairs) = m.count
      /\ {pairs[j] : j \in DOMAIN pairs} = {<<k, is[k]>> : k \in DOMAIN is}

\* The iterator over a range of a vector gives the elements of "is".
VectorShows(h, v, begin, is) ==
  V!Elems(h, v, V!newIteratorWithRange(h, v, begin, begin + Len(is))) = is

\* Every version of a map, a vector or a slice, however many were made from it and
\* whatever nodes they share, goes on showing what its own history says: lookups, length
\* and iteration agree with a function or a sequence (Assoc, Dissoc, Conj and Pop copy
\* the path they change).
VersionsPersist ==
  \A i \in DOMAIN vers :
    LET o == vers[i].obj  is == vers[i].is
    IN  CASE vers[i].kind = "map" -> MapShows(heap, o, is)
          [] vers[i].kind = "vector" ->
               /\ o.count = Len(is)
               /\ \A j \in 0 .. Len(is) : V!Index(heap, o, j) = IF j < Len(is) THEN <<is[j + 1]>> ELSE <<>>
               /\ VectorShows(heap, o, 0, is)
          [] vers[i].kind = "slice" ->
               /\ V!SubLen(o) = Len(is)
               /\ \A j \in 0 .. Len(is) : V!SubIndex(heap, o, j) = IF j < Len(is) THEN <<is[j + 1]>> ELSE <<>>
               /\ VectorShows(heap, o.of, o.begin, is)
=============================================================================
