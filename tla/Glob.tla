-------------------------------- MODULE Glob --------------------------------
(* Wildcard expansion: the patterns that the evaluator puts together        *)
(* (pkg/eval/glob.go), and the walk over the file system that expands them  *)
(* (pkg/glob).                                                              *)
(*                                                                          *)
(* A string is a sequence of characters, a path a string with "/" between   *)
(* its elements.  The file system does not change during an expansion;      *)
(* symbolic links, "." and ".." and other users' homes are left out.        *)
EXTENDS Integers, Sequences, SequencesExt, FiniteSetsExt, FiniteSets

\* The file system: from the directories, each a sequence of names from the
\* root <<>>, to the names in them; the current directory and the home directory.
CONSTANTS Tree, Cwd, Home

----------------------------------------------------------------------------
(* Segments of patterns.  A matcher of a wild is the set of the runes that  *)
(* it matches.                                                              *)

Slash == [kind |-> "slash", data |-> <<>>, hidden |-> FALSE, matchers |-> {}]
Literal(s) == [kind |-> "literal", data |-> s, hidden |-> FALSE, matchers |-> {}]
Wild(kind) == [kind |-> kind, data |-> <<>>, hidden |-> FALSE, matchers |-> {}]
Stars == {"star", "starstar"}
Wilds == Stars \union {"question"}
IsSlash(seg) == seg.kind = "slash"
IsLiteral(seg) == seg.kind = "literal"
IsWild(seg) == seg.kind \in Wilds
Match(wild, r) == wild.matchers = {} \/ \E m \in wild.matchers : r \in m

\* stringToSegments: runs of slashes become one.
stringToSegments(s) ==
    FoldLeft(LAMBDA segs, r :
               CASE r = "/" /\ segs # <<>> /\ IsSlash(Last(segs)) -> segs
                 [] r = "/" -> Append(segs, Slash)
                 [] segs # <<>> /\ IsLiteral(Last(segs)) ->
                      [segs EXCEPT ![Len(segs)].data = Append(@, r)]
                 [] OTHER -> Append(segs, Literal(<<r>>)),
             <<>>, s)

\* A pattern of the evaluator: its segments and its global modifiers.
\* home says that it has the home directory as its DirOverride.
globPattern(segs) == [segs |-> segs, noMatchOK |-> FALSE, buts |-> {}, type |-> "any", home |-> FALSE]
\* What takes the place of a pattern after an error.
bad == [globPattern(<<>>) EXCEPT !.type = "bad"]

wildcardToSegment(s) ==
    Wild(CASE s = <<"*">> -> "star" [] s = <<"*", "*">> -> "starstar" [] s = <<"?">> -> "question")

addMatcher(p, matcher) ==
    LET n == Len(p.segs)
    IN  IF n > 0 /\ IsWild(p.segs[n]) THEN [p EXCEPT !.segs[n].matchers = @ \union {matcher}] ELSE bad

\* Index: p[modifier].  A modifier is a kind and its argument; that of "runes" (a
\* class, set: or range:) is the set it matches.  Others are errors.
Index(p, kind, arg) ==
    LET n == Len(p.segs)
    IN  CASE kind = "nomatch-ok" -> [p EXCEPT !.noMatchOK = TRUE]
          [] kind = "but"  -> [p EXCEPT !.buts = @ \union {arg}]
          [] kind = "match-hidden" ->
               IF n > 0 /\ IsWild(p.segs[n]) THEN [p EXCEPT !.segs[n].hidden = TRUE] ELSE bad
          [] kind = "type" ->
               IF p.type # "any" \/ arg \notin {"dir", "regular"} THEN bad ELSE [p EXCEPT !.type = arg]
          [] kind = "runes" -> addMatcher(p, arg)
          [] OTHER -> bad

\* Compounding a pattern with a string on either side, or with a pattern of one
\* segment; and with a tilde before it, at the end.
Concat(p, s) == [p EXCEPT !.segs = @ \o stringToSegments(s)]
RConcat(s, p) == [p EXCEPT !.segs = Append(stringToSegments(s), p.segs[1])]
doTilde(p) == IF p.segs # <<>> /\ IsSlash(p.segs[1]) THEN [p EXCEPT !.home = TRUE] ELSE bad
ConcatPattern(p, q) ==
    IF p.type # "any" /\ q.type # "any" THEN bad
    ELSE [segs |-> Append(p.segs, q.segs[1]), noMatchOK |-> p.noMatchOK \/ q.noMatchOK,
          buts |-> p.buts \union q.buts, type |-> IF q.type # "any" THEN q.type ELSE p.type,
          home |-> p.home]

----------------------------------------------------------------------------
(* Matching one element.                                                    *)

fail == [ok |-> FALSE, rest |-> <<>>]

\* A prefix of name matched by literals and question marks.
matchFixedLength(segs, name) ==
    FoldLeft(LAMBDA acc, seg :
               CASE ~acc.ok \/ acc.rest = <<>> -> fail
                 [] IsLiteral(seg) ->
                      IF IsPrefix(seg.data, acc.rest)
                      THEN [ok |-> TRUE, rest |-> SubSeq(acc.rest, Len(seg.data) + 1, Len(acc.rest))]
                      ELSE fail
                 [] OTHER -> IF Match(seg, acc.rest[1]) THEN [ok |-> TRUE, rest |-> Tail(acc.rest)]
                             ELSE fail,
             [ok |-> TRUE, rest |-> name], segs)

\* Chunk by chunk: an optional star and what follows up to the next one.  Each
\* takes the first place where it matches, and is not tried again.
RECURSIVE matchChunks(_, _)
matchChunks(segs, name) ==
    LET next == Min({i \in 2..Len(segs) : segs[i].kind \in Stars} \union {Len(segs) + 1})
        star == segs[1].kind \in Stars
        chunk == SubSeq(segs, IF star THEN 2 ELSE 1, next - 1)
        rest == SubSeq(segs, next, Len(segs))
        at(j) == matchFixedLength(chunk, SubSeq(name, j + 1, Len(name)))
        fits(j) == at(j).ok /\ (at(j).rest = <<>> \/ rest # <<>>)
        reach == {j \in 0..Len(name) : star /\ \A i \in 1..j : Match(segs[1], name[i])} \union {0}
        places == {j \in reach : fits(j)}
    IN  IF segs = <<>> THEN name = <<>>
        ELSE places # {} /\ matchChunks(rest, at(Min(places)).rest)

hides_no(seg, name) == FALSE

hides(seg, name) == name # <<>> /\ name[1] = "." /\ IsWild(seg) /\ ~seg.hidden

matchElement(segs, name) ==
    IF segs = <<>> THEN name = <<>>
    ELSE ~hides(segs[1], name) /\ matchChunks(segs, name)

----------------------------------------------------------------------------
(* Walking.  dir is a directory, path what is written for it.               *)

exists(dir, name) == dir \in DOMAIN Tree /\ name \in Tree[dir]
isDir(dir) == dir \in DOMAIN Tree
Ordered(names) == SetToSeq(names)        \* readDir: by name; here in some order
flatten(seqs) == FoldLeft(LAMBDA acc, s : acc \o s, <<>>, seqs)

RECURSIVE globIn(_, _, _)
globIn(segs, dir, path) ==
    LET names == Ordered(Tree[dir])
        matching(first) == SelectSeq(names, LAMBDA name : matchElement(first, name))
        breaks == {i \in 1..Len(segs) : IsSlash(segs[i]) \/ segs[i].kind = "starstar"}
        slashes == {i \in breaks : IsSlash(segs[i])}
        tries == {i \in breaks : slashes = {} \/ i <= Min(slashes)}
        \* the first slash of the path is in the i-th segment
        recurse(i) ==
            LET first == SubSeq(segs, 1, IF IsSlash(segs[i]) THEN i - 1 ELSE i)
                rest == SubSeq(segs, IF IsSlash(segs[i]) THEN i + 1 ELSE i, Len(segs))
                dirs == SelectSeq(matching(first), LAMBDA name : isDir(Append(dir, name)))
            IN  flatten([k \in 1..Len(dirs) |->
                           globIn(rest, Append(dir, dirs[k]), path \o dirs[k] \o <<"/">>)])
        order == SetToSortSeq(tries, <)
        deeper == flatten([k \in 1..Len(order) |-> recurse(order[k])])
        found(node, text) == [node |-> node, path |-> text]
        here == [k \in 1..Len(matching(segs)) |->
                   found(Append(dir, matching(segs)[k]), path \o matching(segs)[k])]
    IN  CASE Len(segs) > 1 /\ IsLiteral(segs[1]) /\ IsSlash(segs[2]) ->
               LET sub == Append(dir, segs[1].data)
               IN  IF isDir(sub) THEN globIn(SubSeq(segs, 3, Len(segs)), sub, path \o segs[1].data \o <<"/">>)
                   ELSE <<>>
          [] segs = <<>> -> <<found(dir, path)>>
          [] Len(segs) = 1 /\ IsLiteral(segs[1]) ->
               IF exists(dir, segs[1].data)
               THEN <<found(Append(dir, segs[1].data), path \o segs[1].data)>> ELSE <<>>
          [] OTHER -> IF slashes # {} THEN deeper ELSE deeper \o here

\* Pattern.Glob: from the current directory, or from the root or the home.
text(names) == FoldLeft(LAMBDA acc, n : acc \o <<"/">> \o n, <<>>, names)
rooted(p) == p.segs # <<>> /\ IsSlash(p.segs[1])
start(p) ==
    CASE ~rooted(p) -> [dir |-> Cwd, path |-> <<>>, segs |-> p.segs]
      [] rooted(p) /\ p.home -> [dir |-> Home, path |-> text(Home) \o <<"/">>, segs |-> Tail(p.segs)]
      [] OTHER -> [dir |-> <<>>, path |-> <<"/">>, segs |-> Tail(p.segs)]
Glob(p) == globIn(start(p).segs, start(p).dir, start(p).path)

\* The type modifier.
hasType(node, type) == type = "any" \/ (type = "dir") = isDir(node)

\* doGlob: the paths, or an error if there is none, or if the context is done
\* after some calls of the callback.
Never == 99
doGlob(p, doneAfter) ==
    LET all == Glob(p)
        kept == SelectSeq(all, LAMBDA f : f.path \notin p.buts /\ hasType(f.node, p.type))
    IN  [ok |-> Len(all) <= doneAfter /\ (kept # <<>> \/ p.noMatchOK),
         paths |-> [k \in 1..Len(kept) |-> kept[k].path]]

----------------------------------------------------------------------------
(* Properties.                                                              *)

\* What the language reference says of wildcards, for segments k.. and the path
\* from character i on: ? and * stop at "/", ** does not, and a wildcard does
\* not stand at the "." that begins a name.
RECURSIVE matches(_, _, _, _)
matches(segs, k, path, i) ==
    LET seg == segs[k]
        more == i <= Len(path)
        begins == more /\ path[i] = "." /\ (i = 1 \/ path[i - 1] = "/")
    IN  IF k > Len(segs) THEN ~more
        ELSE IF begins /\ IsWild(seg) /\ ~seg.hidden THEN FALSE
        ELSE CASE IsSlash(seg) -> more /\ path[i] = "/" /\ matches(segs, k + 1, path, i + 1)
               [] IsLiteral(seg) -> /\ IsPrefix(seg.data, SubSeq(path, i, Len(path)))
                                    /\ matches(segs, k + 1, path, i + Len(seg.data))
               [] seg.kind = "question" -> /\ more /\ path[i] # "/" /\ Match(seg, path[i])
                                           /\ matches(segs, k + 1, path, i + 1)
               [] seg.kind = "star" ->
                    \/ matches(segs, k + 1, path, i)
                    \/ more /\ path[i] # "/" /\ Match(seg, path[i]) /\ matches(segs, k, path, i + 1)
               [] seg.kind = "starstar" ->
                    \/ matches(segs, k + 1, path, i)
                    \/ more /\ (path[i] = "/" \/ Match(seg, path[i])) /\ matches(segs, k, path, i + 1)

\* The paths that match: a directory is also written with a "/" at the end if
\* the pattern ends with one.
matchingPaths(p) ==
    LET s == start(p)
        nodes == {m \in UNION {{Append(d, n) : n \in Tree[d]} : d \in DOMAIN Tree} : IsStrictPrefix(s.dir, m)}
        end == IF s.segs # <<>> /\ IsSlash(Last(s.segs)) THEN <<"/">> ELSE <<>>
        below(m) == Tail(text(SubSeq(m, Len(s.dir) + 1, Len(m)))) \o end
    IN  {s.path \o below(n) : n \in {m \in nodes : /\ end # <<>> => isDir(m)
                                                  /\ hasType(m, p.type)
                                                  /\ matches(s.segs, 1, below(m), 1)}} \ p.buts

found(p) == Range(doGlob(p, Never).paths)

\* "Wildcard patterns evaluate to all filenames they match" (language.md): the
\* walk of pkg/glob finds them all, however the slashes of the path fall into
\* the ** of the pattern.
GlobFindsAll(p) == p # bad => matchingPaths(p) \subseteq found(p)

\* It finds nothing else, unless a wildcard that may match a hidden name stands
\* with one that may not: only the first of an element is asked.  And it finds
\* them all if no wildcard after a * or ** is limited to some characters, since
\* then the first place where a chunk matches is as good as any.
GlobIsExact(p) ==
    LET wilds == {k \in 1..Len(p.segs) : IsWild(p.segs[k])}
    IN  p # bad =>
          /\ Cardinality({p.segs[k].hidden : k \in wilds}) <= 1 => found(p) \subseteq matchingPaths(p)
          /\ (\A j, k \in wilds : (j < k /\ p.segs[j].kind \in Stars) => p.segs[k].matchers = {})
               => GlobFindsAll(p)
          /\ doGlob(p, Never).ok = (found(p) # {} \/ p.noMatchOK)
============================================================================
