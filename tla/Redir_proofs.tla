---------------------------- MODULE Redir_proofs ----------------------------
(***************************************************************************)
(* Theorems about Redir, for any number of redirections of any files.      *)
(***************************************************************************)
EXTENDS Redir, FiniteSetTheorems, TLAPS

Things == Files \cup Chans

\* What the form would close of port p now.
OwnedBy(p) == Closes(fops[p], ports[p])

-----------------------------------------------------------------------------
(* There is a file for every redirection to open.                          *)

\* No more files have been opened than redirections performed.
OpenedCounted == IsFiniteSet(opened) /\ Cardinality(opened) <= n

\* While redirections are left, so is a file name for RedirToName to open.
LEMMA FreshName ==
    ASSUME OpenedCounted, opened \subseteq Names, n \in 0..MaxRedirs, n < MaxRedirs
    PROVE  (CHOOSE f \in Names : f \notin opened) \in Names \ opened
<1>1. opened # Names
  <2> SUFFICES ASSUME opened = Names PROVE FALSE
    OBVIOUS
  <2>1. Cardinality(opened) \in Nat
    BY FS_CardinalityType DEF OpenedCounted
  <2> QED
    BY <2>1, RedirAssumption DEF OpenedCounted
<1>2. \E f \in Names : f \notin opened
  BY <1>1
<1> QED
  BY <1>2

-----------------------------------------------------------------------------
(* Type correctness.                                                       *)

\* Replacing a port keeps the types, and never leaves a nil part that the form would close.
LEMMA ReplaceKeepsType ==
    ASSUME RedirTypeOK, NEW dst \in Fds, NEW owned \in BOOLEAN,
           NEW port \in [file : Files \cup {"nil"}, chan : Chans, back : BackChannels],
           owned => port.file # "nil",
           ReplacePort(dst, port, owned)
    PROVE  /\ ports' \in [Fds -> [file : Files \cup {"nil"}, chan : Chans, back : BackChannels]]
           /\ fops' \in [Fds -> [file : BOOLEAN, chan : BOOLEAN]]
           /\ \A p \in Fds : /\ fops'[p].file => ports'[p].file # "nil"
                             /\ fops'[p].chan => ports'[p].chan # "nil"
           /\ closes' \in [Files \cup Chans -> Nat]
<1>1. closes' \in [Files \cup Chans -> Nat]
  BY DEF RedirTypeOK, ReplacePort, Close
<1> QED
  BY <1>1 DEF RedirTypeOK, ReplacePort

\* The port made for a file is a port of that file.
LEMMA FilePortType ==
    ASSUME NEW f \in Files, NEW read \in BOOLEAN
    PROVE  /\ FilePort(f, read) \in [file : Files \cup {"nil"}, chan : Chans, back : BackChannels]
           /\ FilePort(f, read).file = f
BY DEF FilePort, Chans, BackChannels

\* A file to be opened is none of those the form was given.
LEMMA NamesAreNew ==
    ASSUME NEW f \in Names
    PROVE  f \in Files /\ f \notin Inherited \cup {"pipeIn", "pipeOut"} \cup Chans
BY RedirAssumption DEF Files

\* Every variable keeps its type, in particular no part of a port is owned that is nil.
THEOREM RedirTypeCorrect == RedirSpec => [](RedirTypeOK /\ OpenedCounted)
<1>1. RedirInit => RedirTypeOK /\ OpenedCounted
  <2> SUFFICES ASSUME RedirInit PROVE RedirTypeOK /\ OpenedCounted
    OBVIOUS
  <2>1. OpenedCounted
    BY FS_EmptySet DEF RedirInit, OpenedCounted
  <2>2. ports \in [Fds -> [file : Files \cup {"nil"}, chan : Chans, back : BackChannels]]
    BY DEF RedirInit, Fds, Files, Inherited, Chans, BackChannels, NoPort
  <2>3. fops \in [Fds -> [file : BOOLEAN, chan : BOOLEAN]]
    BY DEF RedirInit, Fds, NotOwned
  <2>4. \A p \in Fds : /\ fops[p].file => ports[p].file # "nil"
                       /\ fops[p].chan => ports[p].chan # "nil"
    BY DEF RedirInit, Fds, NotOwned, NoPort
  <2> QED
    BY <2>1, <2>2, <2>3, <2>4, RedirAssumption DEF RedirInit, RedirTypeOK
<1>2. RedirTypeOK /\ OpenedCounted /\ [RedirNext]_redirVars => (RedirTypeOK /\ OpenedCounted)'
  <2> SUFFICES ASSUME RedirTypeOK, OpenedCounted, [RedirNext]_redirVars
               PROVE  RedirTypeOK' /\ OpenedCounted'
    OBVIOUS
  <2>0. /\ Cardinality(opened) \in Nat /\ n \in Nat /\ opened \subseteq Names
        /\ (Redirecting => n' = n + 1 /\ n' \in 0..MaxRedirs /\ redirPc = "redir")
    BY RedirAssumption, FS_CardinalityType DEF OpenedCounted, Redirecting, RedirTypeOK
  <2> USE RedirAssumption
  <2>1. ASSUME NEW dst \in Fds, NEW read \in BOOLEAN, RedirToName(dst, read)
        PROVE  RedirTypeOK' /\ OpenedCounted'
    <3> DEFINE f == CHOOSE f \in Names : f \notin opened
    <3>1. f \in Names \ opened
      BY <2>1, FreshName DEF RedirToName, Redirecting, RedirTypeOK
    <3> HIDE DEF f
    <3>2. /\ ReplacePort(dst, FilePort(f, read), TRUE) /\ opened' = opened \cup {f}
          /\ Redirecting /\ redirPc' = redirPc
      BY <2>1 DEF RedirToName, f
    <3>3. f \in Files /\ f # "nil"
      BY <3>1, NamesAreNew DEF Chans
    <3>4. OpenedCounted'
      <4>1. Cardinality(opened \cup {f}) = Cardinality(opened) + 1 /\ IsFiniteSet(opened \cup {f})
        BY <3>1, FS_AddElement DEF OpenedCounted
      <4> QED
        BY <2>0, <3>2, <4>1 DEF OpenedCounted
    <3>5. RedirTypeOK'
      <4>1. opened' \subseteq Names
        BY <2>0, <3>1, <3>2
      <4>2. FilePort(f, read) \in [file : Files \cup {"nil"}, chan : Chans, back : BackChannels]
            /\ FilePort(f, read).file # "nil"
        BY <3>3, FilePortType
      <4> QED
        BY <2>0, <3>2, <4>1, <4>2, ReplaceKeepsType DEF Redirecting, RedirTypeOK
    <3> QED
      BY <3>4, <3>5
  <2>2. ASSUME NEW dst \in Fds, NEW port \in [file : Files \cup {"nil"}, chan : Chans, back : BackChannels],
               ReplacePort(dst, port, FALSE), Redirecting, UNCHANGED opened, redirPc' \in {redirPc, "tell"}
        PROVE  RedirTypeOK' /\ OpenedCounted'
    <3>1. OpenedCounted'
      BY <2>0, <2>2 DEF OpenedCounted
    <3>2. RedirTypeOK'
      BY <2>0, <2>2, ReplaceKeepsType DEF Redirecting, RedirTypeOK
    <3> QED
      BY <3>1, <3>2
  <2>3. ASSUME NEW dst \in Fds, NEW read \in BOOLEAN, RedirToFile(dst, read)
        PROVE  RedirTypeOK' /\ OpenedCounted'
    <3>1. "fileObject" \in Files
      BY DEF Files, Inherited
    <3> QED
      BY <2>2, <2>3, <3>1, FilePortType DEF RedirToFile
  <2>4. ASSUME NEW dst \in Fds, NEW src \in Fds, RedirToFd(dst, src)
        PROVE  RedirTypeOK' /\ OpenedCounted'
    BY <2>2, <2>4 DEF RedirToFd, RedirTypeOK
  <2>5. ASSUME NEW dst \in Fds, RedirClose(dst)
        PROVE  RedirTypeOK' /\ OpenedCounted'
    BY <2>2, <2>5 DEF RedirClose, Chans, BackChannels
  <2>6. ASSUME NEW dst \in Fds, RedirFails(dst)
        PROVE  RedirTypeOK' /\ OpenedCounted'
    BY <2>2, <2>6 DEF RedirFails, RedirTypeOK
  <2>7. CASE RedirBadDst
    BY <2>0, <2>7 DEF RedirBadDst, Redirecting, RedirTypeOK, OpenedCounted
  <2>8. CASE BeginBody \/ EndBody \/ UNCHANGED redirVars
    BY <2>8 DEF BeginBody, EndBody, redirVars, RedirTypeOK, OpenedCounted
  <2>9. CASE TellReader
    BY <2>9 DEF TellReader, RedirTypeOK, OpenedCounted, BackChannels
  <2>10. CASE CloseOwned
    <3>0. IsFiniteSet(Fds)
      <4>1. 0 \in Int /\ 3 \in Int
        OBVIOUS
      <4>2. IsFiniteSet(0..3)
        BY <4>1, FS_Interval, Zenon
      <4> QED
        BY <4>2 DEF Fds
    <3>1. \A S \in SUBSET Fds : Cardinality(S) \in Nat
      <4> TAKE S \in SUBSET Fds
      <4>1. IsFiniteSet(S)
        BY <3>0, FS_Subset
      <4> QED
        BY <4>1, FS_CardinalityType
    <3>2. closes' \in [Files \cup Chans -> Nat]
      BY <2>10, <3>1 DEF CloseOwned, RedirTypeOK
    <3> QED
      BY <2>10, <3>2 DEF CloseOwned, RedirTypeOK, OpenedCounted, NotOwned
  <2> QED
    BY <2>1, <2>3, <2>4, <2>5, <2>6, <2>7, <2>8, <2>9, <2>10 DEF RedirNext, RedirStep
<1> QED
  BY <1>1, <1>2, PTL DEF RedirSpec

-----------------------------------------------------------------------------
(* Closed exactly once.                                                    *)

\* What a port owns is still open, belongs to the form and to no other port; what belongs
\* to the form has been closed once, or is still open and owned by some port; nothing else
\* has been closed.
Ownership ==
    /\ \A p \in Fds : \A x \in OwnedBy(p) : x \in Owned /\ closes[x] = 0
    /\ \A p, q \in Fds : OwnedBy(p) \cap OwnedBy(q) # {} => p = q
    /\ \A x \in Things : closes[x] = 0 \/ (closes[x] = 1 /\ x \in Owned)
    /\ \A x \in Owned : closes[x] = 0 => \E p \in Fds : x \in OwnedBy(p)
    /\ redirPc = "done" => \A p \in Fds : OwnedBy(p) = {}

\* What belongs to the form is a file or a channel that is counted.
LEMMA OwnedAreThings == RedirTypeOK => Owned \subseteq Things
BY DEF RedirTypeOK, Owned, Things, Files, Chans

\* What ReplacePort does to ownership.
LEMMA ReplaceEffect ==
    ASSUME RedirTypeOK, NEW dst \in Fds, NEW port, NEW owned \in BOOLEAN, ReplacePort(dst, port, owned)
    PROVE  /\ \A p \in Fds \ {dst} : OwnedBy(p)' = OwnedBy(p)
           /\ OwnedBy(dst)' = {x \in Things : owned /\ x = port.file}
           /\ closes' = [x \in Things |-> IF x \in OwnedBy(dst) THEN closes[x] + 1 ELSE closes[x]]
<1>1. \A p \in Fds \ {dst} : fops'[p] = fops[p] /\ ports'[p] = ports[p]
  BY DEF RedirTypeOK, ReplacePort
<1>2. fops'[dst] = [file |-> owned, chan |-> FALSE] /\ ports'[dst] = port
  BY DEF RedirTypeOK, ReplacePort
<1>3. \A p \in Fds \ {dst} : OwnedBy(p)' = OwnedBy(p)
  BY <1>1 DEF OwnedBy, Closes
<1>4. OwnedBy(dst)' = {x \in Things : owned /\ x = port.file}
  BY <1>2 DEF OwnedBy, Closes, Things
<1>5. ports[dst] = NoPort => OwnedBy(dst) = {}
  BY DEF RedirTypeOK, OwnedBy, Closes, NoPort
<1>6. closes' = [x \in Things |-> IF x \in OwnedBy(dst) THEN closes[x] + 1 ELSE closes[x]]
  <2>1. CASE ports[dst] = NoPort
    BY <1>5, <2>1 DEF ReplacePort, RedirTypeOK, Things
  <2>2. CASE ports[dst] # NoPort
    BY <2>2 DEF ReplacePort, Close, OwnedBy, Things
  <2> QED
    BY <2>1, <2>2
<1> QED
  BY <1>3, <1>4, <1>6

\* A port is closed, as far as it is owned, and owns nothing afterwards.
LEMMA ReplaceUnowned ==
    ASSUME RedirTypeOK, Ownership, NEW dst \in Fds, NEW port, ReplacePort(dst, port, FALSE),
           Owned' = Owned, redirPc' # "done"
    PROVE  Ownership'
<1>1. OwnedBy(dst)' = {}
  BY ReplaceEffect
<1>2. \A p \in Fds \ {dst} : OwnedBy(p)' = OwnedBy(p)
  BY ReplaceEffect
<1>3. \A x \in Things : closes'[x] = IF x \in OwnedBy(dst) THEN closes[x] + 1 ELSE closes[x]
  BY ReplaceEffect
<1>4. \A p \in Fds : OwnedBy(p) \subseteq Things
  BY DEF OwnedBy, Closes, Things
<1>5. \A p \in Fds : \A x \in OwnedBy(p)' : x \in Owned' /\ closes'[x] = 0
  BY <1>1, <1>2, <1>3, <1>4 DEF Ownership
<1>6. \A p, q \in Fds : OwnedBy(p)' \cap OwnedBy(q)' # {} => p = q
  BY <1>1, <1>2 DEF Ownership
<1>7. \A x \in Things : closes'[x] = 0 \/ (closes'[x] = 1 /\ x \in Owned')
  BY <1>3 DEF Ownership
<1>8. \A x \in Owned' : closes'[x] = 0 => \E p \in Fds : x \in OwnedBy(p)'
  <2> SUFFICES ASSUME NEW x \in Owned, closes'[x] = 0
               PROVE  \E p \in Fds : x \in OwnedBy(p)'
    OBVIOUS
  <2>1. x \in Things
    BY OwnedAreThings
  <2>2. x \notin OwnedBy(dst) /\ closes[x] = 0
    BY <1>3, <2>1 DEF Ownership
  <2> QED
    BY <1>2, <2>2 DEF Ownership
<1> QED
  BY <1>5, <1>6, <1>7, <1>8 DEF Ownership

\* The same with a file that was not the form's before.
LEMMA ReplaceByNew ==
    ASSUME RedirTypeOK, Ownership, NEW dst \in Fds, NEW f \in Things \ Owned, NEW port, port.file = f,
           ReplacePort(dst, port, TRUE), Owned' = Owned \cup {f}, redirPc' # "done"
    PROVE  Ownership'
<1>1. OwnedBy(dst)' = {f}
  BY ReplaceEffect
<1>2. \A p \in Fds \ {dst} : OwnedBy(p)' = OwnedBy(p)
  BY ReplaceEffect
<1>3. \A x \in Things : closes'[x] = IF x \in OwnedBy(dst) THEN closes[x] + 1 ELSE closes[x]
  BY ReplaceEffect
<1>4. \A p \in Fds : OwnedBy(p) \subseteq Things
  BY DEF OwnedBy, Closes, Things
<1>0. \A p \in Fds : f \notin OwnedBy(p)
  BY DEF Ownership
<1>5. closes[f] = 0 /\ closes'[f] = 0
  BY <1>0, <1>3 DEF Ownership
<1>6. \A p \in Fds : \A x \in OwnedBy(p)' : x \in Owned' /\ closes'[x] = 0
  BY <1>1, <1>2, <1>3, <1>4, <1>5 DEF Ownership
<1>7. \A p, q \in Fds : OwnedBy(p)' \cap OwnedBy(q)' # {} => p = q
  BY <1>0, <1>1, <1>2 DEF Ownership
<1>8. \A x \in Things : closes'[x] = 0 \/ (closes'[x] = 1 /\ x \in Owned')
  BY <1>3 DEF Ownership
<1>9. \A x \in Owned' : closes'[x] = 0 => \E p \in Fds : x \in OwnedBy(p)'
  <2> SUFFICES ASSUME NEW x \in Owned \cup {f}, closes'[x] = 0
               PROVE  \E p \in Fds : x \in OwnedBy(p)'
    OBVIOUS
  <2>1. CASE x = f
    BY <1>1, <2>1
  <2>2. CASE x \in Owned
    <3>1. x \in Things
      BY <2>2, OwnedAreThings
    <3>2. x \notin OwnedBy(dst) /\ closes[x] = 0
      BY <1>3, <3>1 DEF Ownership
    <3> QED
      BY <1>2, <2>2, <3>2 DEF Ownership
  <2> QED
    BY <2>1, <2>2
<1> QED
  BY <1>6, <1>7, <1>8, <1>9 DEF Ownership

\* Steps that touch neither the ports nor what has been closed.
LEMMA KeepOwnership ==
    ASSUME Ownership, UNCHANGED <<ports, fops, closes, opened, inputIsPipe, outputIsPipe>>,
           redirPc' = "done" => redirPc = "done"
    PROVE  Ownership'
<1>1. Owned' = Owned
  BY DEF Owned
<1>2. \A p \in Fds : OwnedBy(p)' = OwnedBy(p)
  BY DEF OwnedBy, Closes
<1> QED
  BY <1>1, <1>2 DEF Ownership

\* Everything the form owns is closed exactly once before it is done, and nothing else is
\* ever closed, for any number of redirections.
THEOREM ClosedTheorem == RedirSpec => []ClosedExactlyOnce
<1>1. RedirInit => Ownership
  <2> SUFFICES ASSUME RedirInit PROVE Ownership
    OBVIOUS
  <2>1. OwnedBy(0) = IF inputIsPipe THEN {"pipeIn"} ELSE {}
    BY DEF RedirInit, OwnedBy, Closes, Fds, Files, NotOwned
  <2>2. OwnedBy(1) = IF outputIsPipe THEN {"pipeOut", "chanOut"} ELSE {}
    BY DEF RedirInit, OwnedBy, Closes, Fds, Files, Chans, NotOwned
  <2>3. OwnedBy(2) = {} /\ OwnedBy(3) = {}
    BY DEF RedirInit, OwnedBy, Closes, Fds, NotOwned
  <2>4. \A x \in Things : closes[x] = 0
    BY DEF RedirInit, Things
  <2>5. \A p \in Fds : p = 0 \/ p = 1 \/ p = 2 \/ p = 3
    BY DEF Fds
  <2>6. 0 \in Fds /\ 1 \in Fds
    BY DEF Fds
  <2>7. Owned = OwnedBy(0) \cup OwnedBy(1)
    BY <2>1, <2>2 DEF Owned, RedirInit
  <2>8. \A p \in Fds : OwnedBy(p) \subseteq Things
    BY DEF OwnedBy, Closes, Things
  <2>9. OwnedBy(0) \cap OwnedBy(1) = {}
    BY <2>1, <2>2
  <2>10. redirPc # "done"
    BY DEF RedirInit
  <2> QED
    BY <2>3, <2>4, <2>5, <2>6, <2>7, <2>8, <2>9, <2>10 DEF Ownership
<1>2. RedirTypeOK /\ OpenedCounted /\ Ownership /\ [RedirNext]_redirVars => Ownership'
  <2> SUFFICES ASSUME RedirTypeOK, OpenedCounted, Ownership, [RedirNext]_redirVars
               PROVE  Ownership'
    OBVIOUS
  <2>1. ASSUME NEW dst \in Fds, NEW read \in BOOLEAN, RedirToName(dst, read)
        PROVE  Ownership'
    <3> DEFINE f == CHOOSE f \in Names : f \notin opened
    <3>1. f \in Names \ opened
      BY <2>1, FreshName, RedirAssumption DEF RedirToName, Redirecting, RedirTypeOK
    <3> HIDE DEF f
    <3>2. /\ ReplacePort(dst, FilePort(f, read), TRUE) /\ opened' = opened \cup {f}
          /\ Redirecting /\ redirPc' = redirPc
      BY <2>1 DEF RedirToName, f
    <3>3. f \in Files /\ f \notin Inherited \cup {"pipeIn", "pipeOut"} \cup Chans
      BY <3>1, NamesAreNew
    <3>4. f \in Things \ Owned
      BY <3>1, <3>3 DEF Things, Owned, Chans
    <3>5. FilePort(f, read).file = f
      BY <3>3, FilePortType
    <3>6. Owned' = Owned \cup {f} /\ redirPc' # "done"
      BY <3>2 DEF Redirecting, Owned
    <3> QED
      BY <3>2, <3>4, <3>5, <3>6, ReplaceByNew
  <2>2. ASSUME NEW dst \in Fds, NEW port, ReplacePort(dst, port, FALSE),
               Redirecting, UNCHANGED opened, redirPc' \in {redirPc, "tell"}
        PROVE  Ownership'
    <3>1. Owned' = Owned /\ redirPc' # "done"
      BY <2>2 DEF Redirecting, Owned
    <3> QED
      BY <2>2, <3>1, ReplaceUnowned
  <2>3. ASSUME NEW dst \in Fds, NEW read \in BOOLEAN, RedirToFile(dst, read)
        PROVE  Ownership'
    BY <2>2, <2>3 DEF RedirToFile
  <2>4. ASSUME NEW dst \in Fds, NEW src \in Fds, RedirToFd(dst, src)
        PROVE  Ownership'
    BY <2>2, <2>4 DEF RedirToFd
  <2>5. ASSUME NEW dst \in Fds, RedirClose(dst)
        PROVE  Ownership'
    BY <2>2, <2>5 DEF RedirClose
  <2>6. ASSUME NEW dst \in Fds, RedirFails(dst)
        PROVE  Ownership'
    BY <2>2, <2>6 DEF RedirFails
  <2>7. CASE RedirBadDst \/ BeginBody \/ EndBody \/ TellReader \/ UNCHANGED redirVars
    BY <2>7, KeepOwnership DEF RedirBadDst, Redirecting, BeginBody, EndBody, TellReader, redirVars
  <2>8. CASE CloseOwned
    <3>1. Owned' = Owned
      BY <2>8 DEF CloseOwned, Owned
    <3>2. \A p \in Fds : OwnedBy(p)' = {}
      BY <2>8 DEF CloseOwned, OwnedBy, Closes, NotOwned
    <3>3. ASSUME NEW x \in Things
          PROVE  closes'[x] = IF \E p \in Fds : x \in OwnedBy(p) THEN closes[x] + 1 ELSE closes[x]
      <4> DEFINE P == {p \in Fds : x \in OwnedBy(p)}
      <4>1. closes'[x] = closes[x] + Cardinality(P)
        BY <2>8, <3>3 DEF CloseOwned, OwnedBy, Things
      <4>2. closes[x] \in Nat
        BY <3>3 DEF RedirTypeOK, Things
      <4>3. CASE P = {}
        <5>1. Cardinality(P) = 0
          BY <4>3, FS_EmptySet, Zenon
        <5>2. ~ \E p \in Fds : x \in OwnedBy(p)
          BY <4>3
        <5> QED
          BY <4>1, <4>2, <5>1, <5>2
      <4>4. CASE P # {}
        <5>1. PICK p \in Fds : x \in OwnedBy(p)
          BY <4>4
        <5>2. P = {p}
          BY <5>1 DEF Ownership
        <5>3. Cardinality(P) = 1
          BY <5>2, FS_Singleton
        <5> QED
          BY <4>1, <5>1, <5>3
      <4> QED
        BY <4>3, <4>4
    <3>4. \A x \in Things : closes'[x] = 0 \/ (closes'[x] = 1 /\ x \in Owned)
      BY <3>3 DEF Ownership
    <3>5. \A x \in Owned : closes'[x] # 0
      <4> TAKE x \in Owned
      <4>1. x \in Things
        BY OwnedAreThings
      <4>2. closes[x] = 0 \/ closes[x] = 1
        BY <4>1 DEF Ownership
      <4>3. closes[x] = 0 => \E p \in Fds : x \in OwnedBy(p)
        BY DEF Ownership
      <4> QED
        BY <3>3, <4>1, <4>2, <4>3
    <3> QED
      BY <3>1, <3>2, <3>4, <3>5 DEF Ownership
  <2> QED
    BY <2>1, <2>3, <2>4, <2>5, <2>6, <2>7, <2>8 DEF RedirNext, RedirStep
<1>3. RedirTypeOK /\ Ownership => ClosedExactlyOnce
  <2> SUFFICES ASSUME RedirTypeOK, Ownership, NEW x \in Things
               PROVE  /\ closes[x] <= (IF x \in Owned THEN 1 ELSE 0)
                      /\ redirPc = "done" /\ x \in Owned => closes[x] = 1
    BY DEF ClosedExactlyOnce, Things
  <2> QED
    BY DEF Ownership
<1> QED
  BY <1>1, <1>2, <1>3, RedirTypeCorrect, PTL DEF RedirSpec
=============================================================================
