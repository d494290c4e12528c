----------------------------- MODULE HistCursor -----------------------------
(***************************************************************************)
(* Command history as an editor session sees it: the table of commands in  *)
(* the database (pkg/store/cmd.go), shared with other sessions through the *)
(* daemon, the commands of the session itself, and the cursor that moves   *)
(* over both (pkg/cli/histutil: dbStore, memStore, hybridStore).           *)
(*                                                                         *)
(* A command is its text, a prefix the set of the texts that have it.      *)
(***************************************************************************)
EXTENDS Integers, Sequences, FiniteSetsExt

CONSTANTS
    Texts,
    Searches,     \* the prefixes searched for, each a set of texts
    MaxSeq,       \* bound: commands ever added to the database
    MaxSession,   \* bound: commands of the session since it was fast-forwarded
    MaxFaults     \* bound: calls to the database that fail

ASSUME HistAssumption ==
    /\ Searches \subseteq SUBSET Texts
    /\ MaxSeq \in Nat /\ MaxSession \in Nat /\ MaxFaults \in Nat

VARIABLES
    sequence, cmds,   \* the bucket: the last sequence number, and the commands by number
    shared,     \* whether histStore.hs is a hybrid store, or only a memory store
    upper,      \* dbStore.upper: what was NextCmdSeq when the store was made
    session,    \* memStore.cmds
    cursor,     \* the cursor in use
    faults

dbVars == <<sequence, cmds>>
storeVars == <<shared, upper, session>>
vars == <<dbVars, storeVars, cursor, faults>>

NoText == ""   \* the text of a storedefs.Cmd that only has a number

\* The fields of hybridStoreCursor, dbStoreCursor (upper, seq, text, err) and
\* memStoreCursor (cmds, index; 0 and Len(cmds) + 1 are over the edge).
Cursors == [prefix : Searches, shared : BOOLEAN, useShared : BOOLEAN,
            upper : 1..MaxSeq + 1, seq : -1..MaxSeq + 1, text : Texts \cup {NoText},
            err : {"nil", "end", "db"}, cmds : Seq(Texts), index : 0..MaxSession + 1]

NewCursor(p) ==
    [prefix |-> p, shared |-> shared, useShared |-> FALSE,
     upper |-> upper, seq |-> upper, text |-> NoText, err |-> "end",
     cmds |-> session, index |-> Len(session) + 1]

TypeOK ==
    /\ sequence \in 0..MaxSeq
    /\ DOMAIN cmds \subseteq 1..sequence /\ \A q \in DOMAIN cmds : cmds[q] \in Texts
    /\ shared \in BOOLEAN /\ upper \in 1..sequence + 1
    /\ session \in Seq(Texts)
    /\ cursor \in Cursors /\ cursor.index <= Len(cursor.cmds) + 1 /\ cursor.seq <= cursor.upper
    /\ faults \in 0..MaxFaults

Init ==
    /\ sequence = 0 /\ cmds = <<>>
    /\ shared = TRUE /\ upper = 1 /\ session = <<>>
    /\ \E p \in Searches : cursor = NewCursor(p)
    /\ faults = 0

-----------------------------------------------------------------------------
(* The store.                                                              *)

\* dbStore.AddCmd of pkg/store: the next sequence number, and the command under it.
Put(t) ==
    /\ sequence < MaxSeq
    /\ sequence' = sequence + 1
    /\ cmds' = [q \in DOMAIN cmds \cup {sequence + 1} |-> IF q = sequence + 1 THEN t ELSE cmds[q]]

\* Another session adds a command.
AddOther(t) ==
    /\ Put(t)
    /\ UNCHANGED <<storeVars, cursor, faults>>

\* hybridStore.AddCmd: to the database, and, even if that fails, to the session.
AddOwn(t) ==
    /\ Len(session) < MaxSession
    /\ session' = Append(session, t)
    /\ \/ shared /\ Put(t) /\ UNCHANGED faults
       \/ shared /\ faults < MaxFaults /\ faults' = faults + 1 /\ UNCHANGED dbVars
       \/ ~shared /\ UNCHANGED <<dbVars, faults>>
    /\ UNCHANGED <<shared, upper, cursor>>

\* dbStore.DelCmd, in any session.
Delete(q) ==
    /\ q \in DOMAIN cmds
    /\ cmds' = [r \in DOMAIN cmds \ {q} |-> cmds[r]]
    /\ UNCHANGED <<sequence, storeVars, cursor, faults>>

\* histStore.FastForward: a new hybrid store, or only a memory store if NextCmdSeq fails.
FastForward ==
    /\ session' = <<>>
    /\ \/ shared' = TRUE /\ upper' = sequence + 1 /\ UNCHANGED faults
       \/ shared' = FALSE /\ faults < MaxFaults /\ faults' = faults + 1 /\ UNCHANGED upper
    /\ UNCHANGED <<dbVars, cursor>>

-----------------------------------------------------------------------------
(* The cursors.  A failing call to the database is one with fails = TRUE.  *)

MemPrev(c) == Max({0} \cup {i \in 1..Len(c.cmds) : i < c.index /\ c.cmds[i] \in c.prefix})

MemNext(c) ==
    Min({Len(c.cmds) + 1} \cup {i \in 1..Len(c.cmds) : i > c.index /\ c.cmds[i] \in c.prefix})

\* The numbers of the commands with the cursor's prefix.
Matching(c) == {q \in DOMAIN cmds : cmds[q] \in c.prefix}

\* dbStoreCursor.set, for a command found and for ErrNoMatchingCmd.
Found(c, q) == [c EXCEPT !.seq = q, !.text = cmds[q], !.err = "nil"]
NotFound(c, endSeq) == [c EXCEPT !.seq = endSeq, !.text = NoText, !.err = "end"]

\* dbStoreCursor.Prev over PrevCmd.
DbPrev(c, fails) ==
    LET S == {q \in Matching(c) : q < c.seq} IN
    IF c.seq < 0 THEN c
    ELSE IF fails THEN [c EXCEPT !.err = "db"]
    ELSE IF S = {} THEN NotFound(c, -1)
    ELSE Found(c, Max(S))

\* Mutant: commands that other sessions have added since are not left out.
DbNext_beyondUpper(c, fails) ==
    LET S == {q \in Matching(c) : q > c.seq} IN
    IF fails THEN [c EXCEPT !.err = "db"]
    ELSE IF S = {} THEN NotFound(c, c.upper)
    ELSE Found(c, Min(S))

\* dbStoreCursor.Next over NextCmd; commands added after the store was made are left out.
DbNext(c, fails) ==
    LET S == {q \in Matching(c) : q > c.seq} IN
    IF c.seq >= c.upper THEN c
    ELSE IF fails THEN [c EXCEPT !.err = "db"]
    ELSE IF S = {} \/ Min(S) >= c.upper THEN NotFound(c, c.upper)
    ELSE Found(c, Min(S))

\* hybridStoreCursor.Prev, or memStoreCursor.Prev if there is no shared store.
HybridPrev(c, fails) ==
    IF c.useShared THEN DbPrev(c, fails)
    ELSE LET m == [c EXCEPT !.index = MemPrev(c)] IN
         IF c.shared /\ m.index = 0 THEN DbPrev([m EXCEPT !.useShared = TRUE], fails) ELSE m

\* hybridStoreCursor.Next.
HybridNext(c, fails) ==
    IF ~c.useShared THEN [c EXCEPT !.index = MemNext(c)]
    ELSE LET d == DbNext(c, fails) IN
         IF d.err = "end" THEN [d EXCEPT !.useShared = FALSE, !.index = MemNext(d)] ELSE d

\* The error and the text Get returns.
GetErr(c) ==
    IF c.useShared THEN c.err ELSE IF c.index \in 1..Len(c.cmds) THEN "nil" ELSE "end"
GetText(c) == IF c.useShared THEN c.text ELSE c.cmds[c.index]

\* A call to the database fails only in the shared part, and within the bound.
MayFail(moved, fails) ==
    /\ fails => faults < MaxFaults /\ moved.useShared
    /\ faults' = IF fails THEN faults + 1 ELSE faults

Open(p) ==
    /\ cursor' = NewCursor(p)
    /\ UNCHANGED <<dbVars, storeVars, faults>>

Prev(fails) ==
    /\ cursor' = HybridPrev(cursor, fails) /\ MayFail(cursor', fails)
    /\ UNCHANGED <<dbVars, storeVars>>

Next(fails) ==
    /\ cursor' = HybridNext(cursor, fails) /\ MayFail(cursor', fails)
    /\ UNCHANGED <<dbVars, storeVars>>

StoreStep ==
    \/ \E t \in Texts : AddOther(t) \/ AddOwn(t)
    \/ \E q \in 1..MaxSeq : Delete(q)
    \/ FastForward

CursorNext ==
    \/ StoreStep
    \/ \E p \in Searches : Open(p)
    \/ \E fails \in BOOLEAN : Prev(fails) \/ Next(fails)

Spec == Init /\ [][CursorNext]_vars

-----------------------------------------------------------------------------
\* The commands the cursor moves along have numbers in their order: those of the database
\* that it may see have their own, and those of the session come after them.
Places(c) ==
    {q \in Matching(c) : c.shared /\ q < c.upper}
      \cup {q \in c.upper + 1 .. c.upper + Len(c.cmds) : c.cmds[q - c.upper] \in c.prefix}
Commands(c) == [q \in Places(c) |-> IF q < c.upper THEN cmds[q] ELSE c.cmds[q - c.upper]]

\* Those before the cursor, whether it is on one of them, and what Get returns.
Before(c) ==
    IF c.useShared THEN {q \in Matching(c) : q < c.seq} ELSE {q \in Places(c) : q < c.upper + c.index}
On(c) == IF c.useShared THEN c.seq \in Places(c) ELSE c.index \in 1..Len(c.cmds)
Got(c) == IF GetErr(c) = "nil" THEN <<"nil", GetText(c)>> ELSE <<GetErr(c)>>

View == INSTANCE HistView WITH view <- Commands(cursor), before <- Before(cursor),
                               on <- On(cursor), got <- Got(cursor)

\* Seen from outside, the hybrid cursor is a cursor over one list to which nothing is added:
\* the commands of all sessions before this store was made, then those of this session,
\* whatever other sessions add and delete meanwhile, and though calls fail.
ImplementsView == View!Spec
=============================================================================
