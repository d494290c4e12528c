----------------------------- MODULE Highlighter -----------------------------
(***************************************************************************)
(* The code highlighter's cache and its late results                       *)
(* (pkg/edit/highlight/highlighter.go and highlight.go).  Get runs under   *)
(* cacheMutex and gives up waiting for the styling of commands after       *)
(* maxBlockForLate; a goroutine then delivers it to the cache.             *)
(*                                                                         *)
(* A styled text is the code it was made from, whether its commands have   *)
(* been styled, and the epoch in which HasCommand was asked: an epoch ends *)
(* with InvalidateCache, called when the set of commands may have changed. *)
(***************************************************************************)
EXTENDS Integers, Sequences, FiniteSets

CONSTANTS
    Codes,        \* codes the buffer can hold, other than the empty one
    LatesSize,    \* capacity of lates (latesBufferSize = 128 in the code)
    MaxGets,      \* bound: calls of Get that miss the cache, and of InvalidateCache
    MaxEpochs     \* bound: calls of InvalidateCache

ASSUME HighlighterAssumption ==
    LatesSize \in Nat \ {0} /\ MaxGets \in Nat /\ MaxEpochs \in Nat

Empty == "empty"    \* the code of the zero cache

VARIABLES
    mutex,    \* cacheMutex: 0 free, -1 held by Get, n held by the late goroutine of get n
    cache,    \* the code and the styled text
    get,      \* the call of Get in progress
    gets,     \* how many calls have missed the cache, which names them 1, 2, ...
    late,     \* the goroutine delivering the late result of each of them
    lates,    \* tokens in the channel lates
    textShown,    \* what the latest Get returned, and the code it was called with
    epoch

highlighterVars == <<mutex, cache, get, gets, late, lates, textShown, epoch>>

Gets == 1..MaxGets
AnyCode == Codes \cup {Empty}
Styled == [code : AnyCode, done : BOOLEAN, epoch : Nat]
Plain(c) == [code |-> c, done |-> FALSE, epoch |-> epoch]
NoGet == [at |-> "idle", code |-> Empty]

HighlighterTypeOK ==
    /\ mutex \in -1..MaxGets
    /\ cache \in [code : AnyCode, styled : Styled]
    /\ get \in [at : {"idle", "lock", "highlight"}, code : AnyCode]
    /\ gets \in 0..MaxGets
    /\ late \in [Gets -> [at : {"none", "command", "select", "lock", "check", "send", "end"},
                          code : AnyCode, epoch : Nat]]
    /\ lates \in 0..LatesSize
    /\ textShown \in [code : AnyCode, styled : Styled]
    /\ epoch \in 0..MaxEpochs

HighlighterInit ==
    /\ mutex = 0 /\ get = NoGet /\ gets = 0 /\ lates = 0 /\ epoch = 0
    /\ cache = [code |-> Empty, styled |-> Plain(Empty)]
    /\ late = [n \in Gets |-> [at |-> "none", code |-> Empty, epoch |-> 0]]
    /\ textShown = [code |-> Empty, styled |-> Plain(Empty)]

-----------------------------------------------------------------------------
(* Get, called by the editor's event loop.                                 *)

GetCall(c) ==
    /\ get.at = "idle" /\ get' = [at |-> "lock", code |-> c]
    /\ UNCHANGED <<mutex, cache, gets, late, lates, textShown, epoch>>

\* The lock is taken and the cached result is for this code.
GetHit ==
    /\ get.at = "lock" /\ mutex = 0 /\ cache.code = get.code
    /\ textShown' = cache /\ get' = NoGet
    /\ UNCHANGED <<mutex, cache, gets, late, lates, epoch>>

\* It is not: highlight starts a goroutine that asks HasCommand, and waits for it ...
GetMiss ==
    /\ get.at = "lock" /\ mutex = 0 /\ cache.code # get.code /\ get.code # Empty
    /\ gets + epoch < MaxGets /\ gets' = gets + 1
    /\ mutex' = -1
    /\ get' = [get EXCEPT !.at = "highlight"]
    /\ late' = [late EXCEPT ![gets + 1] = [at |-> "command", code |-> get.code, epoch |-> epoch]]
    /\ UNCHANGED <<cache, lates, textShown, epoch>>

\* HasCommand has answered; the text waits on lateCh.
CommandsStyled(n) ==
    /\ late[n].at = "command"
    /\ late' = [late EXCEPT ![n].at = "select", ![n].epoch = epoch]
    /\ UNCHANGED <<mutex, cache, get, gets, lates, textShown, epoch>>

\* The cache is filled, the lock released, the result returned.
Fill(s) ==
    /\ cache' = [code |-> get.code, styled |-> s]
    /\ textShown' = cache'
    /\ mutex' = 0 /\ get' = NoGet

\* ... unless the code has no command in it.
GetNoCommand ==
    /\ get.at = "lock" /\ mutex = 0 /\ cache.code # get.code /\ get.code = Empty
    /\ Fill([code |-> Empty, done |-> TRUE, epoch |-> epoch])
    /\ UNCHANGED <<gets, late, lates, epoch>>

\* The styled text came in time ...
GetInTime ==
    /\ get.at = "highlight" /\ late[gets].at = "select"
    /\ Fill([code |-> get.code, done |-> TRUE, epoch |-> late[gets].epoch])
    /\ late' = [late EXCEPT ![gets].at = "end"]
    /\ UNCHANGED <<gets, lates, epoch>>

\* ... or it did not, and will be delivered by another goroutine.
GetTimeout ==
    /\ get.at = "highlight"
    /\ Fill(Plain(get.code))
    /\ late' = [late EXCEPT ![gets].at = IF @ = "select" THEN "lock" ELSE "command"]
    /\ UNCHANGED <<gets, lates, epoch>>

\* The goroutine that calls lateCb receives the text once Get has returned.
LateReceive(n) ==
    /\ late[n].at = "select" /\ ~(get.at = "highlight" /\ gets = n)
    /\ late' = [late EXCEPT ![n].at = "lock"]
    /\ UNCHANGED <<mutex, cache, get, gets, lates, textShown, epoch>>

-----------------------------------------------------------------------------
(* lateCb                                                                  *)

LateLock(n) ==
    /\ late[n].at = "lock" /\ mutex = 0
    /\ mutex' = n
    /\ late' = [late EXCEPT ![n].at = "check"]
    /\ UNCHANGED <<cache, get, gets, lates, textShown, epoch>>

\* Mutant: the result is stored whatever the cache holds now.
LateCheck_always(n) ==
    /\ late[n].at = "check"
    /\ cache' = [cache EXCEPT !.styled = [code |-> late[n].code, done |-> TRUE, epoch |-> late[n].epoch]]
    /\ mutex' = 0
    /\ late' = [late EXCEPT ![n].at = "send"]
    /\ UNCHANGED <<get, gets, lates, textShown, epoch>>

\* Mutant: the lock is kept while sending.
LateCheck_keepLock(n) ==
    /\ late[n].at = "check"
    /\ IF cache.code # late[n].code
         THEN UNCHANGED cache /\ late' = [late EXCEPT ![n].at = "end"] /\ mutex' = 0
         ELSE /\ lates < LatesSize
              /\ cache' = [cache EXCEPT !.styled =
                    [code |-> late[n].code, done |-> TRUE, epoch |-> late[n].epoch]]
              /\ late' = [late EXCEPT ![n].at = "send"]
              /\ mutex' = 0
    /\ UNCHANGED <<get, gets, lates, textShown, epoch>>

\* A result for code that is no longer the cached one is dropped; otherwise it replaces
\* the cached text.  The lock is released either way.
LateCheck(n) ==
    /\ late[n].at = "check"
    /\ mutex' = 0
    /\ IF cache.code # late[n].code
         THEN UNCHANGED cache /\ late' = [late EXCEPT ![n].at = "end"]
         ELSE /\ cache' = [cache EXCEPT !.styled =
                    [code |-> late[n].code, done |-> TRUE, epoch |-> late[n].epoch]]
              /\ late' = [late EXCEPT ![n].at = "send"]
    /\ UNCHANGED <<get, gets, lates, textShown, epoch>>

\* Mutant: no notification.
LateSend_silent(n) ==
    /\ late[n].at = "send"
    /\ late' = [late EXCEPT ![n].at = "end"]
    /\ UNCHANGED <<mutex, cache, get, gets, lates, textShown, epoch>>

\* hl.lates <- struct{}{}, which may block.
LateSend(n) ==
    /\ late[n].at = "send" /\ lates < LatesSize
    /\ lates' = lates + 1
    /\ late' = [late EXCEPT ![n].at = "end"]
    /\ UNCHANGED <<mutex, cache, get, gets, textShown, epoch>>

InvalidateCache ==
    /\ mutex = 0 /\ epoch < MaxEpochs /\ gets + epoch < MaxGets
    /\ epoch' = epoch + 1
    /\ cache' = [code |-> Empty, styled |-> [code |-> Empty, done |-> FALSE, epoch |-> epoch']]
    /\ UNCHANGED <<mutex, get, gets, late, lates, textShown>>

\* The editor's relay takes a notification and the redraw calls Get with the same code.
RelayLate ==
    /\ lates > 0 /\ get.at = "idle"
    /\ lates' = lates - 1
    /\ get' = [at |-> "lock", code |-> textShown.code]
    /\ UNCHANGED <<mutex, cache, gets, late, textShown, epoch>>

Get == GetHit \/ GetMiss \/ GetNoCommand \/ GetInTime \/ GetTimeout
Late(n) == CommandsStyled(n) \/ LateReceive(n) \/ LateLock(n) \/ LateCheck(n) \/ LateSend(n)

HighlighterNext ==
    \/ \E c \in AnyCode : GetCall(c)
    \/ Get \/ InvalidateCache \/ RelayLate
    \/ \E n \in Gets : Late(n)

HighlighterSpec == HighlighterInit /\ [][HighlighterNext]_highlighterVars

\* Goroutines make progress and HasCommand returns; sync.Mutex does not starve.  Nobody
\* is obliged to receive from lates.
HighlighterFairSpec ==
    /\ HighlighterSpec
    /\ WF_highlighterVars(GetInTime \/ GetTimeout) /\ SF_highlighterVars(GetHit \/ GetMiss \/ GetNoCommand)
    /\ \A n \in Gets :
        /\ WF_highlighterVars(CommandsStyled(n) \/ LateReceive(n) \/ LateCheck(n) \/ LateSend(n))
        /\ SF_highlighterVars(LateLock(n))

-----------------------------------------------------------------------------
\* What is cached for a code was made from that code, and so is what Get returns: a late
\* result for an earlier state of the buffer never shows through.
TextIsOfTheCode ==
    /\ cache.styled.code = cache.code
    /\ textShown.styled.code = textShown.code

\* A late result is never lost: when nothing is in flight for the text on the screen, the
\* screen is up to date with the cache or a notification is waiting.
LateIsAnnounced ==
    (/\ get.at = "idle" /\ mutex = 0
     /\ textShown.code = cache.code /\ textShown.code # Empty
     /\ \A n \in Gets : late[n].at # "send")
    => (textShown = cache \/ lates > 0)

\* Late results reach the screen, and only where they belong.
LateResultsAreSound == TextIsOfTheCode /\ LateIsAnnounced

\* Get returns even if nobody receives late notifications.
GetBusy == get.at = "highlight" \/ (get.at = "lock" /\ gets + epoch < MaxGets)
=============================================================================
