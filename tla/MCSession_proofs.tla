-------------------------- MODULE MCSession_proofs --------------------------
(***************************************************************************)
(* Theorems about what goes on behind an editing session: the prompt, the  *)
(* highlighter and the command history, each for every value of its        *)
(* constants, and their composition with the calls to the daemon.          *)
(***************************************************************************)
EXTENDS MCSession, Rpc_proofs, WellFoundedInduction, FiniteSetTheorems

-----------------------------------------------------------------------------
(* The prompt.                                                             *)

\* The truth values among the variables of the prompt.
PromptSwitches ==
    /\ updateReq \in BOOLEAN /\ ch \in BOOLEAN
    /\ active \in BOOLEAN /\ relay \in BOOLEAN /\ requested \in BOOLEAN

\* The other variables.
PromptCells ==
    /\ last \in Text /\ promptShown \in Text /\ content \in Contents /\ lastWd \in Contents
    /\ pc \in {"receive", "select", "sendStale", "await", "again", "sendAgain", "requeue", "sendFresh"}
    /\ compute \in {"idle", "running", "ready"} /\ value \in Contents
    /\ compute # "idle" <=> pc \in {"select", "sendStale", "await"}
    /\ wd \in Dirs
    /\ triggers \in 0..MaxTriggers /\ cds \in 0..MaxCd

\* Where a request is until it is served: queued, to be put back, being computed in the
\* directory of now, computed there, or shown.
RequestIsOnItsWay ==
    requested => \/ updateReq
                 \/ pc \in {"sendAgain", "requeue"}
                 \/ compute = "running"
                 \/ compute = "ready" /\ value = wd
                 \/ pc = "again" /\ content = wd
                 \/ pc \in {"sendFresh", "receive"} /\ last = Fresh(wd)

\* Where the news of a change is until the screen shows it: to be sent, in the channel, or
\* with the relay.
NoticeIsOnItsWay ==
    promptShown = last \/ ch \/ relay \/ pc \in {"sendStale", "sendAgain", "sendFresh"}

\* The two contents a prompt has are texts.
LEMMA FreshAndStale ==
    ASSUME NEW c \in Contents
    PROVE  Fresh(c) \in Text /\ StaleTransform(c) \in Text
  BY Zenon DEF Fresh, StaleTransform, Text

\* The variables of the prompt are as declared: for any set of directories, eagerness and
\* number of triggers a computation runs exactly while the loop is in update.
LEMMA PromptTypesAlways == PromptSpec => []PromptTypeOK
<1>1. PromptInit => PromptSwitches
  BY Zenon DEF PromptInit, PromptSwitches
<1>2. PromptInit => PromptCells
  <2>1. Fresh(Unknown) \in Text
    BY FreshAndStale DEF Contents
  <2> QED
    BY <2>1, PromptAssumption DEF PromptInit, PromptCells, Contents
<1>3. PromptSwitches /\ [PromptNext]_promptVars => PromptSwitches'
  <2> SUFFICES ASSUME PromptSwitches, [PromptNext]_promptVars PROVE PromptSwitches'
    OBVIOUS
  <2> USE DEF PromptSwitches, loopVars, env
  <2>1. CASE PromptLoop
    BY <2>1, Zenon DEF PromptLoop, Receive, InTime, Timeout, Await, Again, SendNotice, Requeue
  <2>2. ASSUME NEW force \in BOOLEAN, Trigger(force) PROVE PromptSwitches'
    <3>1. UNCHANGED <<ch, active, relay>>
      BY <2>2, Zenon DEF Trigger
    <3>2. updateReq' \in BOOLEAN /\ requested' \in BOOLEAN
      BY <2>2, Zenon DEF Trigger
    <3> QED
      BY <3>1, <3>2, Zenon
  <2>3. CASE Compute \/ Chdir \/ BeginRead \/ EndRead
    BY <2>3, Zenon DEF Compute, Chdir, BeginRead, EndRead
  <2>4. CASE RelayReceive \/ RelayRedraw
    BY <2>4, Zenon DEF RelayReceive, RelayRedraw
  <2>5. CASE UNCHANGED promptVars
    BY <2>5, Zenon DEF promptVars
  <2> QED
    BY <2>1, <2>2, <2>3, <2>4, <2>5, Zenon DEF PromptNext
<1>4. PromptCells /\ [PromptNext]_promptVars => PromptCells'
  <2> SUFFICES ASSUME PromptCells, [PromptNext]_promptVars PROVE PromptCells'
    OBVIOUS
  <2> USE PromptAssumption DEF PromptCells, loopVars, env
  <2>1. CASE Receive \/ Requeue \/ SendNotice
    BY <2>1 DEF Receive, Requeue, SendNotice
  <2>2. CASE InTime \/ Timeout
    BY <2>2, FreshAndStale DEF InTime, Timeout
  <2>3. CASE Await
    BY <2>3 DEF Await
  <2>4. CASE Again
    BY <2>4, FreshAndStale DEF Again
  <2>5. ASSUME NEW force \in BOOLEAN, Trigger(force) PROVE PromptCells'
    <3>1. /\ UNCHANGED <<last, promptShown, content, pc, compute, value, wd, cds>>
          /\ triggers < MaxTriggers /\ triggers' = triggers + 1
          /\ lastWd' \in {wd, lastWd}
      BY <2>5 DEF Trigger
    <3>2. wd \in Contents
      BY DEF Contents
    <3> QED
      BY <3>1, <3>2
  <2>6. CASE Compute
    BY <2>6 DEF Compute, Contents
  <2>7. CASE Chdir
    BY <2>7 DEF Chdir
  <2>8. CASE BeginRead
    BY <2>8 DEF BeginRead
  <2>9. CASE EndRead
    BY <2>9 DEF EndRead
  <2>10. CASE RelayReceive \/ RelayRedraw
    BY <2>10 DEF RelayReceive, RelayRedraw
  <2>11. CASE UNCHANGED promptVars
    BY <2>11 DEF promptVars
  <2> QED
    BY <2>1, <2>2, <2>3, <2>4, <2>5, <2>6, <2>7, <2>8, <2>9, <2>10, <2>11 DEF PromptNext, PromptLoop
<1>5. PromptSwitches /\ PromptCells => PromptTypeOK
  BY Zenon DEF PromptSwitches, PromptCells, PromptTypeOK
<1> QED
  BY <1>1, <1>2, <1>3, <1>4, <1>5, PTL DEF PromptSpec

\* No request to update the prompt is lost, and no notification: when the loop is idle its
\* prompt is that of the directory of the last request, and when everything is quiet the
\* screen shows it.
THEOREM PromptTheorem == PromptSpec => [](PromptFollowsDirectory /\ ShownIsLast)
<1>1. PromptInit => RequestIsOnItsWay /\ NoticeIsOnItsWay
  BY DEF PromptInit, RequestIsOnItsWay, NoticeIsOnItsWay
<1>2. PromptTypeOK /\ RequestIsOnItsWay /\ [PromptNext]_promptVars => RequestIsOnItsWay'
  <2> SUFFICES ASSUME PromptTypeOK, RequestIsOnItsWay, [PromptNext]_promptVars, requested'
               PROVE  \/ updateReq'
                      \/ pc' \in {"sendAgain", "requeue"}
                      \/ compute' = "running"
                      \/ compute' = "ready" /\ value' = wd'
                      \/ pc' = "again" /\ content' = wd'
                      \/ pc' \in {"sendFresh", "receive"} /\ last' = Fresh(wd')
    BY DEF RequestIsOnItsWay, Fresh
  <2> USE DEF loopVars, env
  <2>0. compute # "idle" <=> pc \in {"select", "sendStale", "await"}
    BY Zenon DEF PromptTypeOK
  <2>1. CASE Receive
    BY <2>1 DEF Receive
  <2>2. CASE InTime
    BY <2>2, <2>0 DEF InTime, RequestIsOnItsWay
  <2>3. CASE Timeout
    BY <2>3, <2>0 DEF Timeout, RequestIsOnItsWay
  <2>4. CASE Await
    BY <2>4, <2>0 DEF Await, RequestIsOnItsWay
  <2>5. CASE Again
    BY <2>5, <2>0 DEF Again, RequestIsOnItsWay
  <2>6. CASE SendNotice
    BY <2>6, <2>0 DEF SendNotice, RequestIsOnItsWay
  <2>7. CASE Requeue
    BY <2>7 DEF Requeue
  <2>8. CASE Compute
    BY <2>8 DEF Compute
  <2>9. ASSUME NEW force \in BOOLEAN, Trigger(force)
        PROVE  RequestIsOnItsWay'
    <3>1. UNCHANGED <<pc, compute, value, content, last, wd>>
      BY <2>9 DEF Trigger
    <3>2. requested' => requested \/ updateReq'
      BY <2>9, Zenon DEF Trigger, PromptTypeOK
    <3>3. updateReq => updateReq'
      BY <2>9, Zenon DEF Trigger, PromptTypeOK
    <3> QED
      BY <3>1, <3>2, <3>3 DEF RequestIsOnItsWay
  <2>10. CASE BeginRead
    BY <2>10 DEF BeginRead
  <2>11. CASE Chdir
    BY <2>11 DEF Chdir
  <2>12. CASE EndRead \/ RelayReceive \/ RelayRedraw \/ UNCHANGED promptVars
    BY <2>12 DEF EndRead, RelayReceive, RelayRedraw, promptVars, RequestIsOnItsWay
  <2> QED
    BY <2>1, <2>2, <2>3, <2>4, <2>5, <2>6, <2>7, <2>8, <2>9, <2>10, <2>11, <2>12
       DEF PromptNext, PromptLoop, RequestIsOnItsWay, Fresh
<1>3. PromptTypeOK /\ NoticeIsOnItsWay /\ [PromptNext]_promptVars => NoticeIsOnItsWay'
  <2> SUFFICES ASSUME PromptTypeOK, NoticeIsOnItsWay, [PromptNext]_promptVars PROVE NoticeIsOnItsWay'
    OBVIOUS
  <2> USE DEF NoticeIsOnItsWay, loopVars, env
  <2>1. CASE PromptLoop
    BY <2>1 DEF PromptLoop, Receive, InTime, Timeout, Await, Again, SendNotice, Requeue
  <2>2. CASE Compute \/ Chdir \/ BeginRead \/ EndRead
    BY <2>2 DEF Compute, Chdir, BeginRead, EndRead
  <2>3. ASSUME NEW force \in BOOLEAN, Trigger(force) PROVE NoticeIsOnItsWay'
    BY <2>3 DEF Trigger
  <2>4. CASE RelayReceive \/ RelayRedraw
    BY <2>4 DEF RelayReceive, RelayRedraw
  <2>5. CASE UNCHANGED promptVars
    BY <2>5 DEF promptVars
  <2> QED
    BY <2>1, <2>2, <2>3, <2>4, <2>5 DEF PromptNext
<1>4. PromptTypeOK /\ RequestIsOnItsWay /\ NoticeIsOnItsWay => PromptFollowsDirectory /\ ShownIsLast
  <2> SUFFICES ASSUME PromptTypeOK, RequestIsOnItsWay, NoticeIsOnItsWay
               PROVE  PromptFollowsDirectory /\ ShownIsLast
    OBVIOUS
  <2>0. compute # "idle" <=> pc \in {"select", "sendStale", "await"}
    BY Zenon DEF PromptTypeOK
  <2> QED
    BY <2>0 DEF RequestIsOnItsWay, NoticeIsOnItsWay, PromptFollowsDirectory, ShownIsLast
<1> QED
  BY <1>1, <1>2, <1>3, <1>4, PromptTypesAlways, PTL DEF PromptSpec

-----------------------------------------------------------------------------
(* The highlighter.                                                        *)

\* Inside of highlight the call of Get has a number, and so a goroutine of its own.
HighlightHasGoroutine == get.at = "highlight" => gets \in Gets

\* The goroutines that deliver late results.
LateRoutines == [at : {"none", "command", "select", "lock", "check", "send", "end"}, code : AnyCode, epoch : Nat]

\* Where a late result is, if the text on the screen is another one for the code of the
\* cache: being sent, in the channel, or about to be shown by a call of Get.
LateIsOnItsWay ==
    textShown.code = cache.code =>
        textShown = cache \/ cache.code = Empty \/ lates > 0 \/ get.at # "idle" \/ \E n \in Gets : late[n].at = "send"

\* A text made from a code is a styled text.
LEMMA StyledText ==
    ASSUME NEW c \in AnyCode, NEW d \in BOOLEAN, NEW e \in Nat
    PROVE  [code |-> c, done |-> d, epoch |-> e] \in Styled
  BY DEF Styled

\* The variables of the highlighter are as declared, and Get waits only for a goroutine
\* that it has started, for any number of calls and codes.
LEMMA HighlighterTypesAlways == HighlighterSpec => [](HighlighterTypeOK /\ HighlightHasGoroutine)
<1> DEFINE Inv == HighlighterTypeOK /\ HighlightHasGoroutine
<1> USE HighlighterAssumption
<1>1. HighlighterInit => Inv
  <2> SUFFICES ASSUME HighlighterInit PROVE Inv
    OBVIOUS
  <2>1. Plain(Empty) \in Styled
    BY StyledText DEF HighlighterInit, Plain, AnyCode
  <2> QED
    BY <2>1 DEF HighlighterInit, HighlighterTypeOK, HighlightHasGoroutine, NoGet, AnyCode, Gets
<1>2. Inv /\ [HighlighterNext]_highlighterVars => Inv'
  <2> SUFFICES ASSUME Inv, [HighlighterNext]_highlighterVars PROVE Inv'
    OBVIOUS
  <2> USE DEF HighlighterTypeOK, HighlightHasGoroutine, Gets
  <2>0. epoch \in Nat /\ gets \in Nat /\ Empty \in AnyCode /\ get.code \in AnyCode
    BY DEF AnyCode
  <2>a. late \in [Gets -> LateRoutines]
    BY DEF LateRoutines
  <2>b. \A r \in LateRoutines, a \in {"lock", "check", "send", "end", "command", "select"} : [r EXCEPT !.at = a] \in LateRoutines
    BY DEF LateRoutines
  <2>c. ASSUME NEW n \in Gets, NEW a \in {"lock", "check", "send", "end", "command", "select"}
        PROVE  [late EXCEPT ![n].at = a] \in [Gets -> LateRoutines]
    BY <2>a, <2>b
  <2>d. \A f : f \in [Gets -> LateRoutines] => f \in [Gets -> [at : {"none", "command", "select", "lock", "check", "send", "end"},
                                                             code : AnyCode, epoch : Nat]]
    BY DEF LateRoutines
  <2>1. ASSUME NEW c \in AnyCode, GetCall(c) PROVE Inv'
    BY <2>1 DEF GetCall
  <2>2. CASE GetHit
    BY <2>2, <2>0 DEF GetHit, NoGet
  <2>3. CASE GetMiss
    <3>1. gets + 1 \in Gets /\ gets' = gets + 1 /\ mutex' = -1
      BY <2>3, <2>0 DEF GetMiss
    <3>2. late' \in [Gets -> LateRoutines]
      <4>1. [at |-> "command", code |-> get.code, epoch |-> epoch] \in LateRoutines
        BY <2>0 DEF LateRoutines
      <4> QED
        BY <2>3, <2>a, <4>1 DEF GetMiss
    <3>3. get' \in [at : {"idle", "lock", "highlight"}, code : AnyCode]
      BY <2>3 DEF GetMiss
    <3> QED
      BY <2>3, <2>d, <3>1, <3>2, <3>3 DEF GetMiss
  <2>4. ASSUME NEW s \in Styled, Fill(s) PROVE /\ cache' \in [code : AnyCode, styled : Styled]
                                              /\ textShown' \in [code : AnyCode, styled : Styled]
                                              /\ mutex' = 0 /\ get' = NoGet
    BY <2>4, <2>0 DEF Fill
  <2>5. NoGet \in [at : {"idle", "lock", "highlight"}, code : AnyCode] /\ NoGet.at = "idle"
    BY <2>0 DEF NoGet
  <2>6. CASE GetNoCommand
    <3>1. [code |-> Empty, done |-> TRUE, epoch |-> epoch] \in Styled
      BY <2>0, StyledText
    <3>2. Fill([code |-> Empty, done |-> TRUE, epoch |-> epoch]) /\ UNCHANGED <<gets, late, lates, epoch>>
      BY <2>6 DEF GetNoCommand
    <3>3. /\ cache' \in [code : AnyCode, styled : Styled]
          /\ textShown' \in [code : AnyCode, styled : Styled]
          /\ mutex' = 0 /\ get' = NoGet
      BY <2>4, <3>1, <3>2
    <3> QED
      BY <2>5, <3>2, <3>3
  <2>7. CASE GetInTime
    <3>1. gets \in Gets /\ late[gets].epoch \in Nat
      BY <2>7 DEF GetInTime
    <3>2. [code |-> get.code, done |-> TRUE, epoch |-> late[gets].epoch] \in Styled
      BY <2>0, <3>1, StyledText
    <3>3. late' \in [Gets -> LateRoutines]
      BY <2>7, <2>c, <3>1 DEF GetInTime
    <3>4. /\ Fill([code |-> get.code, done |-> TRUE, epoch |-> late[gets].epoch])
          /\ UNCHANGED <<gets, lates, epoch>>
      BY <2>7 DEF GetInTime
    <3>5. /\ cache' \in [code : AnyCode, styled : Styled]
          /\ textShown' \in [code : AnyCode, styled : Styled]
          /\ mutex' = 0 /\ get' = NoGet
      BY <2>4, <3>2, <3>4
    <3>6. get' \in [at : {"idle", "lock", "highlight"}, code : AnyCode] /\ get'.at = "idle"
      BY <2>5, <3>5
    <3>7. late' \in [Gets -> [at : {"none", "command", "select", "lock", "check", "send", "end"},
                              code : AnyCode, epoch : Nat]]
      BY <2>d, <3>3
    <3> QED
      BY <3>4, <3>5, <3>6, <3>7
  <2>8. CASE GetTimeout
    <3>1. Plain(get.code) \in Styled
      BY <2>0, StyledText DEF Plain
    <3>2. late' \in [Gets -> LateRoutines]
      <4>1. late' = [late EXCEPT ![gets].at = IF late[gets].at = "select" THEN "lock" ELSE "command"]
        BY <2>8 DEF GetTimeout
      <4>2. gets \in Gets
        BY <2>8 DEF GetTimeout
      <4> QED
        BY <2>c, <4>1, <4>2
    <3>3. Fill(Plain(get.code)) /\ UNCHANGED <<gets, lates, epoch>>
      BY <2>8 DEF GetTimeout
    <3>4. /\ cache' \in [code : AnyCode, styled : Styled]
          /\ textShown' \in [code : AnyCode, styled : Styled]
          /\ mutex' = 0 /\ get' = NoGet
      BY <2>4, <3>1, <3>3
    <3>5. get' \in [at : {"idle", "lock", "highlight"}, code : AnyCode] /\ get'.at = "idle"
      BY <2>5, <3>4
    <3>6. late' \in [Gets -> [at : {"none", "command", "select", "lock", "check", "send", "end"},
                              code : AnyCode, epoch : Nat]]
      BY <2>d, <3>2
    <3> QED
      BY <3>3, <3>4, <3>5, <3>6
  <2>9. ASSUME NEW n \in Gets, CommandsStyled(n) \/ LateReceive(n) \/ LateLock(n) PROVE Inv'
    <3>1. late' \in [Gets -> LateRoutines]
      <4>1. CASE CommandsStyled(n)
        <5>1. \A r \in LateRoutines : [r EXCEPT !.at = "select", !.epoch = epoch] \in LateRoutines
          BY <2>0 DEF LateRoutines
        <5>2. late' = [late EXCEPT ![n] = [late[n] EXCEPT !.at = "select", !.epoch = epoch]]
          BY <4>1 DEF CommandsStyled
        <5> QED
          BY <2>a, <5>1, <5>2
      <4>2. CASE LateReceive(n) \/ LateLock(n)
        BY <4>2, <2>c, ZenonT(40) DEF LateReceive, LateLock
      <4> QED
        BY <2>9, <4>1, <4>2
    <3>2. UNCHANGED <<cache, get, gets, lates, textShown, epoch>> /\ mutex' \in {mutex, n}
      BY <2>9 DEF CommandsStyled, LateReceive, LateLock
    <3> QED
      BY <2>d, <3>1, <3>2
  <2>10. ASSUME NEW n \in Gets, LateCheck(n) PROVE Inv'
    <3>1. [code |-> late[n].code, done |-> TRUE, epoch |-> late[n].epoch] \in Styled
      BY StyledText
    <3>2. cache' \in [code : AnyCode, styled : Styled]
      BY <2>10, <3>1 DEF LateCheck
    <3>3. late' \in [Gets -> LateRoutines]
      BY <2>10, <2>c DEF LateCheck
    <3> QED
      BY <2>10, <2>d, <3>2, <3>3 DEF LateCheck
  <2>11. ASSUME NEW n \in Gets, LateSend(n) PROVE Inv'
    <3>1. late' \in [Gets -> LateRoutines]
      BY <2>11, <2>c DEF LateSend
    <3>2. UNCHANGED <<mutex, cache, get, gets, textShown, epoch>> /\ lates' \in 0..LatesSize
      BY <2>11 DEF LateSend
    <3> QED
      BY <2>d, <3>1, <3>2
  <2>12. CASE InvalidateCache
    <3>1. epoch' \in 0..MaxEpochs /\ epoch' \in Nat
      BY <2>12 DEF InvalidateCache
    <3>2. [code |-> Empty, done |-> FALSE, epoch |-> epoch'] \in Styled
      BY <2>0, <3>1, StyledText
    <3> QED
      BY <2>12, <2>0, <3>1, <3>2 DEF InvalidateCache
  <2>13. CASE RelayLate
    BY <2>13 DEF RelayLate
  <2>14. CASE UNCHANGED highlighterVars
    BY <2>14 DEF highlighterVars
  <2> QED
    BY <2>1, <2>2, <2>3, <2>6, <2>7, <2>8, <2>9, <2>10, <2>11, <2>12, <2>13, <2>14
       DEF HighlighterNext, Get, Late
<1> QED
  BY <1>1, <1>2, PTL DEF HighlighterSpec

\* Late results reach the screen, and only where they belong, for any number of calls of Get
\* and InvalidateCache and any capacity of lates.
THEOREM HighlighterTheorem == HighlighterSpec => []LateResultsAreSound
<1> USE HighlighterAssumption
<1>1. HighlighterInit => TextIsOfTheCode /\ LateIsOnItsWay
  BY DEF HighlighterInit, TextIsOfTheCode, LateIsOnItsWay, Plain
<1>2. HighlighterTypeOK /\ HighlightHasGoroutine /\ TextIsOfTheCode /\ [HighlighterNext]_highlighterVars
      => TextIsOfTheCode'
  <2> SUFFICES ASSUME HighlighterTypeOK, HighlightHasGoroutine, TextIsOfTheCode, [HighlighterNext]_highlighterVars
               PROVE  TextIsOfTheCode'
    OBVIOUS
  <2> USE DEF TextIsOfTheCode
  <2>1. CASE UNCHANGED <<cache, textShown>>
    BY <2>1
  <2>2. CASE Get
    BY <2>2 DEF Get, GetHit, GetMiss, GetNoCommand, GetInTime, GetTimeout, Fill, Plain
  <2>3. ASSUME NEW n \in Gets, Late(n) PROVE TextIsOfTheCode'
    BY <2>3 DEF Late, CommandsStyled, LateReceive, LateLock, LateCheck, LateSend, HighlighterTypeOK
  <2>4. CASE InvalidateCache
    BY <2>4 DEF InvalidateCache
  <2> QED
    BY <2>1, <2>2, <2>3, <2>4 DEF HighlighterNext, GetCall, RelayLate, highlighterVars
<1>3. HighlighterTypeOK /\ HighlightHasGoroutine /\ LateIsOnItsWay /\ [HighlighterNext]_highlighterVars
      => LateIsOnItsWay'
  <2> SUFFICES ASSUME HighlighterTypeOK, HighlightHasGoroutine, LateIsOnItsWay, [HighlighterNext]_highlighterVars
               PROVE  LateIsOnItsWay'
    OBVIOUS
  <2> USE DEF LateIsOnItsWay
  <2>1. CASE (\E c \in AnyCode : GetCall(c)) \/ RelayLate
    BY <2>1 DEF GetCall, RelayLate
  <2>2. CASE Get
    <3>1. CASE GetMiss
      BY <3>1 DEF GetMiss, HighlighterTypeOK
    <3>2. CASE ~GetMiss
      BY <2>2, <3>2 DEF Get, GetHit, GetNoCommand, GetInTime, GetTimeout, Fill
    <3> QED
      BY <3>1, <3>2
  <2>3. ASSUME NEW n \in Gets, CommandsStyled(n) \/ LateReceive(n) \/ LateLock(n) PROVE LateIsOnItsWay'
    <3>1. /\ UNCHANGED <<cache, textShown, lates, get>>
          /\ \A m \in Gets : late[m].at = "send" => late'[m].at = "send"
      BY <2>3 DEF CommandsStyled, LateReceive, LateLock, HighlighterTypeOK
    <3> QED
      BY <3>1
  <2>4. ASSUME NEW n \in Gets, LateCheck(n) PROVE LateIsOnItsWay'
    <3>1. CASE cache.code # late[n].code
      <4>1. /\ UNCHANGED <<cache, textShown, lates, get>>
            /\ \A m \in Gets : late[m].at = "send" => late'[m].at = "send"
        BY <2>4, <3>1 DEF LateCheck, HighlighterTypeOK
      <4> QED
        BY <4>1
    <3>2. CASE cache.code = late[n].code
      <4>1. late'[n].at = "send"
        BY <2>4, <3>2 DEF LateCheck, HighlighterTypeOK
      <4> QED
        BY <4>1
    <3> QED
      BY <3>1, <3>2
  <2>5. ASSUME NEW n \in Gets, LateSend(n) PROVE LateIsOnItsWay'
    <3>1. lates' > 0
      BY <2>5 DEF LateSend, HighlighterTypeOK
    <3> QED
      BY <3>1
  <2>6. CASE InvalidateCache
    <3>1. cache'.code = Empty
      BY <2>6 DEF InvalidateCache
    <3> QED
      BY <3>1
  <2>7. CASE UNCHANGED highlighterVars
    BY <2>7 DEF highlighterVars
  <2> QED
    BY <2>1, <2>2, <2>3, <2>4, <2>5, <2>6, <2>7 DEF HighlighterNext, Late
<1>4. TextIsOfTheCode /\ LateIsOnItsWay => LateResultsAreSound
  BY DEF LateIsOnItsWay, LateResultsAreSound, LateIsAnnounced
<1> QED
  BY <1>1, <1>2, <1>3, <1>4, HighlighterTypesAlways, PTL DEF HighlighterSpec

-----------------------------------------------------------------------------
(* The command history.                                                    *)

\* A non-empty set of natural numbers has a least element, which is what Min chooses.
LEMMA MinOfNats ==
    ASSUME NEW S \in SUBSET Nat, S # {}
    PROVE  Min(S) \in S /\ \A y \in S : Min(S) <= y
<1>1. \E x \in S : \A y \in S : ~(<<y, x>> \in OpToRel(<, Nat))
  BY WFMin, NatLessThanWellFounded
<1>2. PICK x \in S : \A y \in S : ~(<<y, x>> \in OpToRel(<, Nat))
  BY <1>1
<1>3. ASSUME NEW y \in S PROVE x <= y
  <2>1. y \in Nat /\ x \in Nat
    OBVIOUS
  <2>2. y < x => <<y, x>> \in OpToRel(<, Nat)
    <3>1. <<y, x>> \in Nat \X Nat /\ <<y, x>>[1] = y /\ <<y, x>>[2] = x
      BY <2>1
    <3> QED
      BY <3>1, Zenon DEF OpToRel
  <2>3. ~(y < x)
    BY <1>2, <2>2
  <2> QED
    BY <2>1, <2>3
<1> QED
  BY <1>3 DEF Min

\* And one that is bounded has a greatest, which is what Max chooses.
LEMMA MaxOfNats ==
    ASSUME NEW b \in Nat, NEW S \in SUBSET (0..b), S # {}
    PROVE  Max(S) \in S /\ \A y \in S : Max(S) >= y
<1> DEFINE T == {b - y : y \in S}
<1>1. T \in SUBSET Nat /\ T # {}
  <2>1. \A y \in S : b - y \in Nat
    OBVIOUS
  <2>2. T \in SUBSET Nat
    BY <2>1
  <2>3. PICK y \in S : TRUE
    OBVIOUS
  <2>4. b - y \in T
    BY <2>3, Zenon
  <2> QED
    BY <2>2, <2>4
<1>2. Min(T) \in T /\ \A y \in T : Min(T) <= y
  BY <1>1, MinOfNats
<1>3. PICK x \in S : Min(T) = b - x
  BY <1>2
<1>4. \A y \in S : x >= y
  BY <1>2, <1>3
<1> QED
  BY <1>4 DEF Max

\* What makes a cursor usable: its two positions are within its two stores, and the command
\* it has found in the database, if it has found one, is a command.
CursorOK(c) ==
    /\ c \in Cursors
    /\ c.index <= Len(c.cmds) + 1 /\ Len(c.cmds) <= MaxSession
    /\ c.seq <= c.upper
    /\ c.err = "nil" => c.text \in Texts

\* The type of the history, with what keeps its bounds.
HistOK == TypeOK /\ CursorOK(cursor) /\ Len(session) <= MaxSession

\* A cursor that has found a command is at that command.
LEMMA FoundOK ==
    ASSUME NEW c, CursorOK(c), NEW q \in 0..MaxSeq + 1, q <= c.upper, cmds[q] \in Texts
    PROVE  CursorOK(Found(c, q))
<1> DEFINE d == [c EXCEPT !.seq = q, !.text = cmds[q], !.err = "nil"]
<1>a. q \in -1..MaxSeq + 1 /\ cmds[q] \in Texts \cup {NoText}
  <2>1. MaxSeq \in Nat
    BY HistAssumption
  <2>2. q \in -1..MaxSeq + 1
    BY <2>1
  <2> QED
    BY <2>2, Zenon
<1>b. c \in Cursors
  BY DEF CursorOK
<1>1. d \in Cursors
  BY ONLY <1>a, <1>b DEF Cursors
<1>2. d.index = c.index /\ d.cmds = c.cmds /\ d.seq = q /\ d.upper = c.upper /\ d.text = cmds[q]
  BY DEF CursorOK, Cursors
<1> QED
  BY <1>1, <1>2 DEF CursorOK, Found

\* One that has found none is at an end of its view.
LEMMA NotFoundOK ==
    ASSUME NEW c, CursorOK(c), NEW q \in -1..MaxSeq + 1, q <= c.upper
    PROVE  CursorOK(NotFound(c, q))
  BY HistAssumption DEF CursorOK, Cursors, NotFound

\* A call that failed leaves the cursor where it was.
LEMMA FailedOK ==
    ASSUME NEW c, CursorOK(c)
    PROVE  CursorOK([c EXCEPT !.err = "db"])
  BY HistAssumption DEF CursorOK, Cursors

\* The memory cursor moves within the session's own commands and one past either end.
LEMMA MovedOK ==
    ASSUME NEW c, CursorOK(c), NEW i \in 0..Len(c.cmds) + 1
    PROVE  CursorOK([c EXCEPT !.index = i])
<1> DEFINE d == [c EXCEPT !.index = i]
<1>a. c.cmds \in Seq(Texts) /\ Len(c.cmds) <= MaxSession
  BY DEF CursorOK, Cursors
<1>1. Len(c.cmds) \in Nat /\ i \in 0..MaxSession + 1
  BY <1>a, HistAssumption
<1>2. d \in Cursors
  BY <1>1 DEF CursorOK, Cursors
<1>3. d.index = i /\ d.cmds = c.cmds /\ d.seq = c.seq /\ d.upper = c.upper /\ d.text = c.text /\ d.err = c.err
  BY DEF CursorOK, Cursors
<1> QED
  BY <1>1, <1>2, <1>3 DEF CursorOK

\* A cursor may turn from one store to the other.
LEMMA SwitchedOK ==
    ASSUME NEW c, CursorOK(c), NEW b \in BOOLEAN
    PROVE  CursorOK([c EXCEPT !.useShared = b])
  BY HistAssumption DEF CursorOK, Cursors

\* The database cursor stays a cursor, whether the call finds a command, finds none or fails.
LEMMA DbStepsOK ==
    ASSUME TypeOK, NEW c, CursorOK(c), NEW fails \in BOOLEAN
    PROVE  CursorOK(DbPrev(c, fails)) /\ CursorOK(DbNext(c, fails))
<1>1. /\ c.seq \in -1..MaxSeq + 1 /\ c.upper \in 1..MaxSeq + 1 /\ c.seq <= c.upper
      /\ MaxSeq \in Nat
  BY HistAssumption DEF CursorOK, Cursors
<1>2. Matching(c) \in SUBSET (0..MaxSeq) /\ \A q \in Matching(c) : cmds[q] \in Texts
  <2>1. sequence \in 0..MaxSeq /\ DOMAIN cmds \subseteq 1..sequence /\ \A q \in DOMAIN cmds : cmds[q] \in Texts
    BY DEF TypeOK
  <2>2. 1..sequence \subseteq 0..MaxSeq
    BY <2>1, <1>1
  <2> QED
    BY <2>1, <2>2, Zenon DEF Matching
<1>3. CursorOK(DbPrev(c, fails))
  <2> DEFINE S == {q \in Matching(c) : q < c.seq}
  <2>1. CASE c.seq < 0
    BY <2>1 DEF DbPrev
  <2>2. CASE c.seq >= 0 /\ fails
    BY <2>2, <1>1, FailedOK DEF DbPrev
  <2>3. CASE c.seq >= 0 /\ ~fails /\ S = {}
    <3>1. CursorOK(NotFound(c, -1))
      BY <1>1, NotFoundOK
    <3> QED
      BY <2>3, <1>1, <3>1 DEF DbPrev
  <2>4. CASE c.seq >= 0 /\ ~fails /\ S # {}
    <3>1. S \in SUBSET (0..MaxSeq)
      BY <1>2
    <3> HIDE DEF S
    <3>2. Max(S) \in S
      BY <3>1, <2>4, <1>1, MaxOfNats
    <3>3. Max(S) \in Matching(c) /\ Max(S) < c.seq
      BY <3>2 DEF S
    <3>4. Max(S) \in 0..MaxSeq + 1 /\ Max(S) <= c.upper /\ cmds[Max(S)] \in Texts
      BY <3>3, <1>1, <1>2
    <3>5. CursorOK(Found(c, Max(S)))
      BY <3>4, FoundOK
    <3> QED
      BY <2>4, <1>1, <3>5 DEF DbPrev, S
  <2> QED
    BY <1>1, <2>1, <2>2, <2>3, <2>4
<1>4. CursorOK(DbNext(c, fails))
  <2> DEFINE S == {q \in Matching(c) : q > c.seq}
  <2>1. CASE c.seq >= c.upper
    BY <2>1 DEF DbNext
  <2>2. CASE c.seq < c.upper /\ fails
    BY <2>2, <1>1, FailedOK DEF DbNext
  <2>3. CASE c.seq < c.upper /\ ~fails /\ (S = {} \/ Min(S) >= c.upper)
    <3>1. CursorOK(NotFound(c, c.upper))
      BY <1>1, NotFoundOK
    <3> QED
      BY <2>3, <1>1, <3>1 DEF DbNext
  <2>4. CASE c.seq < c.upper /\ ~fails /\ S # {} /\ ~(Min(S) >= c.upper)
    <3>1. S \in SUBSET (0..MaxSeq)
      BY <1>2
    <3> HIDE DEF S
    <3>2. Min(S) \in S
      BY <3>1, <2>4, MinOfNats
    <3>3. Min(S) \in Matching(c)
      BY <3>2 DEF S
    <3>4. Min(S) \in 0..MaxSeq + 1 /\ Min(S) <= c.upper /\ cmds[Min(S)] \in Texts
      BY <3>3, <1>1, <1>2, <2>4
    <3>5. CursorOK(Found(c, Min(S)))
      BY <3>4, FoundOK
    <3> QED
      BY <2>4, <1>1, <3>5 DEF DbNext, S
  <2> QED
    BY <1>1, <2>1, <2>2, <2>3, <2>4
<1> QED
  BY <1>3, <1>4

\* So does the memory cursor: over the edge it goes by one.
LEMMA MemStepsOK ==
    ASSUME NEW c, CursorOK(c)
    PROVE  MemPrev(c) \in 0..Len(c.cmds) + 1 /\ MemNext(c) \in 0..Len(c.cmds) + 1
<1>1. c.cmds \in Seq(Texts)
  BY DEF CursorOK, Cursors
<1>2. Len(c.cmds) \in Nat
  BY <1>1
<1> DEFINE P == {0} \cup {i \in 1..Len(c.cmds) : i < c.index /\ c.cmds[i] \in c.prefix}
           N == {Len(c.cmds) + 1} \cup {i \in 1..Len(c.cmds) : i > c.index /\ c.cmds[i] \in c.prefix}
<1>3. P \in SUBSET (0..Len(c.cmds)) /\ P # {} /\ N \in SUBSET (0..Len(c.cmds) + 1) /\ N # {} /\ N \in SUBSET Nat
  BY <1>2
<1>4. MemPrev(c) = Max(P) /\ MemNext(c) = Min(N)
  BY DEF MemPrev, MemNext
<1> HIDE DEF P, N
<1>5. Max(P) \in P /\ Min(N) \in N
  BY <1>2, <1>3, MaxOfNats, MinOfNats
<1>6. Max(P) \in 0..Len(c.cmds) /\ Min(N) \in 0..Len(c.cmds) + 1
  BY <1>3, <1>5, Zenon
<1>7. Max(P) \in 0..Len(c.cmds) + 1
  BY <1>2, <1>6
<1> QED
  BY <1>4, <1>6, <1>7, Zenon

\* And so does the cursor over both.
LEMMA HybridStepsOK ==
    ASSUME TypeOK, NEW c, CursorOK(c), NEW fails \in BOOLEAN
    PROVE  CursorOK(HybridPrev(c, fails)) /\ CursorOK(HybridNext(c, fails))
<1>1. CursorOK(HybridPrev(c, fails))
  <2> DEFINE m == [c EXCEPT !.index = MemPrev(c)]
             s == [m EXCEPT !.useShared = TRUE]
  <2>1. CursorOK(m)
    BY MemStepsOK, MovedOK
  <2> HIDE DEF m
  <2>2. CursorOK(s)
    BY <2>1, SwitchedOK
  <2> HIDE DEF s
  <2>3. CursorOK(DbPrev(s, fails)) /\ CursorOK(DbPrev(c, fails))
    BY <2>2, DbStepsOK
  <2> QED
    BY <2>1, <2>3 DEF HybridPrev, s, m
<1>2. CursorOK(HybridNext(c, fails))
  <2> DEFINE d == DbNext(c, fails)
             m == [d EXCEPT !.useShared = FALSE]
             n == [d EXCEPT !.useShared = FALSE, !.index = MemNext(d)]
  <2>1. CursorOK(d)
    BY DbStepsOK
  <2>2. CursorOK([c EXCEPT !.index = MemNext(c)])
    BY MemStepsOK, MovedOK
  <2> HIDE DEF d
  <2>3. CursorOK(m)
    BY <2>1, SwitchedOK
  <2>4. m.cmds = d.cmds /\ MemNext(d) \in 0..Len(d.cmds) + 1
    BY <2>1, MemStepsOK DEF CursorOK, Cursors
  <2>5. n = [m EXCEPT !.index = MemNext(d)]
    BY <2>1 DEF CursorOK, Cursors
  <2> HIDE DEF m
  <2>6. CursorOK([m EXCEPT !.index = MemNext(d)])
    BY <2>3, <2>4, MovedOK
  <2> QED
    BY <2>1, <2>2, <2>5, <2>6 DEF HybridNext, d
<1> QED
  BY <1>1, <1>2

\* The session has put its own commands where the cursor finds them.
LEMMA NewCursorOK ==
    ASSUME HistOK, NEW p \in Searches
    PROVE  CursorOK(NewCursor(p))
<1> DEFINE c == NewCursor(p)
<1>1. /\ session \in Seq(Texts) /\ Len(session) \in Nat /\ Len(session) <= MaxSession
      /\ sequence \in 0..MaxSeq /\ upper \in 1..sequence + 1 /\ shared \in BOOLEAN
  BY DEF HistOK, TypeOK
<1>2. upper \in 1..MaxSeq + 1 /\ upper \in -1..MaxSeq + 1 /\ Len(session) + 1 \in 0..MaxSession + 1
  BY <1>1, HistAssumption
<1>3. c \in Cursors
  BY <1>1, <1>2 DEF NewCursor, Cursors
<1>4. c.index = Len(session) + 1 /\ c.cmds = session /\ c.seq = upper /\ c.upper = upper /\ c.err = "end"
  BY DEF NewCursor
<1> QED
  BY <1>1, <1>2, <1>3, <1>4 DEF CursorOK

\* Changes of the store, by this session and by others, keep it a store.
LEMMA StoreStepOK ==
    ASSUME HistOK, StoreStep
    PROVE  HistOK'
<1> USE HistAssumption
<1>1. /\ sequence \in 0..MaxSeq /\ DOMAIN cmds \subseteq 1..sequence /\ \A q \in DOMAIN cmds : cmds[q] \in Texts
      /\ shared \in BOOLEAN /\ upper \in 1..sequence + 1
      /\ session \in Seq(Texts) /\ Len(session) <= MaxSession
      /\ faults \in 0..MaxFaults
  BY DEF HistOK, TypeOK
<1>2. cursor' = cursor
  BY DEF StoreStep, AddOther, AddOwn, Delete, FastForward
<1>3. CursorOK(cursor)'
  BY <1>2 DEF HistOK, CursorOK
<1>4. ASSUME NEW t \in Texts, Put(t)
      PROVE  /\ sequence' \in 0..MaxSeq /\ DOMAIN cmds' \subseteq 1..sequence' /\ \A q \in DOMAIN cmds' : cmds'[q] \in Texts
             /\ upper \in 1..sequence' + 1
  <2>1. sequence' = sequence + 1 /\ sequence < MaxSeq
    BY <1>4 DEF Put
  <2>2. cmds' = [q \in DOMAIN cmds \cup {sequence + 1} |-> IF q = sequence + 1 THEN t ELSE cmds[q]]
    BY <1>4 DEF Put
  <2>3. DOMAIN cmds' = DOMAIN cmds \cup {sequence + 1}
    BY <2>2
  <2>4. 1..sequence \subseteq 1..sequence' /\ sequence + 1 \in 1..sequence'
    BY <1>1, <2>1
  <2>5. \A q \in DOMAIN cmds' : cmds'[q] \in Texts
    BY <1>1, <2>2, <2>3, Zenon
  <2> QED
    BY <1>1, <2>1, <2>3, <2>4, <2>5
<1>5. CASE \E t \in Texts : AddOther(t)
  <2>1. PICK t \in Texts : Put(t) /\ UNCHANGED <<shared, upper, session, faults>>
    BY <1>5 DEF AddOther, storeVars
  <2> QED
    BY <1>1, <1>2, <1>3, <1>4, <2>1 DEF HistOK, TypeOK, CursorOK
<1>6. CASE \E t \in Texts : AddOwn(t)
  <2>1. PICK t \in Texts : AddOwn(t)
    BY <1>6
  <2>2. session' = Append(session, t) /\ Len(session) < MaxSession /\ UNCHANGED <<shared, upper>>
    BY <2>1 DEF AddOwn
  <2>3. session' \in Seq(Texts) /\ Len(session') <= MaxSession
    BY <1>1, <2>2
  <2>4. faults' \in 0..MaxFaults
    BY <1>1, <2>1 DEF AddOwn
  <2>5. /\ sequence' \in 0..MaxSeq /\ DOMAIN cmds' \subseteq 1..sequence' /\ \A q \in DOMAIN cmds' : cmds'[q] \in Texts
        /\ upper \in 1..sequence' + 1
    BY <1>1, <1>4, <2>1 DEF AddOwn, dbVars
  <2> QED
    BY <1>1, <1>3, <2>2, <2>3, <2>4, <2>5 DEF HistOK, TypeOK, CursorOK
<1>7. CASE \E q \in 1..MaxSeq : Delete(q)
  <2>1. PICK q \in 1..MaxSeq : Delete(q)
    BY <1>7
  <2>2. /\ cmds' = [r \in DOMAIN cmds \ {q} |-> cmds[r]]
        /\ UNCHANGED <<sequence, shared, upper, session, faults>>
    BY <2>1 DEF Delete, storeVars
  <2>3. DOMAIN cmds' \subseteq 1..sequence' /\ \A r \in DOMAIN cmds' : cmds'[r] \in Texts
    BY <1>1, <2>2
  <2> QED
    BY <1>1, <1>3, <2>2, <2>3 DEF HistOK, TypeOK, CursorOK
<1>8. CASE FastForward
  <2>1. session' = <<>> /\ UNCHANGED <<sequence, cmds>>
    BY <1>8 DEF FastForward, dbVars
  <2>2. shared' \in BOOLEAN
    BY <1>8, Zenon DEF FastForward
  <2>3. upper' \in 1..sequence' + 1 /\ faults' \in 0..MaxFaults
    BY <1>1, <1>8, <2>1 DEF FastForward
  <2>4. session' \in Seq(Texts) /\ Len(session') <= MaxSession
    BY <2>1
  <2> QED
    BY <1>1, <1>3, <2>1, <2>2, <2>3, <2>4 DEF HistOK, TypeOK, CursorOK
<1> QED
  BY <1>5, <1>6, <1>7, <1>8 DEF StoreStep

\* Opening a cursor and moving it keep it a cursor.
LEMMA CursorStepOK ==
    ASSUME HistOK,
           \/ \E p \in Searches : Open(p)
           \/ \E fails \in BOOLEAN : Prev(fails) \/ Next(fails)
    PROVE  HistOK'
<1>1. UNCHANGED <<sequence, cmds, shared, upper, session>>
  BY DEF Open, Prev, Next, dbVars, storeVars
<1>2. CursorOK(cursor')
  <2>1. \A p \in Searches : CursorOK(NewCursor(p))
    BY NewCursorOK
  <2>2. \A fails \in BOOLEAN : CursorOK(HybridPrev(cursor, fails)) /\ CursorOK(HybridNext(cursor, fails))
    BY HybridStepsOK DEF HistOK
  <2> QED
    BY <2>1, <2>2 DEF Open, Prev, Next
<1>3. faults' \in 0..MaxFaults
  <2>1. faults \in 0..MaxFaults /\ MaxFaults \in Nat
    BY HistAssumption DEF HistOK, TypeOK
  <2> QED
    BY <2>1 DEF Open, Prev, Next, MayFail
<1> QED
  BY <1>1, <1>2, <1>3 DEF HistOK, TypeOK, CursorOK


\* The walk shows what it is at.  The stack of a walk that has begun holds at least the
\* command that was found first; a Prev that calls the cursor begins at the top of the stack,
\* or above it if the last call has failed.
WalkOK ==
    /\ mode \in {"off", "starting", "prev", "on"}
    /\ stack \in Seq(Texts) /\ current \in -1..Len(stack)
    /\ shown \in Texts \cup {NoText}
    /\ reported \in {"nil", "end", "db"}
    /\ mode = "starting" => stack = <<>>
    /\ mode \in {"on", "prev"} =>
         /\ current >= 0 /\ Len(stack) > 0
         /\ shown = stack[IF current < Len(stack) THEN current + 1 ELSE Len(stack)]
    /\ mode = "prev" => current >= Len(stack) - 1

\* What a cursor says about where it is: an error, or a command.
LEMMA GetOK ==
    ASSUME NEW c, CursorOK(c)
    PROVE  GetErr(c) \in {"nil", "end", "db"} /\ (GetErr(c) = "nil" => GetText(c) \in Texts)
<1>1. c.err \in {"nil", "end", "db"} /\ c.cmds \in Seq(Texts) /\ (c.err = "nil" => c.text \in Texts)
  BY DEF CursorOK, Cursors
<1>2. c.index \in 1..Len(c.cmds) => c.cmds[c.index] \in Texts
  BY <1>1
<1> QED
  BY <1>1, <1>2 DEF GetErr, GetText

\* Every key press and every call of the cursor leaves the walk at a command it shows.
LEMMA WalkStepOK ==
    ASSUME HistOK, HistOK', WalkOK, WalkNextState
    PROVE  WalkOK'
<1>a. /\ mode \in {"off", "starting", "prev", "on"} /\ stack \in Seq(Texts)
      /\ current \in -1..Len(stack) /\ shown \in Texts \cup {NoText} /\ reported \in {"nil", "end", "db"}
  BY Zenon DEF WalkOK
<1>b. Len(stack) \in Nat /\ current \in Int
  BY <1>a
<1>0. /\ mode \in {"off", "starting", "prev", "on"} /\ stack \in Seq(Texts) /\ Len(stack) \in Nat
      /\ current \in -1..Len(stack) /\ shown \in Texts \cup {NoText} /\ reported \in {"nil", "end", "db"}
  BY <1>a, <1>b, Zenon
<1>1. CASE UNCHANGED walkVars
  BY <1>1 DEF walkVars, WalkOK
<1>2. ASSUME NEW p \in Searches, Start(p) PROVE WalkOK'
  BY <1>2 DEF Start, WalkOK
<1>3. ASSUME NEW fails \in BOOLEAN, PrevStep(fails) PROVE WalkOK'
  <2> DEFINE e == GetErr(cursor')
             x == GetText(cursor')
  <2>1. e \in {"nil", "end", "db"} /\ (e = "nil" => x \in Texts)
    BY GetOK DEF HistOK
  <2>2. mode \in {"starting", "prev"}
    BY <1>3 DEF PrevStep
  <2>3. \/ e # "nil" /\ AfterPrev(e, Len(stack), stack)
        \/ e = "nil" /\ AfterPrev(e, Len(stack), Append(stack, x))
        \/ UNCHANGED walkVars
    BY <1>3 DEF PrevStep
  <2> HIDE DEF e, x
  <2>4. CASE e # "nil" /\ AfterPrev(e, Len(stack), stack)
    <3>1. /\ stack' = stack /\ reported' = e /\ shown' = shown
          /\ mode' = (IF mode = "starting" THEN "off" ELSE "on")
          /\ current' = (IF mode = "prev" /\ e = "end" THEN Len(stack) - 1 ELSE Len(stack))
      BY <2>4 DEF AfterPrev
    <3>2. CASE mode = "starting"
      BY <3>1, <3>2, <2>1, <1>0 DEF WalkOK
    <3>3. CASE mode = "prev"
      <4>1. Len(stack) > 0 /\ shown = stack[Len(stack)]
        BY <3>3, <1>0 DEF WalkOK
      <4> QED
        BY <3>1, <3>3, <4>1, <2>1, <1>0 DEF WalkOK
    <3> QED
      BY <2>2, <3>2, <3>3
  <2>5. CASE e = "nil" /\ AfterPrev(e, Len(stack), Append(stack, x))
    <3>1. /\ stack' = Append(stack, x) /\ reported' = "nil" /\ shown' = Append(stack, x)[Len(stack) + 1]
          /\ mode' = "on" /\ current' = Len(stack)
      BY <2>5 DEF AfterPrev
    <3>2. stack' \in Seq(Texts) /\ Len(stack') = Len(stack) + 1 /\ stack'[Len(stack) + 1] = x
      BY <3>1, <2>1, <2>5, <1>0
    <3> QED
      BY <3>1, <3>2, <2>1, <2>5, <1>0 DEF WalkOK
  <2> QED
    BY <1>1, <2>3, <2>4, <2>5
<1>4. CASE WalkPrev
  <2>1. mode = "on"
    BY <1>4 DEF WalkPrev
  <2>2. CASE current < Len(stack) - 1
    <3>1. /\ stack' = stack /\ reported' = "nil" /\ mode' = "on" /\ current' = current + 1
          /\ shown' = stack[current + 2]
      BY <1>4, <2>1, <2>2, <1>0 DEF WalkPrev, AfterPrev
    <3>2. current + 2 \in 1..Len(stack) /\ current + 2 = current' + 1
      BY <3>1, <2>1, <2>2, <1>0 DEF WalkOK
    <3> QED
      BY <3>1, <3>2, <2>1, <2>2, <1>0 DEF WalkOK
  <2>3. CASE ~(current < Len(stack) - 1)
    <3>1. mode' = "prev" /\ UNCHANGED <<current, stack, shown, reported>>
      BY <1>4, <2>3 DEF WalkPrev
    <3> QED
      BY <3>1, <2>1, <2>3, <1>0 DEF WalkOK
  <2> QED
    BY <2>2, <2>3
<1>5. CASE WalkNext
  <2>1. mode = "on" /\ mode' = "on" /\ stack' = stack /\ current >= 0
    BY <1>5 DEF WalkNext, WalkOK
  <2>2. CASE current = 0
    <3>1. reported' = "end" /\ current' = current /\ shown' = shown
      BY <1>5, <2>2 DEF WalkNext
    <3> QED
      BY <3>1, <2>1, <1>0 DEF WalkOK
  <2>3. CASE current > 0
    <3>1. current' = current - 1 /\ reported' = "nil" /\ shown' = stack[current]
      BY <1>5, <2>1, <2>3, <1>0 DEF WalkNext
    <3>2. current \in 1..Len(stack) /\ stack[current] \in Texts
      BY <2>3, <1>0
    <3> QED
      BY <3>1, <3>2, <2>1, <2>3, <1>0 DEF WalkOK
  <2> QED
    BY <2>1, <2>2, <2>3, <1>0
<1>6. CASE Leave
  BY <1>6, <1>0 DEF Leave, WalkOK
<1>7. CASE Elsewhere
  BY <1>1, <1>7 DEF Elsewhere
<1> QED
  BY <1>2, <1>3, <1>4, <1>5, <1>6, <1>7 DEF WalkNextState

-----------------------------------------------------------------------------
(* The session.                                                            *)

\* What the fairness adds is not needed for safety.
LEMMA SessionSafety == MCSpec => MCInit /\ [][MCNext]_sessionVars
  BY PTL DEF MCSpec

\* In the composition each part behaves as its own module says.
LEMMA PartsOfSession == MCSpec => PromptSpec /\ HighlighterSpec /\ RpcSpec
<1>1. MCInit => PromptInit /\ HighlighterInit /\ RpcInit
  BY DEF MCInit
<1>2. ASSUME [MCNext]_sessionVars
      PROVE  [PromptNext]_promptVars /\ [HighlighterNext]_highlighterVars /\ [RpcNext]_rpcVars
  BY <1>2 DEF MCNext, sessionVars, PromptStep, HighlighterStep, RpcStep, WalkStep, CursorStep
<1> QED
  BY <1>1, <1>2, SessionSafety, PTL DEF PromptSpec, HighlighterSpec, RpcSpec

\* The history and the walk over it, whichever of the two the behaviour is about.
LEMMA HistoryAlways == MCSpec => [](HistOK /\ WalkOK /\ deleted \in BOOLEAN)
<1> DEFINE Inv == HistOK /\ WalkOK /\ deleted \in BOOLEAN
<1>1. MCInit => Inv
  <2> SUFFICES ASSUME MCInit PROVE Inv
    OBVIOUS
  <2>1. WalkInit /\ Init
    BY DEF MCInit, WalkInit
  <2>2. deleted \in BOOLEAN
    BY <2>1, Zenon DEF WalkInit
  <2>3. WalkOK
    BY <2>1 DEF WalkInit, WalkOK
  <2>4. PICK p \in Searches : cursor = NewCursor(p)
    BY <2>1 DEF Init
  <2>5. sequence = 0 /\ DOMAIN cmds = {} /\ upper = 1 /\ session = <<>> /\ faults = 0
    BY <2>1 DEF Init
  <2>6. shared \in BOOLEAN
    BY <2>1, Zenon DEF Init
  <2>7. /\ cursor.index = 1 /\ cursor.cmds = <<>> /\ cursor.seq = 1 /\ cursor.upper = 1 /\ cursor.err = "end"
        /\ cursor \in Cursors
    <3>1. cursor = [prefix |-> p, shared |-> shared, useShared |-> FALSE, upper |-> 1, seq |-> 1, text |-> NoText,
                    err |-> "end", cmds |-> <<>>, index |-> 1]
      BY <2>4, <2>5 DEF NewCursor
    <3>2. 1 \in 1..MaxSeq + 1 /\ 1 \in -1..MaxSeq + 1 /\ 1 \in 0..MaxSession + 1
      BY HistAssumption
    <3>3. <<>> \in Seq(Texts)
      OBVIOUS
    <3> QED
      BY <2>6, <3>1, <3>2, <3>3 DEF Cursors
  <2>8. CursorOK(cursor)
    BY <2>7, HistAssumption DEF CursorOK
  <2>9. TypeOK
    BY <2>5, <2>6, <2>7, HistAssumption DEF TypeOK
  <2> QED
    BY <2>2, <2>3, <2>5, <2>8, <2>9, HistAssumption DEF HistOK
<1>2. Inv /\ [MCNext]_sessionVars => Inv'
  <2> SUFFICES ASSUME Inv, [MCNext]_sessionVars PROVE Inv'
    OBVIOUS
  <2>1. CASE UNCHANGED allVars
    <3>1. HistOK'
      BY <2>1 DEF allVars, vars, dbVars, storeVars, HistOK, TypeOK, CursorOK
    <3>2. WalkOK'
      BY <2>1 DEF allVars, walkVars, WalkOK
    <3> QED
      BY <2>1, <3>1, <3>2, Zenon DEF allVars
  <2>2. CASE WalkNextState
    <3>1. \/ StoreStep
          \/ \E p \in Searches : Open(p)
          \/ \E fails \in BOOLEAN : Prev(fails)
          \/ UNCHANGED vars
      BY <2>2, Zenon DEF WalkNextState, Elsewhere, StoreStep, Start, PrevStep, WalkPrev, WalkNext, Leave
    <3>2. HistOK'
      <4>1. CASE UNCHANGED vars
        BY <4>1 DEF vars, dbVars, storeVars, HistOK, TypeOK, CursorOK
      <4> QED
        BY <3>1, <4>1, StoreStepOK, CursorStepOK
    <3>3. WalkOK'
      BY <2>2, <3>2, WalkStepOK
    <3>4. deleted' \in BOOLEAN
      BY <2>2, Zenon DEF WalkNextState, Elsewhere, Start, PrevStep, WalkPrev, WalkNext, Leave
    <3> QED
      BY <3>2, <3>3, <3>4
  <2>3. CASE CursorNext /\ UNCHANGED <<walkVars, deleted>>
    <3>1. HistOK'
      BY <2>3, StoreStepOK, CursorStepOK DEF CursorNext
    <3>2. WalkOK'
      BY <2>3 DEF walkVars, WalkOK
    <3> QED
      BY <2>3, <3>1, <3>2, Zenon
  <2> QED
    BY <2>1, <2>2, <2>3 DEF MCNext, sessionVars, PromptStep, HighlighterStep, RpcStep, WalkStep, CursorStep
<1> QED
  BY <1>1, <1>2, SessionSafety, PTL

\* The variables of all parts are as declared, for any set of directories, codes, callers and
\* texts and any number of calls: the positions of the history cursor stay within its two
\* stores and that of the walk within its stack.
THEOREM SessionTypesTheorem == MCSpec => []TypesOK
<1>1. HistOK /\ WalkOK /\ deleted \in BOOLEAN => WalkTypeOK
  BY Zenon DEF HistOK, WalkOK, WalkTypeOK
<1>2. PromptTypeOK /\ (HighlighterTypeOK /\ HighlightHasGoroutine) /\ RpcTypeOK /\ WalkTypeOK => TypesOK
  BY DEF TypesOK
<1> QED
  BY <1>1, <1>2, PartsOfSession, PromptTypesAlways, HighlighterTypesAlways, RpcTypeCorrect, HistoryAlways, PTL

\* What the editor shows is not out of date without something being under way that will
\* change it (prompt.loop, highlighter.Get and its lateCb), for any number of requests.
THEOREM NothingStaysStaleTheorem == MCSpec => []NothingStaysStale
<1>1. (PromptFollowsDirectory /\ ShownIsLast) /\ LateResultsAreSound => NothingStaysStale
  BY DEF NothingStaysStale
<1> QED
  BY <1>1, PartsOfSession, PromptTheorem, HighlighterTheorem, PTL

\* In the session too a call to the daemon returns what its own request brought.
THEOREM SessionCallsTheorem == MCSpec => []CallsAreExact
  BY PartsOfSession, RpcCallsAreExact, PTL

-----------------------------------------------------------------------------
(* The cursor as a cursor over one list.                                   *)

\* The text of a command of the view, and where a cursor is among them.
TextAt(c, q) == IF q < c.upper THEN cmds[q] ELSE c.cmds[q - c.upper]
At(c) == IF c.useShared THEN c.seq ELSE c.upper + c.index

\* What else is true of a cursor: it is in the shared part only after it has gone through
\* those of the session, in the session's part the one for the shared part is at its end, and
\* where it is on a command that has the prefix.
CursorInv(c) ==
    /\ CursorOK(c) /\ c.upper <= sequence + 1
    /\ c.useShared => /\ c.shared /\ c.index = 0
                      /\ c.err = "nil" => c.seq >= 0
                      /\ c.err = "end" => c.seq = -1 \/ c.seq = c.upper
    /\ ~c.useShared /\ c.shared => c.seq = c.upper /\ c.index > 0
    /\ ~c.useShared /\ c.index \in 1..Len(c.cmds) => c.cmds[c.index] \in c.prefix

\* One cursor is over the same view as another.
SameView(c, d) == d.prefix = c.prefix /\ d.shared = c.shared /\ d.upper = c.upper /\ d.cmds = c.cmds

\* The next place a cursor goes to: the next older command of the view, the end if there is
\* none, or nowhere if the call fails.
GoesBack(c, d) ==
    /\ GetErr(d) = "nil" => /\ At(d) \in Places(c) /\ At(d) < At(c)
                            /\ GetText(d) = TextAt(c, At(d))
                            /\ \A q \in Places(c) : q < At(c) => q <= At(d)
    /\ GetErr(d) # "nil" => \A q \in Places(c) : q >= At(d) <=> q >= At(c)
    /\ GetErr(d) = "end" => \A q \in Places(c) : q >= At(c)
    /\ GetErr(d) = "db" => (At(d) \in Places(c) => At(c) \in Places(c))

\* The call of the database cursor, which is at seq.
LEMMA DbGoesBack ==
    ASSUME HistOK, NEW c, CursorOK(c), c.useShared, c.shared, c.upper <= sequence + 1, c.index = 0,
           c.seq < 0 => c.err # "nil", c.err = "end" => c.seq = -1 \/ c.seq = c.upper, NEW fails \in BOOLEAN
    PROVE  /\ CursorInv(DbPrev(c, fails)) /\ SameView(c, DbPrev(c, fails))
           /\ GoesBack(c, DbPrev(c, fails))
<1> DEFINE d == DbPrev(c, fails)
           S == {q \in Matching(c) : q < c.seq}
<1>1. /\ c \in Cursors /\ c.seq \in Int /\ c.seq >= -1 /\ c.upper \in Nat /\ c.seq <= c.upper
      /\ c.cmds \in Seq(Texts) /\ Len(c.cmds) \in Nat
  BY HistAssumption DEF CursorOK, Cursors
<1>2. Matching(c) \in SUBSET (1..sequence) /\ sequence \in Nat
  BY DEF HistOK, TypeOK, Matching
<1>3. CursorOK(d)
  BY DbStepsOK DEF HistOK
<1>4. /\ d.useShared = TRUE /\ SameView(c, d)
  BY <1>1 DEF DbPrev, Found, NotFound, SameView, Cursors
<1>a. d.shared /\ d.upper = c.upper /\ d.upper <= sequence + 1
  BY <1>4, Zenon DEF SameView
<1>b. d.index = 0
  BY <1>1 DEF DbPrev, Found, NotFound, Cursors
<1>c. ASSUME d.err = "nil" => d.seq >= 0, d.err = "end" => d.seq = -1 \/ d.seq = d.upper
      PROVE  CursorInv(d)
  BY <1>3, <1>4, <1>a, <1>b, <1>c, Zenon DEF CursorInv
<1>5. At(c) = c.seq /\ At(d) = d.seq /\ GetErr(d) = d.err /\ GetText(d) = d.text
  BY <1>4 DEF At, GetErr, GetText
<1>6. \A q \in Places(c) : q >= c.seq \/ q \in S
  BY <1>1, <1>2 DEF Places
<1>7. \A q \in Places(c) : q \in Nat
  BY <1>1, <1>2 DEF Places
<1>8. CASE c.seq < 0
  <2>1. d = c
    BY <1>8 DEF DbPrev
  <2>2. GoesBack(c, d)
    BY <2>1, <1>1, <1>5, <1>7, <1>8 DEF GoesBack
  <2> QED
    BY <2>1, <2>2, <1>1, <1>4, <1>8, <1>c
<1>9. CASE c.seq >= 0 /\ fails
  <2>1. d = [c EXCEPT !.err = "db"]
    BY <1>9, <1>1 DEF DbPrev
  <2>2. d.seq = c.seq /\ d.err = "db"
    BY <2>1, <1>1 DEF Cursors
  <2> HIDE DEF d
  <2>3. GoesBack(c, d)
    BY <2>2, <1>5 DEF GoesBack
  <2>4. CursorInv(d)
    BY <2>2, <1>c
  <2> QED
    BY <2>3, <2>4, <1>4 DEF d
<1>10. CASE c.seq >= 0 /\ ~fails /\ S = {}
  <2>1. d = NotFound(c, -1)
    BY <1>10, <1>1 DEF DbPrev
  <2>2. d.seq = -1 /\ d.err = "end"
    BY <2>1, <1>1 DEF NotFound, Cursors
  <2>3. \A q \in Places(c) : q >= c.seq /\ q >= -1
    BY <1>1, <1>6, <1>7, <1>10
  <2> HIDE DEF d
  <2>4. GoesBack(c, d)
    BY <2>2, <2>3, <1>5 DEF GoesBack
  <2>5. CursorInv(d)
    BY <2>2, <1>c
  <2> QED
    BY <2>4, <2>5, <1>4 DEF d
<1>11. CASE c.seq >= 0 /\ ~fails /\ S # {}
  <2>1. d = Found(c, Max(S))
    BY <1>11, <1>1 DEF DbPrev
  <2>2. d.seq = Max(S) /\ d.err = "nil" /\ d.text = cmds[Max(S)]
    BY <2>1, <1>1 DEF Found, Cursors
  <2>3. Max(S) \in S /\ \A q \in S : Max(S) >= q
    <3>1. S \in SUBSET (0..sequence) /\ S # {}
      BY <1>2, <1>11
    <3> HIDE DEF S
    <3> QED
      BY <3>1, <1>2, MaxOfNats
  <2>4. Max(S) \in Places(c) /\ Max(S) < c.upper
    <3>1. Max(S) \in Matching(c) /\ Max(S) < c.seq /\ Max(S) \in Int
      BY <2>3, <1>2
    <3>2. Max(S) < c.upper
      BY <3>1, <1>1
    <3> HIDE DEF S
    <3> QED
      BY <3>1, <3>2 DEF Places
  <2>5. TextAt(c, Max(S)) = cmds[Max(S)]
    BY <2>4 DEF TextAt
  <2>6. \A q \in Places(c) : q < c.seq => q <= Max(S)
    BY <2>3, <1>1, <1>6, <1>7
  <2>7. Max(S) < c.seq /\ Max(S) \in Nat
    BY <2>3, <1>2
  <2> HIDE DEF S, d
  <2>8. GoesBack(c, d)
    BY <2>2, <2>4, <2>5, <2>6, <2>7, <1>5 DEF GoesBack
  <2>9. CursorInv(d)
    BY <2>2, <2>7, <1>c
  <2> QED
    BY <2>8, <2>9, <1>4 DEF d
<1> QED
  BY <1>1, <1>8, <1>9, <1>10, <1>11

\* The memory cursor goes to the next older command of the session.
LEMMA MemGoesBack ==
    ASSUME NEW c, CursorOK(c)
    PROVE  /\ MemPrev(c) \in 0..Len(c.cmds)
           /\ MemPrev(c) > 0 => MemPrev(c) < c.index /\ c.cmds[MemPrev(c)] \in c.prefix
           /\ \A i \in 1..Len(c.cmds) : i < c.index /\ c.cmds[i] \in c.prefix => i <= MemPrev(c)
<1> DEFINE S == {0} \cup {i \in 1..Len(c.cmds) : i < c.index /\ c.cmds[i] \in c.prefix}
<1>1. c.cmds \in Seq(Texts) /\ Len(c.cmds) \in Nat
  BY DEF CursorOK, Cursors
<1>2. S \in SUBSET (0..Len(c.cmds)) /\ S # {}
  BY <1>1
<1>3. MemPrev(c) = Max(S)
  BY DEF MemPrev
<1>4. Max(S) \in S /\ \A i \in S : Max(S) >= i
  <2> HIDE DEF S
  <2> QED
    BY <1>1, <1>2, MaxOfNats
<1>5. 0 \in S
  OBVIOUS
<1>6. Max(S) \in 0..Len(c.cmds)
  BY <1>2, <1>4
<1>7. Max(S) > 0 => Max(S) < c.index /\ c.cmds[Max(S)] \in c.prefix
  <2>1. Max(S) # 0 => Max(S) \in {i \in 1..Len(c.cmds) : i < c.index /\ c.cmds[i] \in c.prefix}
    BY <1>4
  <2> HIDE DEF S
  <2> QED
    BY <2>1, <1>6
<1>8. \A i \in 1..Len(c.cmds) : i < c.index /\ c.cmds[i] \in c.prefix => i <= Max(S)
  BY <1>4, <1>6
<1> QED
  BY <1>3, <1>6, <1>7, <1>8

\* One call of the cursor goes back to the next older command of the view, over the border
\* between the session's commands and the shared ones too, and says that there is none only
\* if there is none.
LEMMA PrevGoesBack ==
    ASSUME HistOK, NEW c, CursorInv(c), NEW fails \in BOOLEAN
    PROVE  /\ CursorInv(HybridPrev(c, fails)) /\ SameView(c, HybridPrev(c, fails))
           /\ GoesBack(c, HybridPrev(c, fails))
<1> DEFINE m == [c EXCEPT !.index = MemPrev(c)]
           s == [m EXCEPT !.useShared = TRUE]
<1>1. /\ c \in Cursors /\ CursorOK(c) /\ c.upper \in Nat /\ c.upper <= sequence + 1
      /\ c.index \in Nat /\ c.seq \in Int /\ c.cmds \in Seq(Texts) /\ Len(c.cmds) \in Nat
  BY HistAssumption DEF CursorInv, CursorOK, Cursors
<1>2. CASE c.useShared
  <2>1. /\ c.shared /\ c.index = 0 /\ (c.err = "nil" => c.seq >= 0)
        /\ c.err = "end" => c.seq = -1 \/ c.seq = c.upper
    BY <1>2, Zenon DEF CursorInv
  <2>2. c.seq < 0 => c.err # "nil"
    BY <2>1, <1>1
  <2> QED
    BY <2>1, <2>2, <1>1, <1>2, DbGoesBack DEF HybridPrev
<1>3. CASE ~c.useShared
  <2>1. /\ MemPrev(c) \in 0..Len(c.cmds)
        /\ MemPrev(c) > 0 => MemPrev(c) < c.index /\ c.cmds[MemPrev(c)] \in c.prefix
        /\ \A i \in 1..Len(c.cmds) : i < c.index /\ c.cmds[i] \in c.prefix => i <= MemPrev(c)
    BY <1>1, MemGoesBack
  <2>2. CursorOK(m)
    <3>1. MemPrev(c) \in 0..Len(c.cmds) + 1
      BY <2>1, <1>1
    <3> QED
      BY <3>1, <1>1, MovedOK
  <2>3. /\ m.index = MemPrev(c) /\ m.seq = c.seq /\ m.err = c.err /\ m.useShared = c.useShared
        /\ SameView(c, m)
    BY <1>1 DEF Cursors, SameView
  <2>4. At(c) = c.upper + c.index
    BY <1>3 DEF At
  <2>5. \A q \in Places(c) : /\ q \in Nat
                             /\ q < c.upper \/ (q - c.upper \in 1..Len(c.cmds) /\ c.cmds[q - c.upper] \in c.prefix)
    <3>1. Matching(c) \in SUBSET Nat
      BY DEF HistOK, TypeOK, Matching
    <3> QED
      BY <3>1, <1>1 DEF Places
  <2>6. \A q \in Places(c) : q < At(c) => q <= c.upper + MemPrev(c)
    <3> TAKE q \in Places(c)
    <3> HAVE q < At(c)
    <3>1. q \in Nat /\ MemPrev(c) \in Nat
      BY <2>1, <2>5, <1>1
    <3>2. CASE q < c.upper
      BY <3>1, <3>2, <1>1
    <3>3. CASE q - c.upper \in 1..Len(c.cmds) /\ c.cmds[q - c.upper] \in c.prefix
      <4>1. q - c.upper < c.index
        BY <3>1, <2>4, <1>1
      <4>2. q - c.upper <= MemPrev(c)
        BY <3>3, <4>1, <2>1
      <4> QED
        BY <3>1, <4>2, <1>1
    <3> QED
      BY <3>2, <3>3, <2>5
  <2>7. CASE c.shared /\ m.index = 0
    <3>1. HybridPrev(c, fails) = DbPrev(s, fails)
      BY <1>3, <2>7 DEF HybridPrev
    <3>2. CursorOK(s)
      BY <2>2, SwitchedOK
    <3>3. /\ s.useShared = TRUE /\ s.seq = c.seq /\ s.upper = c.upper /\ s.shared = c.shared
          /\ s.cmds = c.cmds /\ s.prefix = c.prefix /\ s.index = m.index
      BY <1>1 DEF Cursors
    <3>4. c.seq = c.upper
      BY <1>3, <2>7, Zenon DEF CursorInv
    <3>5. s.shared /\ s.upper <= sequence + 1 /\ ~(s.seq < 0)
      <4>1. s.shared
        BY <2>7, <3>3, Zenon
      <4>2. s.upper <= sequence + 1 /\ ~(s.seq < 0)
        BY <3>3, <3>4, <1>1
      <4> QED
        BY <4>1, <4>2
    <3>a. s.index = 0 /\ (s.err = "end" => s.seq = -1 \/ s.seq = s.upper)
      BY <2>7, <3>3, <3>4
    <3> HIDE DEF m, s
    <3>6. /\ CursorInv(DbPrev(s, fails)) /\ SameView(s, DbPrev(s, fails)) /\ GoesBack(s, DbPrev(s, fails))
      BY <3>2, <3>3, <3>5, <3>a, DbGoesBack
    <3>7. SameView(c, DbPrev(s, fails))
      BY <3>3, <3>6 DEF SameView
    <3>8. Places(s) = Places(c) /\ \A q : TextAt(s, q) = TextAt(c, q)
      BY <3>3 DEF Places, TextAt, Matching
    <3>9. At(s) = c.upper
      BY <3>3, <3>4 DEF At
    <3>10. \A q \in Places(c) : q >= At(s) <=> q >= At(c)
      BY <3>9, <2>3, <2>4, <2>5, <2>6, <2>7, <1>1
    <3> DEFINE d == DbPrev(s, fails)
    <3>11. /\ GetErr(d) = "nil" => /\ At(d) \in Places(c) /\ At(d) < At(s)
                                   /\ GetText(d) = TextAt(c, At(d))
                                   /\ \A q \in Places(c) : q < At(s) => q <= At(d)
           /\ GetErr(d) # "nil" => \A q \in Places(c) : q >= At(d) <=> q >= At(s)
           /\ GetErr(d) = "end" => \A q \in Places(c) : q >= At(s)
           /\ GetErr(d) = "db" => (At(d) \in Places(c) => At(s) \in Places(c))
      BY <3>6, <3>8 DEF GoesBack
    <3> HIDE DEF d
    <3>12. At(s) <= At(c) /\ At(c) \in Nat
      BY <3>9, <2>4, <1>1
    <3>13. GoesBack(c, d)
      <4>1. At(s) \notin Places(c)
        BY <3>9, <2>5, <1>1
      <4> QED
        BY <4>1, <3>10, <3>11, <3>12, <2>5, <3>9, <1>1 DEF GoesBack
    <3> QED
      BY <3>1, <3>6, <3>7, <3>13 DEF d
  <2>8. CASE ~(c.shared /\ m.index = 0)
    <3>1. HybridPrev(c, fails) = m
      BY <1>3, <2>8 DEF HybridPrev
    <3>2. CursorInv(m)
      <4>1. /\ m.index # 0 => m.index > 0 /\ m.cmds[m.index] \in m.prefix
            /\ m.index \in 1..Len(m.cmds) => m.index # 0
        BY <2>1, <2>3, <1>1 DEF SameView
      <4>2. m.upper <= sequence + 1
        BY <2>3, <1>1 DEF SameView
      <4>3. m.shared => m.index # 0
        BY <2>3, <2>8, Zenon DEF SameView
      <4>4. m.shared => m.seq = m.upper
        BY <1>3, <2>3, Zenon DEF CursorInv, SameView
      <4> QED
        BY <1>3, <2>2, <2>3, <4>1, <4>2, <4>3, <4>4, Zenon DEF CursorInv
    <3>3. At(m) = c.upper + MemPrev(c)
      BY <1>3, <2>3 DEF At, SameView
    <3>4. CASE MemPrev(c) > 0
      <4>1. GetErr(m) = "nil" /\ GetText(m) = c.cmds[MemPrev(c)]
        BY <1>3, <2>1, <2>3, <3>4 DEF GetErr, GetText, SameView
      <4>2. At(m) \in Places(c)
        BY <3>3, <3>4, <2>1, <1>1 DEF Places
      <4>3. TextAt(c, At(m)) = c.cmds[MemPrev(c)]
        BY <3>3, <3>4, <2>1, <1>1 DEF TextAt
      <4>4. At(m) < At(c)
        BY <3>3, <3>4, <2>1, <2>4, <1>1
      <4> HIDE DEF m
      <4>5. GoesBack(c, m)
        BY <4>1, <4>2, <4>3, <4>4, <2>6, <3>3 DEF GoesBack
      <4> QED
        BY <3>1, <3>2, <2>3, <4>5
    <3>5. CASE MemPrev(c) = 0
      <4>1. GetErr(m) = "end"
        BY <1>3, <2>3, <3>5 DEF GetErr, SameView
      <4>2. ~c.shared
        BY <2>3, <2>8, <3>5, Zenon
      <4>3. \A q \in Places(c) : q >= c.upper + 1
        BY <4>2, <1>1 DEF Places
      <4>4. \A q \in Places(c) : q >= At(m) /\ q >= At(c)
        BY <4>3, <2>4, <2>5, <2>6, <3>3, <3>5, <1>1
      <4> HIDE DEF m
      <4>5. GoesBack(c, m)
        BY <4>1, <4>4 DEF GoesBack
      <4> QED
        BY <3>1, <3>2, <2>3, <4>5
    <3> QED
      BY <3>4, <3>5, <2>1
  <2> QED
    BY <2>7, <2>8
<1> QED
  BY <1>2, <1>3


\* The next place a cursor goes to with Next: the next newer command of the view, or the end
\* if there is none; a call that fails goes nowhere.
GoesForward(c, d) ==
    /\ GetErr(d) = "nil" => /\ At(d) \in Places(c) /\ At(d) > At(c)
                            /\ GetText(d) = TextAt(c, At(d))
                            /\ \A q \in Places(c) : q > At(c) => q >= At(d)
    /\ GetErr(d) = "end" => ~d.useShared /\ \A q \in Places(c) : q <= At(c) /\ q < At(d)
    /\ GetErr(d) = "db" => At(d) = At(c)

\* The memory cursor goes to the next newer command of the session.
LEMMA MemGoesForward ==
    ASSUME NEW c, CursorOK(c)
    PROVE  /\ MemNext(c) \in 1..Len(c.cmds) + 1
           /\ MemNext(c) <= Len(c.cmds) => MemNext(c) > c.index /\ c.cmds[MemNext(c)] \in c.prefix
           /\ \A i \in 1..Len(c.cmds) : i > c.index /\ c.cmds[i] \in c.prefix => i >= MemNext(c)
<1> DEFINE S == {Len(c.cmds) + 1} \cup {i \in 1..Len(c.cmds) : i > c.index /\ c.cmds[i] \in c.prefix}
<1>1. c.cmds \in Seq(Texts) /\ Len(c.cmds) \in Nat
  BY DEF CursorOK, Cursors
<1>2. S \in SUBSET Nat /\ S # {} /\ S \in SUBSET (1..Len(c.cmds) + 1)
  BY <1>1
<1>3. MemNext(c) = Min(S)
  BY DEF MemNext
<1>4. Min(S) \in S /\ \A i \in S : Min(S) <= i
  <2> HIDE DEF S
  <2> QED
    BY <1>2, MinOfNats
<1>5. Min(S) \in 1..Len(c.cmds) + 1
  BY <1>2, <1>4
<1>6. Min(S) <= Len(c.cmds) => Min(S) > c.index /\ c.cmds[Min(S)] \in c.prefix
  <2>1. Min(S) # Len(c.cmds) + 1 => Min(S) \in {i \in 1..Len(c.cmds) : i > c.index /\ c.cmds[i] \in c.prefix}
    BY <1>4
  <2> HIDE DEF S
  <2> QED
    BY <2>1, <1>1, <1>5
<1>7. \A i \in 1..Len(c.cmds) : i > c.index /\ c.cmds[i] \in c.prefix => i >= Min(S)
  BY <1>4, <1>5
<1> QED
  BY <1>3, <1>5, <1>6, <1>7

\* In the session's part the cursor goes forward with the memory cursor, ...
LEMMA SessionGoesForward ==
    ASSUME HistOK, NEW c, CursorInv(c), ~c.useShared
    PROVE  LET d == [c EXCEPT !.index = MemNext(c)]
           IN  CursorInv(d) /\ SameView(c, d) /\ GoesForward(c, d)
<1> DEFINE d == [c EXCEPT !.index = MemNext(c)]
<1>1. /\ c \in Cursors /\ CursorOK(c) /\ c.upper \in Nat /\ c.upper <= sequence + 1
      /\ c.index \in Nat /\ c.index <= Len(c.cmds) + 1 /\ c.cmds \in Seq(Texts) /\ Len(c.cmds) \in Nat
  BY HistAssumption DEF CursorInv, CursorOK, Cursors
<1>2. /\ MemNext(c) \in 1..Len(c.cmds) + 1
      /\ MemNext(c) <= Len(c.cmds) => MemNext(c) > c.index /\ c.cmds[MemNext(c)] \in c.prefix
      /\ \A i \in 1..Len(c.cmds) : i > c.index /\ c.cmds[i] \in c.prefix => i >= MemNext(c)
  BY <1>1, MemGoesForward
<1>3. CursorOK(d)
  <2>1. MemNext(c) \in 0..Len(c.cmds) + 1
    BY <1>1, <1>2
  <2> QED
    BY <2>1, <1>1, MovedOK
<1>4. /\ d.index = MemNext(c) /\ d.seq = c.seq /\ d.useShared = c.useShared /\ d.upper = c.upper
      /\ d.cmds = c.cmds /\ d.prefix = c.prefix /\ d.shared = c.shared /\ SameView(c, d)
  BY <1>1 DEF Cursors, SameView
<1>5. CursorInv(d)
  <2>1. d.index > 0 /\ (d.index \in 1..Len(d.cmds) => d.cmds[d.index] \in d.prefix) /\ d.upper <= sequence + 1
    BY <1>1, <1>2, <1>4
  <2>2. d.shared => d.seq = d.upper
    BY <1>4, Zenon DEF CursorInv
  <2> QED
    BY <1>3, <1>4, <2>1, <2>2, Zenon DEF CursorInv
<1>6. At(c) = c.upper + c.index /\ At(d) = c.upper + MemNext(c)
  BY <1>4 DEF At
<1>7. \A q \in Places(c) : /\ q \in Nat
                           /\ q < c.upper \/ (q - c.upper \in 1..Len(c.cmds) /\ c.cmds[q - c.upper] \in c.prefix)
  <2>1. Matching(c) \in SUBSET Nat
    BY DEF HistOK, TypeOK, Matching
  <2> QED
    BY <2>1, <1>1 DEF Places
<1>8. \A q \in Places(c) : q > At(c) => q >= At(d)
  <2> TAKE q \in Places(c)
  <2> HAVE q > At(c)
  <2>1. q \in Nat /\ q - c.upper \in 1..Len(c.cmds) /\ c.cmds[q - c.upper] \in c.prefix /\ q - c.upper > c.index
    BY <1>1, <1>6, <1>7
  <2>2. q - c.upper >= MemNext(c)
    BY <2>1, <1>2
  <2> QED
    BY <2>1, <2>2, <1>1, <1>2, <1>6
<1>9. CASE MemNext(c) <= Len(c.cmds)
  <2>1. GetErr(d) = "nil" /\ GetText(d) = c.cmds[MemNext(c)]
    BY <1>2, <1>4, <1>9, <1>1 DEF GetErr, GetText
  <2>2. At(d) \in Places(c) /\ TextAt(c, At(d)) = c.cmds[MemNext(c)] /\ At(d) > At(c)
    BY <1>1, <1>2, <1>6, <1>9 DEF Places, TextAt
  <2> HIDE DEF d
  <2>3. GoesForward(c, d)
    BY <2>1, <2>2, <1>8 DEF GoesForward
  <2> QED
    BY <2>3, <1>4, <1>5 DEF d
<1>10. CASE MemNext(c) = Len(c.cmds) + 1
  <2>1. GetErr(d) = "end"
    BY <1>4, <1>10, <1>1 DEF GetErr
  <2>2. \A q \in Places(c) : q < At(d)
    BY <1>1, <1>6, <1>7, <1>10
  <2>3. \A q \in Places(c) : q <= At(c)
    BY <1>1, <1>6, <1>7, <1>8, <2>2, <1>10
  <2> HIDE DEF d
  <2>4. GoesForward(c, d)
    BY <2>1, <2>2, <2>3, <1>4 DEF GoesForward
  <2> QED
    BY <2>4, <1>4, <1>5 DEF d
<1> QED
  BY <1>1, <1>2, <1>9, <1>10

\* ... in the shared part with that of the database, and from the end of the one into the
\* other.
LEMMA NextGoesForward ==
    ASSUME HistOK, NEW c, CursorInv(c), NEW fails \in BOOLEAN
    PROVE  \/ HybridNext(c, fails) = c
           \/ /\ CursorInv(HybridNext(c, fails)) /\ SameView(c, HybridNext(c, fails))
              /\ GoesForward(c, HybridNext(c, fails))
<1>1. CASE ~c.useShared
  BY <1>1, SessionGoesForward DEF HybridNext
<1>2. CASE c.useShared
  <2> DEFINE d == DbNext(c, fails)
             n == [d EXCEPT !.useShared = FALSE, !.index = MemNext(d)]
             S == {q \in Matching(c) : q > c.seq}
  <2>1. /\ c \in Cursors /\ CursorOK(c) /\ c.upper \in Nat /\ c.upper <= sequence + 1 /\ c.seq <= c.upper
        /\ c.seq \in Int /\ c.seq >= -1 /\ c.cmds \in Seq(Texts) /\ Len(c.cmds) \in Nat
    BY HistAssumption DEF CursorInv, CursorOK, Cursors
  <2>2. c.shared /\ c.index = 0
    BY <1>2, Zenon DEF CursorInv
  <2>3. CursorOK(d)
    BY <2>1, DbStepsOK DEF HistOK
  <2>4. /\ d.useShared = TRUE /\ d.index = 0 /\ d.upper = c.upper /\ d.shared = c.shared
        /\ d.cmds = c.cmds /\ d.prefix = c.prefix /\ SameView(c, d)
    BY <1>2, <2>1, <2>2 DEF DbNext, Found, NotFound, Cursors, SameView
  <2>5. HybridNext(c, fails) = (IF d.err = "end" THEN n ELSE d)
    BY <1>2 DEF HybridNext
  <2>6. Matching(c) \in SUBSET (1..sequence) /\ sequence \in Nat
    BY DEF HistOK, TypeOK, Matching
  <2>7. At(c) = c.seq /\ At(d) = d.seq
    BY <1>2, <2>4 DEF At
  <2>8. ASSUME d.err = "nil" => d.seq >= 0, d.err # "end"
        PROVE  CursorInv(d)
    <3>1. d.shared /\ d.upper <= sequence + 1
      BY <2>1, <2>2, <2>4
    <3> QED
      BY <3>1, <2>3, <2>4, <2>8, Zenon DEF CursorInv
  <2>9. CASE c.seq < c.upper /\ fails
    <3>1. d = [c EXCEPT !.err = "db"]
      BY <2>9, <2>1 DEF DbNext
    <3>2. d.err = "db" /\ d.seq = c.seq
      BY <3>1, <2>1 DEF Cursors
    <3>3. GetErr(d) = "db"
      BY <3>2, <2>4 DEF GetErr
    <3> HIDE DEF d
    <3>4. GoesForward(c, d)
      BY <3>2, <3>3, <2>7 DEF GoesForward
    <3> QED
      BY <3>2, <3>4, <2>4, <2>5, <2>8
  <2>10. CASE c.seq < c.upper /\ ~fails /\ S # {} /\ ~(Min(S) >= c.upper)
    <3>1. d = Found(c, Min(S))
      BY <2>10, <2>1 DEF DbNext
    <3>2. d.err = "nil" /\ d.seq = Min(S) /\ d.text = cmds[Min(S)]
      BY <3>1, <2>1 DEF Found, Cursors
    <3>3. Min(S) \in S /\ \A q \in S : Min(S) <= q
      <4>1. S \in SUBSET Nat
        BY <2>6
      <4> HIDE DEF S
      <4> QED
        BY <4>1, <2>10, MinOfNats
    <3>4. Min(S) \in Matching(c) /\ Min(S) > c.seq /\ Min(S) \in Nat /\ Min(S) < c.upper
      <4>1. Min(S) \in Matching(c) /\ Min(S) > c.seq
        BY <3>3
      <4>2. Min(S) \in Nat
        BY <4>1, <2>6
      <4> HIDE DEF S
      <4> QED
        BY <4>1, <4>2, <2>1, <2>10
    <3>5. \A q \in Places(c) : q > c.seq => q >= Min(S)
      <4>1. \A q \in Places(c) : q \in Nat /\ (q \in Matching(c) \/ q > c.upper)
        BY <2>1, <2>6 DEF Places
      <4> QED
        BY <4>1, <3>3, <3>4, <2>1
    <3>6. GetErr(d) = "nil" /\ GetText(d) = cmds[Min(S)]
      BY <3>2, <2>4 DEF GetErr, GetText
    <3> HIDE DEF S, d
    <3>7. Min(S) \in Places(c) /\ TextAt(c, Min(S)) = cmds[Min(S)]
      BY <3>4, <2>2 DEF Places, TextAt
    <3>8. GoesForward(c, d)
      BY <3>2, <3>4, <3>5, <3>6, <3>7, <2>7 DEF GoesForward
    <3>9. d.err # "end" /\ CursorInv(d)
      BY <3>2, <3>4, <2>8
    <3> QED
      BY <3>8, <3>9, <2>4, <2>5
  <2>11. CASE c.seq >= c.upper /\ c.err # "end"
    <3>1. d = c
      BY <2>11 DEF DbNext
    <3> QED
      BY <3>1, <2>5, <2>11
  <2>12. CASE \/ c.seq >= c.upper /\ c.err = "end"
              \/ c.seq < c.upper /\ ~fails /\ (S = {} \/ Min(S) >= c.upper)
    <3>1. d.err = "end" /\ d.seq = c.upper
      <4>1. CASE c.seq >= c.upper /\ c.err = "end"
        BY <4>1, <2>1 DEF DbNext
      <4>2. CASE c.seq < c.upper /\ ~fails /\ (S = {} \/ Min(S) >= c.upper)
        <5>1. d = NotFound(c, c.upper)
          BY <4>2, <2>1 DEF DbNext
        <5> QED
          BY <5>1, <2>1 DEF NotFound, Cursors
      <4> QED
        BY <2>12, <4>1, <4>2
    <3>2. \A q \in Places(c) : q <= c.seq \/ q > c.upper
      <4>1. \A q \in Places(c) : q \in Nat /\ ((q \in Matching(c) /\ q < c.upper) \/ q > c.upper)
        BY <2>1, <2>6 DEF Places
      <4>2. CASE c.seq >= c.upper
        BY <4>1, <4>2, <2>1
      <4>3. CASE S = {}
        BY <4>1, <4>3, <2>1
      <4>4. CASE S # {} /\ Min(S) >= c.upper
        <5>1. S \in SUBSET Nat
          BY <2>6
        <5>2. \A q \in S : Min(S) <= q /\ Min(S) \in Nat
          <6> HIDE DEF S
          <6> QED
            BY <5>1, <4>4, MinOfNats
        <5>3. \A q \in Matching(c) : q > c.seq => q >= Min(S) /\ Min(S) \in Nat
          BY <5>2, <2>6
        <5> HIDE DEF S
        <5>4. ASSUME NEW q \in Places(c), q < c.upper PROVE q <= c.seq
          BY <4>1, <4>4, <5>3, <5>4, <2>1
        <5> QED
          BY <4>1, <5>4, <2>1
      <4> QED
        BY <2>12, <4>2, <4>3, <4>4
    <3> DEFINE m == [d EXCEPT !.useShared = FALSE]
    <3>3. /\ m.useShared = FALSE /\ m.index = 0 /\ m.upper = c.upper /\ m.shared = c.shared
          /\ m.cmds = c.cmds /\ m.prefix = c.prefix /\ m.seq = c.upper
      BY <2>3, <2>4, <3>1 DEF CursorOK, Cursors
    <3>4. n = [m EXCEPT !.index = MemNext(m)] /\ CursorOK(m)
      <4>1. MemNext(m) = MemNext(d)
        BY <2>4, <3>3 DEF MemNext
      <4>2. CursorOK(m)
        BY <2>3, SwitchedOK
      <4> QED
        BY <4>1, <4>2, <2>3 DEF CursorOK, Cursors
    <3> HIDE DEF m, d, n, S
    <3>5. /\ MemNext(m) \in 1..Len(c.cmds) + 1
          /\ MemNext(m) <= Len(c.cmds) => c.cmds[MemNext(m)] \in c.prefix
          /\ \A i \in 1..Len(c.cmds) : i > 0 /\ c.cmds[i] \in c.prefix => i >= MemNext(m)
      BY <3>3, <3>4, MemGoesForward
    <3>6. CursorOK(n)
      <4>1. MemNext(m) \in 0..Len(m.cmds) + 1
        BY <3>3, <3>5, <2>1
      <4> QED
        BY <4>1, <3>4, MovedOK
    <3>7. /\ n.useShared = FALSE /\ n.index = MemNext(m) /\ n.upper = c.upper /\ n.shared = c.shared
          /\ n.cmds = c.cmds /\ n.prefix = c.prefix /\ n.seq = c.upper
      BY <3>3, <3>4 DEF CursorOK, Cursors
    <3>8. CursorInv(n)
      <4>1. n.index > 0 /\ (n.index \in 1..Len(n.cmds) => n.cmds[n.index] \in n.prefix) /\ n.upper <= sequence + 1
        BY <3>5, <3>7, <2>1
      <4> QED
        BY <3>6, <3>7, <4>1 DEF CursorInv
    <3>9. SameView(c, n)
      BY <3>7 DEF SameView
    <3>10. At(n) = c.upper + MemNext(m)
      BY <3>7 DEF At
    <3>11. \A q \in Places(c) : /\ q \in Nat
                                /\ q < c.upper \/ (q - c.upper \in 1..Len(c.cmds) /\ c.cmds[q - c.upper] \in c.prefix)
      BY <2>1, <2>6 DEF Places
    <3>12. \A q \in Places(c) : q > At(c) => q >= At(n)
      <4> TAKE q \in Places(c)
      <4> HAVE q > At(c)
      <4>1. q \in Nat /\ q > c.upper
        BY <3>2, <3>11, <2>1, <2>7
      <4>2. q - c.upper \in 1..Len(c.cmds) /\ c.cmds[q - c.upper] \in c.prefix
        BY <4>1, <3>11, <2>1
      <4>3. q - c.upper >= MemNext(m)
        BY <4>2, <3>5
      <4> QED
        BY <4>1, <4>3, <3>5, <3>10, <2>1
    <3>13. CASE MemNext(m) <= Len(c.cmds)
      <4>1. GetErr(n) = "nil" /\ GetText(n) = c.cmds[MemNext(m)]
        BY <3>5, <3>7, <3>13, <2>1 DEF GetErr, GetText
      <4>2. At(n) \in Places(c) /\ TextAt(c, At(n)) = c.cmds[MemNext(m)] /\ At(n) > At(c)
        BY <3>5, <3>10, <3>13, <2>1, <2>7 DEF Places, TextAt
      <4>3. GoesForward(c, n)
        BY <4>1, <4>2, <3>12 DEF GoesForward
      <4> QED
        BY <4>3, <3>1, <3>8, <3>9, <2>5
    <3>14. CASE MemNext(m) = Len(c.cmds) + 1
      <4>1. GetErr(n) = "end"
        BY <3>7, <3>14, <2>1 DEF GetErr
      <4>2. \A q \in Places(c) : q < At(n)
        BY <3>10, <3>11, <3>14, <2>1
      <4>3. \A q \in Places(c) : q <= At(c)
        BY <3>10, <3>11, <3>12, <3>14, <4>2, <2>1, <2>7
      <4>4. GoesForward(c, n)
        BY <4>1, <4>2, <4>3, <3>7 DEF GoesForward
      <4> QED
        BY <4>4, <3>1, <3>8, <3>9, <2>5
    <3> QED
      BY <3>5, <3>13, <3>14, <2>1
  <2> QED
    BY <2>1, <2>9, <2>10, <2>11, <2>12
<1> QED
  BY <1>1, <1>2

\* What others add to the history is not part of the view of a cursor.
LEMMA ViewStays ==
    ASSUME HistOK, CursorInv(cursor), SameView(cursor, cursor'),
           (\E t \in Texts : Put(t)) \/ UNCHANGED dbVars
    PROVE  Commands(cursor)' = Commands(cursor) /\ sequence' >= sequence /\ sequence' \in Nat
<1>1. /\ sequence \in Nat /\ DOMAIN cmds \subseteq 1..sequence
      /\ cursor.upper \in Nat /\ cursor.upper <= sequence + 1
      /\ cursor.cmds \in Seq(Texts) /\ Len(cursor.cmds) \in Nat
  BY HistAssumption, SMTT(30) DEF HistOK, TypeOK, CursorInv, CursorOK, Cursors
<1>2. /\ cursor'.prefix = cursor.prefix /\ cursor'.shared = cursor.shared
      /\ cursor'.upper = cursor.upper /\ cursor'.cmds = cursor.cmds
  BY DEF SameView
<1>3. /\ sequence' >= sequence /\ sequence' \in Nat
      /\ \A q : q < cursor.upper => /\ q \in DOMAIN cmds' <=> q \in DOMAIN cmds
                                    /\ q \in DOMAIN cmds => cmds'[q] = cmds[q]
  <2>1. CASE UNCHANGED dbVars
    BY <2>1, <1>1 DEF dbVars
  <2>2. CASE \E t \in Texts : Put(t)
    <3>1. PICK t \in Texts : Put(t)
      BY <2>2
    <3>2. /\ sequence' = sequence + 1
          /\ cmds' = [q \in DOMAIN cmds \cup {sequence + 1} |-> IF q = sequence + 1 THEN t ELSE cmds[q]]
      BY <3>1 DEF Put
    <3>3. \A q : q < cursor.upper => q # sequence + 1
      BY <1>1
    <3>4. \A q \in DOMAIN cmds : q # sequence + 1
      BY <1>1
    <3> QED
      BY <3>2, <3>3, <3>4, <1>1
  <2> QED
    BY <2>1, <2>2
<1>4. Places(cursor)' = Places(cursor)
  <2>1. {q \in Matching(cursor)' : q < cursor.upper} = {q \in Matching(cursor) : q < cursor.upper}
    BY <1>2, <1>3 DEF Matching
  <2>2. {q \in Matching(cursor)' : cursor'.shared /\ q < cursor'.upper}
          = {q \in Matching(cursor) : cursor.shared /\ q < cursor.upper}
    BY <1>2, <2>1
  <2> QED
    BY <1>2, <2>2 DEF Places
<1>5. \A q \in Places(cursor) : TextAt(cursor, q)' = TextAt(cursor, q)
  <2>1. \A q \in Places(cursor) : q < cursor.upper => q \in DOMAIN cmds
    BY <1>1 DEF Places, Matching
  <2> QED
    BY <1>2, <1>3, <2>1 DEF TextAt
<1> QED
  BY <1>3, <1>4, <1>5 DEF Commands, TextAt


\* What the refinement mapping makes of a cursor, in terms of where it is.
LEMMA Mapping ==
    ASSUME HistOK, NEW c, CursorInv(c)
    PROVE  /\ Places(c) \subseteq Nat /\ At(c) \in Int
           /\ DOMAIN Commands(c) = Places(c) /\ \A q \in Places(c) : Commands(c)[q] = TextAt(c, q)
           /\ Before(c) = {q \in Places(c) : q < At(c)}
           /\ On(c) \in BOOLEAN /\ (On(c) <=> At(c) \in Places(c))
<1>1. /\ c \in Cursors /\ c.upper \in Nat /\ c.seq \in Int /\ c.seq <= c.upper /\ c.index \in Nat
      /\ c.cmds \in Seq(Texts) /\ Len(c.cmds) \in Nat /\ Matching(c) \in SUBSET Nat
  BY HistAssumption, SMTT(30) DEF HistOK, TypeOK, Matching, CursorInv, CursorOK, Cursors
<1>2. Places(c) \subseteq Nat
  BY <1>1 DEF Places
<1>3. At(c) \in Int
  BY <1>1 DEF At
<1>4. DOMAIN Commands(c) = Places(c) /\ \A q \in Places(c) : Commands(c)[q] = TextAt(c, q)
  BY DEF Commands, TextAt
<1>5. On(c) \in BOOLEAN
  <2>1. CASE c.useShared
    BY <2>1 DEF On
  <2>2. CASE ~c.useShared
    BY <2>2 DEF On
  <2> QED
    BY <2>1, <2>2
<1>6. CASE c.useShared
  <2>1. c.shared
    BY <1>6, Zenon DEF CursorInv
  <2>2. At(c) = c.seq /\ Before(c) = {q \in Matching(c) : q < c.seq} /\ (On(c) <=> c.seq \in Places(c))
    BY <1>6 DEF At, Before, On
  <2>3. {q \in Matching(c) : q < c.seq} = {q \in Places(c) : q < c.seq}
    BY <1>1, <2>1 DEF Places
  <2> QED
    BY <1>2, <1>3, <1>4, <1>5, <2>2, <2>3
<1>7. CASE ~c.useShared
  <2>1. /\ At(c) = c.upper + c.index /\ Before(c) = {q \in Places(c) : q < c.upper + c.index}
        /\ On(c) <=> c.index \in 1..Len(c.cmds)
    BY <1>7 DEF At, Before, On
  <2>2. c.index \in 1..Len(c.cmds) => c.cmds[c.index] \in c.prefix
    BY <1>7, Zenon DEF CursorInv
  <2>3. c.upper + c.index \in Places(c) <=> c.index \in 1..Len(c.cmds)
    BY <1>1, <2>2, SMTT(30) DEF Places
  <2> QED
    BY <1>2, <1>3, <1>4, <1>5, <2>1, <2>3
<1> QED
  BY <1>6, <1>7

\* What a cursor over the same view shows of itself in the next state, if the database has
\* not changed.
LEMMA MappingOfNext ==
    ASSUME HistOK, CursorInv(cursor), NEW d, CursorInv(d), SameView(cursor, d), cursor' = d, UNCHANGED dbVars
    PROVE  /\ CursorInv(cursor)'
           /\ Places(d) = Places(cursor) /\ Commands(cursor)' = Commands(cursor)
           /\ Before(cursor)' = {q \in Places(cursor) : q < At(d)}
           /\ On(cursor)' = On(d) /\ Got(cursor)' = Got(d)
<1>1. sequence' = sequence /\ cmds' = cmds
  BY DEF dbVars
<1>2. CursorInv(cursor)'
  BY <1>1 DEF CursorInv, CursorOK
<1>3. Places(d) = Places(cursor)
  BY DEF SameView, Places, Matching
<1>4. Commands(cursor)' = Commands(cursor)
  BY ViewStays
<1>5. Before(cursor)' = Before(d) /\ On(cursor)' = On(d) /\ Got(cursor)' = Got(d)
  BY <1>1 DEF Before, On, Got, GetErr, GetText, Places, Matching
<1>6. Before(d) = {q \in Places(d) : q < At(d)}
  BY Mapping
<1> QED
  BY <1>2, <1>3, <1>4, <1>5, <1>6

\* Where a call that fails leaves the cursor.
LEMMA FailIsFail ==
    ASSUME HistOK, CursorInv(cursor), NEW d, CursorInv(d), SameView(cursor, d), cursor' = d, UNCHANGED dbVars,
           GetErr(d) = "db", \A q \in Places(cursor) : q >= At(d) <=> q >= At(cursor),
           At(d) \in Places(cursor) => At(cursor) \in Places(cursor)
    PROVE  View!Fail
<1>1. /\ Places(d) = Places(cursor) /\ Commands(cursor)' = Commands(cursor)
      /\ Before(cursor)' = {q \in Places(cursor) : q < At(d)}
      /\ On(cursor)' = On(d) /\ Got(cursor)' = Got(d)
  BY MappingOfNext
<1>2. /\ Places(cursor) \subseteq Nat /\ At(cursor) \in Int
      /\ Before(cursor) = {q \in Places(cursor) : q < At(cursor)}
      /\ On(cursor) \in BOOLEAN /\ (On(cursor) <=> At(cursor) \in Places(cursor))
  BY Mapping
<1>3. At(d) \in Int /\ On(d) \in BOOLEAN /\ (On(d) <=> At(d) \in Places(cursor))
  BY <1>1, Mapping
<1>4. Before(cursor)' = Before(cursor)
  BY <1>1, <1>2, <1>3
<1>5. On(d) = On(cursor) \/ On(d) = FALSE
  BY <1>2, <1>3, Zenon
<1>6. Got(cursor)' = <<"db">>
  BY <1>1 DEF Got
<1> QED
  BY <1>1, <1>4, <1>5, <1>6 DEF View!Fail

\* A Prev of the cursor is a Prev, or fails, or does nothing.
LEMMA PrevIsPrev ==
    ASSUME HistOK, CursorInv(cursor), NEW fails \in BOOLEAN, Prev(fails)
    PROVE  CursorInv(cursor)' /\ View!Step
<1> DEFINE d == HybridPrev(cursor, fails)
<1>1. cursor' = d /\ UNCHANGED dbVars
  BY DEF Prev
<1>2. CursorInv(d) /\ SameView(cursor, d) /\ GoesBack(cursor, d)
  BY PrevGoesBack
<1> HIDE DEF d
<1>3. /\ CursorInv(cursor)'
      /\ Places(d) = Places(cursor) /\ Commands(cursor)' = Commands(cursor)
      /\ Before(cursor)' = {q \in Places(cursor) : q < At(d)}
      /\ On(cursor)' = On(d) /\ Got(cursor)' = Got(d)
  BY <1>1, <1>2, MappingOfNext
<1>4. /\ Places(cursor) \subseteq Nat /\ At(cursor) \in Int
      /\ \A q \in Places(cursor) : Commands(cursor)[q] = TextAt(cursor, q)
      /\ Before(cursor) = {q \in Places(cursor) : q < At(cursor)}
  BY Mapping
<1>5. At(d) \in Int /\ On(d) \in BOOLEAN /\ (On(d) <=> At(d) \in Places(cursor))
  BY <1>2, <1>3, Mapping
<1>6. GetErr(d) \in {"nil", "end", "db"}
  BY <1>2, GetOK DEF CursorInv
<1>7. CASE GetErr(d) = "nil"
  <2>1. /\ At(d) \in Places(cursor) /\ At(d) < At(cursor) /\ GetText(d) = TextAt(cursor, At(d))
        /\ \A q \in Places(cursor) : q < At(cursor) => q <= At(d)
    BY <1>2, <1>7 DEF GoesBack
  <2>2. At(d) \in View!Newest(Before(cursor))
    BY <2>1, <1>4 DEF View!Newest
  <2>3. Before(cursor)' = Before(cursor) \ {At(d)}
    BY <2>1, <1>3, <1>4, <1>5
  <2>4. On(cursor)' = TRUE
    BY <2>1, <1>3, <1>5, Zenon
  <2>5. Got(cursor)' = <<"nil", Commands(cursor)[At(d)]>>
    BY <2>1, <1>3, <1>4, <1>7 DEF Got
  <2>6. View!Prev
    BY <2>2, <2>3, <2>4, <2>5, <1>3, Zenon DEF View!Prev
  <2> QED
    BY <2>6, <1>3 DEF View!Step
<1>8. CASE GetErr(d) = "end"
  <2>1. /\ \A q \in Places(cursor) : q >= At(d) <=> q >= At(cursor)
        /\ \A q \in Places(cursor) : q >= At(cursor)
    BY <1>2, <1>8 DEF GoesBack
  <2>2. Before(cursor) = {} /\ Before(cursor)' = {}
    BY <2>1, <1>3, <1>4, <1>5
  <2>3. On(cursor)' = FALSE
    <3>1. At(d) \notin Places(cursor)
      <4>1. CASE d.useShared
        <5>1. d.err = "end" /\ At(d) = d.seq
          BY <4>1, <1>8 DEF GetErr, At
        <5>2. d.seq = -1 \/ d.seq = d.upper
          BY <4>1, <5>1, <1>2, Zenon DEF CursorInv
        <5>3. d.upper = cursor.upper
          BY <1>2 DEF SameView
        <5>4. cursor.upper \in Nat /\ cursor.cmds \in Seq(Texts) /\ Len(cursor.cmds) \in Nat
          BY HistAssumption DEF CursorInv, CursorOK, Cursors
        <5>5. -1 \notin Places(cursor) /\ cursor.upper \notin Places(cursor)
          BY <5>4, <1>4 DEF Places
        <5> QED
          BY <5>1, <5>2, <5>3, <5>5
      <4>2. CASE ~d.useShared
        <5>1. ~On(d)
          BY <4>2, <1>8 DEF GetErr, On
        <5> QED
          BY <5>1, <1>5, Zenon
      <4> QED
        BY <4>1, <4>2
    <3> QED
      BY <3>1, <1>3, <1>5, Zenon
  <2>4. Got(cursor)' = <<"end">>
    BY <1>3, <1>8 DEF Got
  <2>5. View!Prev
    BY <2>2, <2>3, <2>4, <1>3, Zenon DEF View!Prev
  <2> QED
    BY <2>5, <1>3 DEF View!Step
<1>9. CASE GetErr(d) = "db"
  <2>1. /\ \A q \in Places(cursor) : q >= At(d) <=> q >= At(cursor)
        /\ At(d) \in Places(cursor) => At(cursor) \in Places(cursor)
    BY <1>2, <1>9 DEF GoesBack
  <2>2. View!Fail
    BY <2>1, <1>1, <1>2, <1>9, FailIsFail
  <2> QED
    BY <2>2, <1>3 DEF View!Step
<1> QED
  BY <1>6, <1>7, <1>8, <1>9

\* A Next of the cursor is a Next, or fails, or does nothing.
LEMMA NextIsNext ==
    ASSUME HistOK, CursorInv(cursor), NEW fails \in BOOLEAN, Next(fails)
    PROVE  CursorInv(cursor)' /\ (View!Step \/ UNCHANGED View!viewVars)
<1> DEFINE d == HybridNext(cursor, fails)
<1>1. cursor' = d /\ UNCHANGED dbVars
  BY DEF Next
<1>2. d = cursor \/ (CursorInv(d) /\ SameView(cursor, d) /\ GoesForward(cursor, d))
  BY NextGoesForward
<1> HIDE DEF d
<1>3. CASE d = cursor
  BY <1>1, <1>3 DEF dbVars, CursorInv, CursorOK, View!viewVars, Commands, Before, On, Got, GetErr, GetText, Places, Matching
<1>4. CASE CursorInv(d) /\ SameView(cursor, d) /\ GoesForward(cursor, d)
  <2>1. /\ CursorInv(cursor)'
        /\ Places(d) = Places(cursor) /\ Commands(cursor)' = Commands(cursor)
        /\ Before(cursor)' = {q \in Places(cursor) : q < At(d)}
        /\ On(cursor)' = On(d) /\ Got(cursor)' = Got(d)
    BY <1>1, <1>4, MappingOfNext
  <2>2. /\ Places(cursor) \subseteq Nat /\ At(cursor) \in Int /\ DOMAIN Commands(cursor) = Places(cursor)
        /\ \A q \in Places(cursor) : Commands(cursor)[q] = TextAt(cursor, q)
        /\ Before(cursor) = {q \in Places(cursor) : q < At(cursor)}
        /\ On(cursor) \in BOOLEAN /\ (On(cursor) <=> At(cursor) \in Places(cursor))
    BY Mapping
  <2>3. At(d) \in Int /\ On(d) \in BOOLEAN /\ (On(d) <=> At(d) \in Places(cursor))
    BY <1>4, <2>1, Mapping
  <2>4. GetErr(d) \in {"nil", "end", "db"}
    BY <1>4, GetOK DEF CursorInv
  <2> DEFINE passed == {q \in Places(cursor) : q <= At(cursor)}
  <2>5. passed = Before(cursor) \cup (IF On(cursor) THEN View!Oldest(DOMAIN Commands(cursor) \ Before(cursor)) ELSE {})
    <3>1. CASE On(cursor)
      <4>1. View!Oldest(Places(cursor) \ Before(cursor)) = {At(cursor)}
        BY <2>2, <3>1 DEF View!Oldest
      <4> QED
        BY <2>2, <3>1, <4>1
    <3>2. CASE ~On(cursor)
      <4>1. passed = Before(cursor)
        BY <2>2, <3>2
      <4> HIDE DEF passed
      <4> QED
        BY <3>2, <4>1
    <3> QED
      BY <3>1, <3>2
  <2>6. CASE GetErr(d) = "nil"
    <3>1. /\ At(d) \in Places(cursor) /\ At(d) > At(cursor) /\ GetText(d) = TextAt(cursor, At(d))
          /\ \A q \in Places(cursor) : q > At(cursor) => q >= At(d)
      BY <1>4, <2>6 DEF GoesForward
    <3>2. Before(cursor)' = passed
      BY <3>1, <2>1, <2>2, <2>3
    <3>3. At(d) \in View!Oldest(DOMAIN Commands(cursor) \ passed)
      BY <3>1, <2>2, <2>3 DEF View!Oldest
    <3> HIDE DEF passed
    <3>4. On(cursor)' = TRUE
      BY <3>1, <2>1, <2>3, Zenon
    <3>5. Got(cursor)' = <<"nil", Commands(cursor)[At(d)]>>
      BY <3>1, <2>1, <2>2, <2>6 DEF Got
    <3>6. View!Next
      BY <3>2, <3>3, <3>4, <3>5, <2>1, <2>5, Zenon DEF View!Next
    <3> QED
      BY <3>6, <2>1 DEF View!Step
  <2>7. CASE GetErr(d) = "end"
    <3>1. ~d.useShared /\ \A q \in Places(cursor) : q <= At(cursor) /\ q < At(d)
      BY <1>4, <2>7 DEF GoesForward
    <3>2. Before(cursor)' = passed /\ passed = Places(cursor)
      BY <3>1, <2>1
    <3>3. On(cursor)' = FALSE
      <4>1. ~On(d)
        BY <3>1, <2>7 DEF GetErr, On
      <4> QED
        BY <4>1, <2>1, <2>3, Zenon
    <3>4. Got(cursor)' = <<"end">>
      BY <2>1, <2>7 DEF Got
    <3> HIDE DEF passed
    <3>5. View!Next
      BY <3>2, <3>3, <3>4, <2>1, <2>2, <2>5, Zenon DEF View!Next
    <3> QED
      BY <3>5, <2>1 DEF View!Step
  <2>8. CASE GetErr(d) = "db"
    <3>1. At(d) = At(cursor)
      BY <1>4, <2>8 DEF GoesForward
    <3>2. View!Fail
      BY <3>1, <1>1, <1>4, <2>8, FailIsFail
    <3> QED
      BY <3>2, <2>1 DEF View!Step
  <2> QED
    BY <2>4, <2>6, <2>7, <2>8
<1> QED
  BY <1>2, <1>3, <1>4


\* A new cursor is past all commands of its view, which is a list.
LEMMA OpenIsOpen ==
    ASSUME HistOK, NEW p \in Searches, Open(p)
    PROVE  CursorInv(NewCursor(p)) /\ CursorInv(cursor)' /\ View!Step
<1> DEFINE c == NewCursor(p)
<1>1. /\ session \in Seq(Texts) /\ Len(session) \in Nat /\ p \subseteq Texts
      /\ sequence \in Nat /\ upper \in Nat /\ upper <= sequence + 1
      /\ Matching(c) \in SUBSET Nat /\ \A q \in Matching(c) : cmds[q] \in Texts
  BY HistAssumption DEF HistOK, TypeOK, Matching
<1>2. /\ c.useShared = FALSE /\ c.upper = upper /\ c.seq = upper /\ c.prefix = p
      /\ c.cmds = session /\ c.index = Len(session) + 1
  BY DEF NewCursor
<1>3. CursorOK(c)
  BY NewCursorOK
<1>4. CursorInv(c)
  <2>1. c.index > 0 /\ c.upper <= sequence + 1 /\ c.index \notin 1..Len(c.cmds)
    BY <1>1, <1>2
  <2> QED
    BY <1>2, <1>3, <2>1, Zenon DEF CursorInv
<1>5. cursor' = c /\ sequence' = sequence /\ cmds' = cmds
  BY DEF Open, dbVars
<1> HIDE DEF c
<1>6. CursorInv(cursor)'
  BY <1>4, <1>5 DEF CursorInv, CursorOK
<1>7. /\ Commands(cursor)' = Commands(c) /\ Before(cursor)' = Before(c)
      /\ On(cursor)' = On(c) /\ Got(cursor)' = Got(c)
  BY <1>5 DEF Commands, Before, On, Got, GetErr, GetText, Places, Matching
<1>8. /\ Places(c) \subseteq Nat /\ DOMAIN Commands(c) = Places(c)
      /\ \A q \in Places(c) : Commands(c)[q] = TextAt(c, q)
      /\ Before(c) = {q \in Places(c) : q < At(c)}
  BY <1>4, Mapping
<1>9. At(c) = upper + Len(session) + 1
  BY <1>1, <1>2 DEF At
<1>10. \A q \in Places(c) : q < At(c)
  BY <1>1, <1>2, <1>8, <1>9 DEF Places
<1>11. Before(c) = Places(c)
  BY <1>8, <1>10
<1>12. On(c) = FALSE /\ Got(c) = <<"end">>
  BY <1>1, <1>2 DEF On, Got, GetErr
<1>13. \A q \in Places(c) : Commands(c)[q] \in Texts
  <2>1. ASSUME NEW q \in Places(c) PROVE TextAt(c, q) \in Texts
    <3>1. CASE q \in Matching(c) /\ q < upper
      BY <3>1, <1>1, <1>2 DEF TextAt
    <3>2. CASE q \in upper + 1 .. upper + Len(session)
      <4>1. q - upper \in 1..Len(session) /\ ~(q < upper)
        BY <3>2, <1>1
      <4> QED
        BY <4>1, <1>1, <1>2 DEF TextAt
    <3> QED
      BY <2>1, <3>1, <3>2, <1>2 DEF Places
  <2> QED
    BY <2>1, <1>8
<1>14. IsFiniteSet(Places(c))
  <2>1. Places(c) \subseteq 0..upper + Len(session) + 1
    BY <1>1, <1>8, <1>9, <1>10
  <2>2. IsFiniteSet(0..upper + Len(session) + 1)
    BY <1>1, FS_Interval
  <2> QED
    BY <2>1, <2>2, FS_Subset
<1>15. View!Open
  <2>1. DOMAIN (Commands(cursor)') = Places(c)
    BY <1>7, <1>8
  <2>2. \A q \in DOMAIN (Commands(cursor)') : (Commands(cursor)')[q] \in Texts
    BY <1>7, <1>13, <2>1
  <2>3. Before(cursor)' = DOMAIN (Commands(cursor)') /\ On(cursor)' = FALSE /\ Got(cursor)' = <<"end">>
    BY <1>7, <1>11, <1>12, <2>1
  <2>4. IsFiniteSet(DOMAIN (Commands(cursor)')) /\ DOMAIN (Commands(cursor)') \subseteq Nat
    BY <1>8, <1>14, <2>1
  <2> QED
    BY <2>2, <2>3, <2>4, Zenon DEF View!Open, View!IsFiniteSet, IsFiniteSet
<1> QED
  BY <1>4, <1>6, <1>15 DEF View!Step, c

\* If a command of the view is deleted it is gone from the list; another one is not noticed.
LEMMA DeleteIsDelete ==
    ASSUME HistOK, CursorInv(cursor), NEW n, Delete(n)
    PROVE  CursorInv(cursor)' /\ (View!Step \/ UNCHANGED View!viewVars)
<1>1. /\ cmds' = [r \in DOMAIN cmds \ {n} |-> cmds[r]] /\ cursor' = cursor /\ sequence' = sequence
      /\ n \in DOMAIN cmds
  BY DEF Delete
<1>2. CursorInv(cursor)'
  BY <1>1 DEF CursorInv, CursorOK
<1>3. /\ Places(cursor) \subseteq Nat /\ At(cursor) \in Int /\ DOMAIN Commands(cursor) = Places(cursor)
      /\ \A q \in Places(cursor) : Commands(cursor)[q] = TextAt(cursor, q)
      /\ Before(cursor) = {q \in Places(cursor) : q < At(cursor)}
      /\ On(cursor) \in BOOLEAN /\ (On(cursor) <=> At(cursor) \in Places(cursor))
  BY Mapping
<1>4. /\ cursor.upper \in Nat /\ cursor.seq \in Int /\ cursor.seq <= cursor.upper /\ cursor.index \in Nat
      /\ cursor.cmds \in Seq(Texts) /\ Len(cursor.cmds) \in Nat /\ Matching(cursor) \in SUBSET Nat
      /\ DOMAIN cmds \subseteq Nat
  BY HistAssumption DEF HistOK, TypeOK, Matching, CursorInv, CursorOK, Cursors
<1>5. Got(cursor)' = Got(cursor)
  BY <1>1 DEF Got, GetErr, GetText
<1>6. Matching(cursor)' = Matching(cursor) \ {n}
  BY <1>1 DEF Matching
<1>7. CASE n \in Matching(cursor) /\ cursor.shared /\ n < cursor.upper
  <2>1. n \in Places(cursor)
    BY <1>7 DEF Places
  <2>2. Places(cursor)' = Places(cursor) \ {n}
    <3>1. \A q \in cursor.upper + 1 .. cursor.upper + Len(cursor.cmds) : q # n
      BY <1>4, <1>7
    <3> QED
      BY <1>1, <1>6, <3>1 DEF Places
  <2>3. Commands(cursor)' = [q \in Places(cursor) \ {n} |-> Commands(cursor)[q]]
    <3>1. \A q \in Places(cursor) : q < cursor.upper => q \in DOMAIN cmds
      BY <1>4 DEF Places, Matching
    <3>2. \A q \in Places(cursor) \ {n} :
            (IF q < cursor'.upper THEN cmds'[q] ELSE cursor'.cmds[q - cursor'.upper]) = Commands(cursor)[q]
      BY <1>1, <1>3, <3>1 DEF TextAt
    <3> QED
      BY <2>2, <3>2 DEF Commands
  <2>4. Before(cursor)' = Before(cursor) \ {n}
    <3>1. CASE cursor.useShared
      BY <1>1, <1>6, <3>1 DEF Before
    <3>2. CASE ~cursor.useShared
      BY <1>1, <2>2, <3>2 DEF Before
    <3> QED
      BY <3>1, <3>2
  <2>5. On(cursor)' <=> On(cursor) /\ At(cursor) # n
    <3>1. CASE cursor.useShared
      BY <1>1, <1>3, <2>2, <3>1 DEF On, At
    <3>2. CASE ~cursor.useShared
      <4>1. At(cursor) # n
        BY <1>4, <1>7, <3>2 DEF At
      <4> QED
        BY <1>1, <3>2, <4>1 DEF On
    <3> QED
      BY <3>1, <3>2
  <2>6. On(cursor) => (n \in View!Oldest(Places(cursor) \ Before(cursor)) <=> n = At(cursor))
    BY <1>3, <2>1 DEF View!Oldest
  <2>7. On(cursor)' \in BOOLEAN
    <3>1. CASE cursor.useShared
      BY <1>1, <3>1 DEF On
    <3>2. CASE ~cursor.useShared
      BY <1>1, <3>2 DEF On
    <3> QED
      BY <3>1, <3>2
  <2>8. On(cursor)' = (On(cursor) /\ n \notin View!Oldest(DOMAIN Commands(cursor) \ Before(cursor)))
    BY <1>3, <2>5, <2>6, <2>7, Zenon
  <2>9. View!Delete(n)
    BY <1>3, <1>5, <2>3, <2>4, <2>8, Zenon DEF View!Delete
  <2>10. View!Step
    BY <1>3, <2>1, <2>9, Zenon DEF View!Step
  <2> QED
    BY <1>2, <2>10
<1>8. CASE ~(n \in Matching(cursor) /\ cursor.shared /\ n < cursor.upper)
  <2>1. {q \in Matching(cursor)' : cursor.shared /\ q < cursor.upper}
          = {q \in Matching(cursor) : cursor.shared /\ q < cursor.upper}
    BY <1>6, <1>8
  <2>2. Places(cursor)' = Places(cursor)
    BY <1>1, <2>1 DEF Places
  <2>3. Commands(cursor)' = Commands(cursor)
    <3>1. \A q \in Places(cursor) : q < cursor.upper => q \in DOMAIN cmds \ {n}
      <4>1. \A q \in Places(cursor) : q < cursor.upper => q \in Matching(cursor) /\ cursor.shared
        BY <1>4 DEF Places
      <4> QED
        BY <4>1, <1>8 DEF Matching
    <3>2. \A q \in Places(cursor) :
            (IF q < cursor'.upper THEN cmds'[q] ELSE cursor'.cmds[q - cursor'.upper])
              = (IF q < cursor.upper THEN cmds[q] ELSE cursor.cmds[q - cursor.upper])
      BY <1>1, <3>1
    <3> QED
      BY <2>2, <3>2 DEF Commands
  <2>4. Before(cursor)' = Before(cursor)
    <3>1. CASE cursor.useShared
      <4>1. cursor.shared
        BY <3>1, Zenon DEF CursorInv
      <4>2. {q \in Matching(cursor)' : q < cursor.seq} = {q \in Matching(cursor) : q < cursor.seq}
        BY <4>1, <1>4, <1>6, <1>8
      <4> QED
        BY <1>1, <3>1, <4>2 DEF Before
    <3>2. CASE ~cursor.useShared
      BY <1>1, <2>2, <3>2 DEF Before
    <3> QED
      BY <3>1, <3>2
  <2>5. On(cursor)' = On(cursor)
    BY <1>1, <2>2 DEF On
  <2> QED
    BY <1>2, <1>5, <2>3, <2>4, <2>5 DEF View!viewVars
<1> QED
  BY <1>7, <1>8

\* What is added is not noticed, whoever adds it, nor is it if the session gets a new store.
LEMMA AddIsNotNoticed ==
    ASSUME HistOK, CursorInv(cursor), cursor' = cursor, (\E t \in Texts : Put(t)) \/ UNCHANGED dbVars
    PROVE  CursorInv(cursor)' /\ UNCHANGED View!viewVars
<1>1. Commands(cursor)' = Commands(cursor) /\ sequence' >= sequence /\ sequence' \in Nat
  BY ViewStays DEF SameView
<1>2. /\ sequence \in Nat /\ cursor.upper \in Nat /\ cursor.upper <= sequence + 1
      /\ cursor.seq \in Int /\ cursor.seq <= cursor.upper
  BY HistAssumption DEF HistOK, TypeOK, CursorInv, CursorOK, Cursors
<1>3. CursorInv(cursor)'
  <2>1. cursor'.upper <= sequence' + 1
    BY <1>1, <1>2
  <2> QED
    BY <2>1, Zenon DEF CursorInv, CursorOK
<1>4. Places(cursor)' = Places(cursor)
  <2>1. DOMAIN Commands(cursor) = Places(cursor) /\ DOMAIN Commands(cursor)' = Places(cursor)'
    BY DEF Commands
  <2> QED
    BY <1>1, <2>1
<1>5. Before(cursor)' = Before(cursor)
  <2>1. CASE cursor.useShared
    <3>1. cursor.shared
      BY <2>1, Zenon DEF CursorInv
    <3>2. \A q \in Matching(cursor) \cup Matching(cursor)' : q \in Nat
      BY DEF HistOK, TypeOK, Matching, Put, dbVars
    <3>3. cursor.cmds \in Seq(Texts) /\ Len(cursor.cmds) \in Nat
      BY DEF CursorInv, CursorOK, Cursors
    <3>4. /\ \A q \in Nat : q < cursor.upper => (q \in Places(cursor) <=> q \in Matching(cursor))
          /\ \A q \in Nat : q < cursor.upper => (q \in Places(cursor)' <=> q \in Matching(cursor)')
      BY <1>2, <3>1, <3>3 DEF Places
    <3>5. {q \in Matching(cursor)' : q < cursor.seq} = {q \in Matching(cursor) : q < cursor.seq}
      BY <1>2, <1>4, <3>2, <3>4
    <3> QED
      BY <2>1, <3>5 DEF Before
  <2>2. CASE ~cursor.useShared
    BY <1>4, <2>2 DEF Before
  <2> QED
    BY <2>1, <2>2
<1>6. On(cursor)' = On(cursor) /\ Got(cursor)' = Got(cursor)
  BY <1>4 DEF On, Got, GetErr, GetText
<1> QED
  BY <1>1, <1>3, <1>5, <1>6 DEF View!viewVars

\* Every step of the session is one of the cursor's interface or changes nothing of it.
LEMMA SessionStepIsViewStep ==
    ASSUME HistOK, CursorInv(cursor), [MCNext]_sessionVars
    PROVE  CursorInv(cursor)' /\ (View!Step \/ UNCHANGED View!viewVars)
<1>1. \/ StoreStep
      \/ \E p \in Searches : Open(p)
      \/ \E fails \in BOOLEAN : Prev(fails) \/ Next(fails)
      \/ UNCHANGED vars
  <2>1. ASSUME WalkNextState
        PROVE  \/ StoreStep
               \/ \E p \in Searches : Open(p)
               \/ \E fails \in BOOLEAN : Prev(fails)
               \/ UNCHANGED vars
    BY <2>1, Zenon DEF WalkNextState, Elsewhere, StoreStep, Start, PrevStep, WalkPrev, WalkNext, Leave
  <2> QED
    BY <2>1 DEF MCNext, sessionVars, allVars, PromptStep, HighlighterStep, RpcStep, WalkStep, CursorStep, CursorNext
<1>2. CASE StoreStep
  <2>1. CASE \E q \in 1..MaxSeq : Delete(q)
    BY <2>1, DeleteIsDelete
  <2>2. CASE ~\E q \in 1..MaxSeq : Delete(q)
    <3>1. cursor' = cursor /\ ((\E t \in Texts : Put(t)) \/ UNCHANGED dbVars)
      BY <1>2, <2>2, Zenon DEF StoreStep, AddOther, AddOwn, FastForward
    <3> QED
      BY <3>1, AddIsNotNoticed
  <2> QED
    BY <2>1, <2>2
<1>3. CASE \E p \in Searches : Open(p)
  BY <1>3, OpenIsOpen
<1>4. CASE \E fails \in BOOLEAN : Prev(fails)
  BY <1>4, PrevIsPrev
<1>5. CASE \E fails \in BOOLEAN : Next(fails)
  BY <1>5, NextIsNext
<1>6. CASE UNCHANGED vars
  BY <1>6, AddIsNotNoticed DEF vars
<1> QED
  BY <1>1, <1>2, <1>3, <1>4, <1>5, <1>6

\* The history as it begins: a cursor over an empty list.
LEMMA ViewInit == MCInit => CursorInv(cursor) /\ View!Init
<1> SUFFICES ASSUME MCInit PROVE CursorInv(cursor) /\ View!Init
  OBVIOUS
<1>1. Init
  BY DEF MCInit, WalkInit
<1>2. PICK p \in Searches : cursor = NewCursor(p)
  BY <1>1 DEF Init
<1>3. sequence = 0 /\ cmds = <<>> /\ DOMAIN cmds = {} /\ shared = TRUE /\ upper = 1 /\ session = <<>> /\ faults = 0
  BY <1>1 DEF Init
<1>4. /\ cursor.useShared = FALSE /\ cursor.upper = 1 /\ cursor.seq = 1 /\ cursor.err = "end"
      /\ cursor.cmds = <<>> /\ cursor.index = 1
  BY <1>2, <1>3 DEF NewCursor
<1>5. cursor \in Cursors
  <2>1. cursor = [prefix |-> p, shared |-> TRUE, useShared |-> FALSE, upper |-> 1, seq |-> 1, text |-> NoText,
                  err |-> "end", cmds |-> <<>>, index |-> 1]
    BY <1>2, <1>3 DEF NewCursor
  <2>2. 1 \in 1..MaxSeq + 1 /\ 1 \in -1..MaxSeq + 1 /\ 1 \in 0..MaxSession + 1
    BY HistAssumption
  <2>3. <<>> \in Seq(Texts)
    OBVIOUS
  <2> QED
    BY <2>1, <2>2, <2>3 DEF Cursors
<1>6. CursorOK(cursor)
  BY <1>4, <1>5, HistAssumption DEF CursorOK
<1>7. CursorInv(cursor)
  BY <1>3, <1>4, <1>6 DEF CursorInv
<1>8. Places(cursor) = {}
  BY <1>3, <1>4 DEF Places, Matching
<1>9. Commands(cursor) = <<>> /\ Before(cursor) = {}
  BY <1>4, <1>8 DEF Commands, Before
<1>10. On(cursor) = FALSE /\ Got(cursor) = <<"end">>
  BY <1>4 DEF On, Got, GetErr
<1> QED
  BY <1>7, <1>9, <1>10 DEF View!Init

\* The cursor is where it can be, at all times.
LEMMA CursorAlways == MCSpec => [](HistOK /\ CursorInv(cursor))
<1>1. HistOK /\ CursorInv(cursor) /\ [MCNext]_sessionVars => CursorInv(cursor)'
  BY SessionStepIsViewStep
<1> QED
  BY <1>1, ViewInit, SessionSafety, HistoryAlways, PTL

\* The hybrid cursor (hybridStoreCursor over dbStoreCursor and memStoreCursor) is a cursor
\* over one list to which nothing is added, and Get returns the command of the list it is at:
\* for histories and sessions of any length, whatever other sessions add and delete, and
\* however often calls to the database fail.
THEOREM CursorImplementsView == MCSpec => ImplementsView
<1>1. HistOK /\ CursorInv(cursor) /\ [MCNext]_sessionVars => [View!Step]_(View!viewVars)
  BY SessionStepIsViewStep
<1>2. MCInit => View!Init
  BY ViewInit
<1> QED
  BY <1>1, <1>2, CursorAlways, SessionSafety, PTL DEF ImplementsView, View!Spec

-----------------------------------------------------------------------------
(* What a walk collects.                                                   *)

\* As long as no command is deleted, the commands a walk has collected are those that the
\* cursor has passed.
CollectedNewestFirst ==
    mode # "off" /\ ~deleted => NewestFirstFrom(Commands(cursor), At(cursor), stack)

\* The steps EndIsTheEnd allows.
EndAfterAll ==
    (mode \in {"starting", "prev"} /\ mode' # mode /\ reported' = "end" /\ ~deleted)
      => occ = {Commands(cursor)[q] : q \in Places(cursor)}

\* The cursor goes back to a command that is already collected, ...
LEMMA CollectSeen ==
    ASSUME NEW v, DOMAIN v \in SUBSET Nat, NEW n \in Int, NEW st \in Seq(Texts), NewestFirstFrom(v, n, st),
           NEW d \in DOMAIN v, d < n, \A q \in DOMAIN v : q < n => q <= d,
           v[d] \in {st[i] : i \in 1..Len(st)}
    PROVE  NewestFirstFrom(v, d, st)
<1>1. \A q \in DOMAIN v : q >= d <=> q >= n \/ q = d
  OBVIOUS
<1>2. {v[q] : q \in {p \in DOMAIN v : p >= d}} = {v[q] : q \in {p \in DOMAIN v : p >= n}} \cup {v[d]}
  BY <1>1
<1>3. v[d] \in {v[q] : q \in {p \in DOMAIN v : p >= n}}
  BY DEF NewestFirstFrom
<1>4. {v[q] : q \in {p \in DOMAIN v : p >= d}} = {v[q] : q \in {p \in DOMAIN v : p >= n}}
  BY <1>2, <1>3, Zenon
<1> QED
  BY <1>4 DEF NewestFirstFrom

\* ... or to one that is not: all commands with its text are older than those passed.
LEMMA CollectNew ==
    ASSUME NEW v, DOMAIN v \in SUBSET Nat, NEW n \in Int, NEW st \in Seq(Texts), NewestFirstFrom(v, n, st),
           NEW d \in DOMAIN v, d < n, \A q \in DOMAIN v : q < n => q <= d,
           v[d] \in Texts, v[d] \notin {st[i] : i \in 1..Len(st)}
    PROVE  NewestFirstFrom(v, d, Append(st, v[d]))
<1> DEFINE w == Append(st, v[d])
<1>1. /\ Len(st) \in Nat /\ Len(w) = Len(st) + 1 /\ w[Len(st) + 1] = v[d]
      /\ \A i \in 1..Len(st) : w[i] = st[i]
  OBVIOUS
<1>2. {w[i] : i \in 1..Len(w)} = {st[i] : i \in 1..Len(st)} \cup {v[d]}
  <2>1. \A i : i \in 1..Len(w) <=> i \in 1..Len(st) \/ i = Len(st) + 1
    BY <1>1
  <2> HIDE DEF w
  <2> QED
    BY <1>1, <2>1
<1>3. {v[q] : q \in {p \in DOMAIN v : p >= d}} = {v[q] : q \in {p \in DOMAIN v : p >= n}} \cup {v[d]}
  <2>1. \A q \in DOMAIN v : q >= d <=> q >= n \/ q = d
    OBVIOUS
  <2> QED
    BY <2>1
<1>4. ASSUME NEW i \in 1..Len(w), NEW j \in 1..Len(w), i < j
      PROVE  /\ w[i] # w[j]
             /\ \E p \in DOMAIN v : v[p] = w[i] /\ \A q \in DOMAIN v : v[q] = w[j] => q < p
  <2>1. i \in 1..Len(st) /\ w[i] = st[i]
    BY <1>1, <1>4
  <2>2. CASE j \in 1..Len(st)
    <3>1. w[j] = st[j]
      BY <1>1, <2>2
    <3> QED
      BY <1>4, <2>1, <2>2, <3>1 DEF NewestFirstFrom
  <2>3. CASE j = Len(st) + 1
    <3>1. w[j] = v[d] /\ st[i] # v[d]
      BY <1>1, <2>1, <2>3
    <3>2. PICK p \in DOMAIN v : p >= n /\ v[p] = st[i]
      <4>1. st[i] \in {st[k] : k \in 1..Len(st)}
        BY <2>1, Zenon
      <4>2. st[i] \in {v[q] : q \in {p \in DOMAIN v : p >= n}}
        BY <4>1 DEF NewestFirstFrom
      <4> HIDE DEF w
      <4> QED
        BY <4>2
    <3>3. \A q \in DOMAIN v : v[q] = v[d] => ~(q >= n)
      <4>1. ASSUME NEW q \in DOMAIN v, q >= n
            PROVE  v[q] \in {st[k] : k \in 1..Len(st)}
        <5>1. v[q] \in {v[r] : r \in {s \in DOMAIN v : s >= n}}
          BY <4>1, Zenon
        <5> QED
          BY <5>1, Zenon DEF NewestFirstFrom
      <4> QED
        BY <4>1, Zenon
    <3>4. \A q \in DOMAIN v : v[q] = v[d] => q < p
      BY <3>2, <3>3
    <3> QED
      BY <2>1, <3>1, <3>2, <3>4
  <2> QED
    BY <1>1, <2>2, <2>3
<1> HIDE DEF w
<1>5. NewestFirstFrom(v, d, w)
  BY <1>2, <1>3, <1>4 DEF NewestFirstFrom
<1> QED
  BY <1>5 DEF w

\* Where a call fails or there is nothing more, nothing is passed.
LEMMA CollectSame ==
    ASSUME NEW v, NEW n, NEW m, NEW st, NewestFirstFrom(v, n, st), \A q \in DOMAIN v : q >= m <=> q >= n
    PROVE  NewestFirstFrom(v, m, st)
<1>1. {p \in DOMAIN v : p >= m} = {p \in DOMAIN v : p >= n}
  OBVIOUS
<1> QED
  BY <1>1 DEF NewestFirstFrom


\* A new cursor has passed nothing.
LEMMA NewCursorPassedNone ==
    ASSUME HistOK, NEW p \in Searches, Open(p)
    PROVE  NewestFirstFrom(Commands(cursor)', At(cursor)', <<>>)
<1> DEFINE c == NewCursor(p)
<1>1. /\ session \in Seq(Texts) /\ Len(session) \in Nat /\ upper \in Nat /\ Matching(c) \in SUBSET Nat
  BY DEF HistOK, TypeOK, Matching
<1>2. c.useShared = FALSE /\ c.upper = upper /\ c.cmds = session /\ c.index = Len(session) + 1
  BY DEF NewCursor
<1>3. cursor' = c /\ cmds' = cmds
  BY DEF Open, dbVars
<1> HIDE DEF c
<1>4. Commands(cursor)' = Commands(c) /\ At(cursor)' = At(c)
  BY <1>3 DEF Commands, Places, Matching, At
<1>5. At(c) = upper + Len(session) + 1
  BY <1>1, <1>2 DEF At
<1>6. \A q \in Places(c) : ~(q >= At(c))
  BY <1>1, <1>2, <1>5 DEF Places
<1>7. DOMAIN Commands(c) = Places(c)
  BY DEF Commands
<1>8. {q \in DOMAIN Commands(c) : q >= At(c)} = {}
  BY <1>6, <1>7
<1> DEFINE v == Commands(c)
<1> HIDE DEF v
<1>9. NewestFirstFrom(v, At(c), <<>>)
  BY <1>8 DEF NewestFirstFrom, v
<1> QED
  BY <1>4, <1>9 DEF v

\* What holds of a walk between two steps: only the part of the session that is about walks
\* has one, and it has collected what the cursor has passed.
WalkInv == (part # "walk" => mode = "off") /\ CollectedNewestFirst

\* One iteration of the loop of dedupCursor.Prev collects the command the cursor goes to, if
\* it has not met its text before.
LEMMA PrevStepCollects ==
    ASSUME HistOK, WalkOK, CursorInv(cursor), WalkInv, NEW fails \in BOOLEAN, PrevStep(fails)
    PROVE  CollectedNewestFirst' /\ EndAfterAll
<1> DEFINE v == Commands(cursor)
           d == HybridPrev(cursor, fails)
<1>1. /\ mode \in {"starting", "prev"} /\ cursor' = d /\ UNCHANGED dbVars /\ deleted' = deleted
      /\ \/ GetErr(d) # "nil" /\ AfterPrev(GetErr(d), Len(stack), stack)
         \/ GetErr(d) = "nil" /\ ~Seen(GetText(d)) /\ AfterPrev("nil", Len(stack), Append(stack, GetText(d)))
         \/ GetErr(d) = "nil" /\ Seen(GetText(d)) /\ UNCHANGED walkVars
  BY DEF PrevStep, Prev
<1>2. CursorInv(cursor)
  OBVIOUS
<1>3. CursorInv(d) /\ SameView(cursor, d) /\ GoesBack(cursor, d)
  BY <1>2, PrevGoesBack
<1>6. Commands(cursor)' = v /\ At(cursor)' = At(d)
  <2>1. Commands(cursor)' = v
    BY <1>1, <1>2, <1>3, ViewStays
  <2> QED
    BY <1>1, <2>1 DEF At
<1>7. DOMAIN v = Places(cursor) /\ \A q \in Places(cursor) : v[q] = TextAt(cursor, q)
  BY DEF Commands, TextAt
<1>8. DOMAIN v \in SUBSET Nat /\ At(cursor) \in Int
  <2>1. /\ cursor.upper \in Nat /\ cursor.index \in Nat /\ cursor.seq \in Int
        /\ cursor.cmds \in Seq(Texts) /\ Len(cursor.cmds) \in Nat /\ Matching(cursor) \in SUBSET Nat
    BY <1>2, HistAssumption DEF HistOK, TypeOK, Matching, CursorInv, CursorOK, Cursors
  <2> HIDE DEF v
  <2> QED
    BY <2>1, <1>7 DEF Places, At
<1>9. stack \in Seq(Texts) /\ mode # "off"
  BY <1>1 DEF WalkOK
<1>10. CursorOK(d)
  BY <1>3 DEF CursorInv
<1>11. GetErr(d) = "nil" => GetText(d) \in Texts
  BY <1>10, GetOK
<1>12. /\ GetErr(d) = "nil" => /\ At(d) \in DOMAIN v /\ At(d) < At(cursor)
                               /\ GetText(d) = v[At(d)]
                               /\ \A q \in DOMAIN v : q < At(cursor) => q <= At(d)
       /\ GetErr(d) # "nil" => \A q \in DOMAIN v : q >= At(d) <=> q >= At(cursor)
       /\ GetErr(d) = "end" => \A q \in DOMAIN v : q >= At(cursor)
  <2> HIDE DEF v, d
  <2> QED
    BY <1>3, <1>7 DEF GoesBack
<1>13. ~deleted => NewestFirstFrom(v, At(cursor), stack)
  BY <1>9 DEF WalkInv, CollectedNewestFirst
<1> HIDE DEF v, d
<1>14. ~deleted => NewestFirstFrom(v, At(d), stack')
  <2> SUFFICES ASSUME ~deleted PROVE NewestFirstFrom(v, At(d), stack')
    OBVIOUS
  <2>1. CASE GetErr(d) # "nil" /\ AfterPrev(GetErr(d), Len(stack), stack)
    <3>1. stack' = stack
      BY <2>1 DEF AfterPrev
    <3> QED
      BY <3>1, <2>1, <1>12, <1>13, CollectSame
  <2>2. CASE GetErr(d) = "nil" /\ ~Seen(GetText(d)) /\ AfterPrev("nil", Len(stack), Append(stack, GetText(d)))
    <3>1. stack' = Append(stack, v[At(d)])
      BY <2>2, <1>12 DEF AfterPrev
    <3>2. v[At(d)] \notin {stack[i] : i \in 1..Len(stack)} /\ v[At(d)] \in Texts
      BY <2>2, <1>11, <1>12 DEF Seen, occ
    <3>3. /\ At(d) \in DOMAIN v /\ At(d) < At(cursor)
          /\ \A q \in DOMAIN v : q < At(cursor) => q <= At(d)
      BY <2>2, <1>12
    <3> QED
      BY <3>1, <3>2, <3>3, <1>8, <1>9, <1>13, CollectNew
  <2>3. CASE GetErr(d) = "nil" /\ Seen(GetText(d)) /\ UNCHANGED walkVars
    <3>1. stack' = stack
      BY <2>3 DEF walkVars
    <3>2. v[At(d)] \in {stack[i] : i \in 1..Len(stack)}
      BY <2>3, <1>12 DEF Seen, occ
    <3>3. /\ At(d) \in DOMAIN v /\ At(d) < At(cursor)
          /\ \A q \in DOMAIN v : q < At(cursor) => q <= At(d)
      BY <2>3, <1>12
    <3> QED
      BY <3>1, <3>2, <3>3, <1>8, <1>9, <1>13, CollectSeen
  <2> QED
    BY <1>1, <2>1, <2>2, <2>3
<1>15. CollectedNewestFirst'
  BY <1>1, <1>6, <1>14, Zenon DEF CollectedNewestFirst
<1>16. EndAfterAll
  <2> SUFFICES ASSUME mode' # mode, reported' = "end", ~deleted
               PROVE  occ = {v[q] : q \in DOMAIN v}
    BY <1>7 DEF EndAfterAll, v
  <2>1. GetErr(d) = "end"
    BY <1>1 DEF AfterPrev, walkVars
  <2>2. {q \in DOMAIN v : q >= At(cursor)} = DOMAIN v
    BY <2>1, <1>12
  <2> QED
    BY <2>2, <1>13 DEF NewestFirstFrom, occ
<1> QED
  BY <1>15, <1>16

\* Every step of the session keeps it, and no other step ends a Prev.
LEMMA WalkInvStep ==
    ASSUME HistOK, WalkOK, CursorInv(cursor), WalkInv, [MCNext]_sessionVars
    PROVE  WalkInv' /\ EndAfterAll
<1>1. CASE UNCHANGED allVars /\ part' = part
  <2>1. UNCHANGED <<mode, cursor, stack, deleted, cmds>>
    BY <1>1 DEF allVars, vars, dbVars, walkVars
  <2>2. WalkInv'
    BY <1>1, <2>1 DEF WalkInv, CollectedNewestFirst, Commands, Places, Matching, At
  <2> QED
    BY <2>1, <2>2 DEF EndAfterAll
<1>2. CASE part = "cursor" /\ part' = part /\ UNCHANGED <<walkVars, deleted>>
  <2>1. mode = "off" /\ mode' = "off"
    BY <1>2 DEF WalkInv, walkVars
  <2> QED
    BY <2>1 DEF WalkInv, CollectedNewestFirst, EndAfterAll
<1>3. ASSUME UNCHANGED <<cursor, stack>>, (\E t \in Texts : Put(t)) \/ UNCHANGED dbVars,
             deleted' = deleted, mode' # "off" => mode # "off"
      PROVE  CollectedNewestFirst'
  <2>1. Commands(cursor)' = Commands(cursor)
    BY <1>3, ViewStays DEF SameView
  <2>2. At(cursor)' = At(cursor)
    BY <1>3 DEF At
  <2> QED
    BY <1>3, <2>1, <2>2, Zenon DEF WalkInv, CollectedNewestFirst
<1>4. CASE part = "walk" /\ part' = part /\ WalkNextState
  <2>1. CASE Elsewhere
    <3>1. UNCHANGED walkVars /\ UNCHANGED cursor
      BY <2>1 DEF Elsewhere, AddOther, AddOwn, Delete, FastForward
    <3>2. mode' = mode /\ stack' = stack
      BY <3>1 DEF walkVars
    <3>3. CASE deleted' = TRUE
      BY <1>4, <3>2, <3>3 DEF WalkInv, CollectedNewestFirst, EndAfterAll
    <3>4. CASE deleted' # TRUE
      <4>1. deleted' = deleted /\ ((\E t \in Texts : Put(t)) \/ UNCHANGED dbVars)
        BY <2>1, <3>4, Zenon DEF Elsewhere, AddOther, AddOwn, FastForward
      <4>2. CollectedNewestFirst'
        BY <1>3, <3>1, <3>2, <4>1
      <4> QED
        BY <1>4, <3>2, <4>2 DEF WalkInv, EndAfterAll
    <3> QED
      BY <3>3, <3>4
  <2>2. CASE \E p \in Searches : Start(p)
    <3>1. PICK p \in Searches : Start(p)
      BY <2>2
    <3>2. mode = "off" /\ Open(p) /\ stack' = <<>>
      BY <3>1 DEF Start
    <3>3. NewestFirstFrom(Commands(cursor)', At(cursor)', stack')
      BY <3>2, NewCursorPassedNone
    <3>4. CollectedNewestFirst'
      BY <3>3 DEF CollectedNewestFirst
    <3> QED
      BY <1>4, <3>2, <3>4 DEF WalkInv, EndAfterAll
  <2>3. CASE \E fails \in BOOLEAN : PrevStep(fails)
    BY <1>4, <2>3, PrevStepCollects DEF WalkInv
  <2>4. CASE WalkPrev \/ WalkNext \/ Leave
    <3>1. mode = "on" /\ UNCHANGED <<cursor, stack, deleted>> /\ UNCHANGED dbVars
      BY <2>4 DEF WalkPrev, WalkNext, Leave, AfterPrev, vars
    <3>2. CollectedNewestFirst'
      BY <1>3, <3>1
    <3> QED
      BY <1>4, <3>1, <3>2 DEF WalkInv, EndAfterAll
  <2> QED
    BY <1>4, <2>1, <2>2, <2>3, <2>4 DEF WalkNextState
<1> QED
  BY <1>1, <1>2, <1>4 DEF MCNext, sessionVars, PromptStep, HighlighterStep, RpcStep, WalkStep, CursorStep

\* It holds from the beginning.
LEMMA WalkInvAlways == MCSpec => [](HistOK /\ WalkOK /\ CursorInv(cursor) /\ WalkInv)
<1>1. MCInit => WalkInv
  BY DEF MCInit, WalkInit, WalkInv, CollectedNewestFirst
<1>2. HistOK /\ WalkOK /\ CursorInv(cursor) /\ WalkInv /\ [MCNext]_sessionVars => WalkInv'
  BY WalkInvStep
<1> QED
  BY <1>1, <1>2, SessionSafety, HistoryAlways, CursorAlways, PTL

\* As long as no command is deleted, a walk offers the commands of its view from the newest
\* on, each once, and shows the one it is at (dedupCursor.Prev over hybridStoreCursor and
\* dbStoreCursor, histwalk.walk), for histories and sessions of any length, whatever is added
\* meanwhile and however often the database fails.
THEOREM WalkIsExactTheorem == MCSpec => []WalkIsExact
<1>1. HistOK /\ WalkInv => WalkIsFaithful
  <2> SUFFICES ASSUME HistOK, WalkInv, mode # "off", ~deleted
               PROVE  \E n \in -1..cursor.upper + Len(cursor.cmds) + 1 :
                        NewestFirstFrom(Commands(cursor), n, stack)
    BY DEF WalkIsFaithful
  <2>1. NewestFirstFrom(Commands(cursor), At(cursor), stack)
    BY DEF WalkInv, CollectedNewestFirst
  <2>2. /\ cursor.upper \in Nat /\ cursor.seq \in Int /\ cursor.seq >= -1 /\ cursor.seq <= cursor.upper
        /\ cursor.index \in Nat /\ cursor.index <= Len(cursor.cmds) + 1
        /\ cursor.cmds \in Seq(Texts) /\ Len(cursor.cmds) \in Nat
    BY HistAssumption DEF HistOK, CursorOK, Cursors
  <2>3. At(cursor) \in -1..cursor.upper + Len(cursor.cmds) + 1
    BY <2>2, SMTT(30) DEF At
  <2> QED
    BY <2>1, <2>3
<1>2. WalkOK => ShownIsCurrent
  <2> SUFFICES ASSUME WalkOK, mode = "on"
               PROVE  /\ current >= 0
                      /\ shown = IF current < Len(stack) THEN stack[current + 1] ELSE Last(stack)
    BY DEF ShownIsCurrent
  <2> QED
    BY DEF WalkOK, Last
<1>3. HistOK /\ WalkOK /\ WalkInv => WalkIsExact
  BY <1>1, <1>2 DEF WalkIsExact
<1> QED
  BY <1>3, WalkInvAlways, PTL

\* Prev, also the one that begins the walk (NewHistwalk), reports the end of the history only
\* when every command of the view has been offered: not because a call has failed, nor
\* because other sessions have added commands meanwhile.
THEOREM WalkEndTheorem == MCSpec => EndIsTheEnd
<1>1. HistOK /\ WalkOK /\ CursorInv(cursor) /\ WalkInv /\ [MCNext]_sessionVars => [EndAfterAll]_allVars
  BY WalkInvStep
<1> QED
  BY <1>1, WalkInvAlways, SessionSafety, PTL DEF EndIsTheEnd, EndAfterAll

=============================================================================
