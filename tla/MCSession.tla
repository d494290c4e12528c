----------------------------- MODULE MCSession -----------------------------
(* What goes on behind an editing session: the prompt, the highlighter,    *)
(* the calls to the daemon, a cursor over the command history, or a walk   *)
(* over it.                                                                *)
EXTENDS Prompt, Highlighter, Rpc, HistWalk

VARIABLE part   \* the one a behaviour is about; the others stay as they begin

\* Two texts, searched with the empty prefix and with one that one of them has.
MCTexts == {"a", "b"}
MCSearches == {MCTexts, {"a"}}

\* One call that succeeds, and one to a method that does not exist.  A method that fails
\* differs from one that succeeds only in what it answers.
CONSTANTS c1, c2
MCCalls == {[c \in {c1, c2} |-> IF c = c1 THEN "returns" ELSE "unknown"]}

sessionVars == <<part, promptVars, highlighterVars, rpcVars, allVars>>

MCInit ==
    /\ part \in {"prompt", "highlighter", "rpc", "cursor", "walk"}
    /\ PromptInit /\ HighlighterInit /\ RpcInit /\ WalkInit
    /\ part \notin {"cursor", "walk"} => cursor.prefix = Texts

PromptStep(A) == part = "prompt" /\ A /\ UNCHANGED <<part, highlighterVars, rpcVars, allVars>>
HighlighterStep(A) == part = "highlighter" /\ A /\ UNCHANGED <<part, promptVars, rpcVars, allVars>>
RpcStep(A) == part = "rpc" /\ A /\ UNCHANGED <<part, promptVars, highlighterVars, allVars>>
WalkStep(A) == part = "walk" /\ A /\ UNCHANGED <<part, promptVars, highlighterVars, rpcVars>>
CursorStep(A) ==
    part = "cursor" /\ A /\ UNCHANGED <<part, promptVars, highlighterVars, rpcVars, walkVars, deleted>>

MCNext ==
    \/ PromptStep(PromptNext) \/ HighlighterStep(HighlighterNext) \/ RpcStep(RpcNext)
    \/ WalkStep(WalkNextState) \/ CursorStep(CursorNext)

\* The fairness of the parts.
MCSpec ==
    /\ MCInit /\ [][MCNext]_sessionVars
    /\ WF_sessionVars(PromptStep(PromptLoop)) /\ WF_sessionVars(PromptStep(Compute))
    /\ WF_sessionVars(PromptStep(RelayReceive)) /\ WF_sessionVars(PromptStep(RelayRedraw))
    /\ WF_sessionVars(HighlighterStep(GetInTime \/ GetTimeout))
    /\ SF_sessionVars(HighlighterStep(GetHit \/ GetMiss \/ GetNoCommand))
    /\ \A n \in Gets :
         /\ WF_sessionVars(HighlighterStep(
              CommandsStyled(n) \/ LateReceive(n) \/ LateCheck(n) \/ LateSend(n)))
         /\ SF_sessionVars(HighlighterStep(LateLock(n)))
    /\ \A c \in Callers : WF_sessionVars(RpcStep(CallerStep(c)))
    /\ \A i \in ConnIds : WF_sessionVars(RpcStep(InputStep(i))) /\ WF_sessionVars(RpcStep(ServerStep(i)))
    /\ WF_sessionVars(WalkStep(\E fails \in BOOLEAN : PrevStep(fails)))

\* The types of the variables of the parts.
TypesOK == PromptTypeOK /\ HighlighterTypeOK /\ RpcTypeOK /\ WalkTypeOK

\* What the editor shows is not out of date without something being under way that will
\* change it: no request to update the prompt and no notification is lost, and a late
\* result of the highlighter is announced and never shown for another code.
NothingStaysStale == PromptFollowsDirectory /\ ShownIsLast /\ LateResultsAreSound

\* What each part is expected to come back to, under the fairness of its goroutines.
Quiet ==
    CASE part = "prompt" -> ScreenIsFresh
      [] part = "highlighter" -> ~GetBusy
      [] part = "rpc" -> \A c \in Callers : Returned(c)
      [] part = "walk" -> ~PrevBusy
      [] OTHER -> TRUE

\* Nothing the editor waits for fails to come: while a read stays active the prompt on the
\* screen becomes fresh, Get returns though nobody receives late notifications, every call
\* to the daemon returns, however connections break, and a walk ends though others add
\* commands.
EverythingComesBack == []<>Quiet
=============================================================================
