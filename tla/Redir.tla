-------------------------------- MODULE Redir --------------------------------
(***************************************************************************)
(* The ports of one form of a pipeline: how redirections replace them      *)
(* (redirOp.exec in pkg/eval/compile_effect.go), which files and channels  *)
(* the form owns and closes (formOwnedPort), and how it tells the form it  *)
(* reads from that it has ended (the end of the function in                *)
(* pipelineOp.exec).                                                       *)
(*                                                                         *)
(* A port is its file, its value channel and its back channel (sendStop,   *)
(* sendError and readerGone).  Ports 0 to 2 are always there, port 3       *)
(* stands for the ones a redirection may add.                              *)
(***************************************************************************)
EXTENDS Naturals, FiniteSets

CONSTANTS
    MaxRedirs,    \* bound: redirections of the form
    Names         \* files that redirections open, one for each

VARIABLES
    inputIsPipe, outputIsPipe,
    redirPc,
    n,          \* redirections made
    ports,      \* newFm.ports
    fops,       \* which parts of each port the form owns
    closes,     \* how often each file and channel has been closed
    opened,     \* the files redirections have opened
    told        \* the back channels that have been told that the form has ended

redirVars == <<inputIsPipe, outputIsPipe, redirPc, n, ports, fops, closes, opened, told>>

Fds == 0..3
Inherited == {"stdin", "stdout", "stderr", "fileObject"}
Files == Inherited \cup {"pipeIn", "pipeOut"} \cup Names
Chans == {"chanIn", "chanOut", "chanInherited", "closedChan", "nil"}
BackChannels == {"nil", "in", "out", "closedSendStop"}

ASSUME RedirAssumption ==
    /\ MaxRedirs \in Nat /\ IsFiniteSet(Names) /\ Cardinality(Names) >= MaxRedirs
    /\ Names \cap (Inherited \cup {"pipeIn", "pipeOut"} \cup Chans) = {}

NoPort == [file |-> "nil", chan |-> "nil", back |-> "nil"]
NotOwned == [file |-> FALSE, chan |-> FALSE]

RedirTypeOK ==
    /\ inputIsPipe \in BOOLEAN /\ outputIsPipe \in BOOLEAN
    /\ redirPc \in {"redir", "body", "tell", "close", "done", "panic"}
    /\ n \in 0..MaxRedirs
    /\ ports \in [Fds -> [file : Files \cup {"nil"}, chan : Chans, back : BackChannels]]
    /\ fops \in [Fds -> [file : BOOLEAN, chan : BOOLEAN]]
    /\ \A p \in Fds : /\ fops[p].file => ports[p].file # "nil"
                      /\ fops[p].chan => ports[p].chan # "nil"
    /\ closes \in [Files \cup Chans -> Nat]
    /\ opened \subseteq Names /\ told \subseteq BackChannels

\* The frame pipelineOp.exec makes for the form.
RedirInit ==
    /\ inputIsPipe \in BOOLEAN /\ outputIsPipe \in BOOLEAN
    /\ redirPc = "redir" /\ n = 0 /\ opened = {} /\ told = {}
    /\ ports = [p \in Fds |->
         CASE p = 0 /\ inputIsPipe  -> [file |-> "pipeIn", chan |-> "chanIn", back |-> "in"]
           [] p = 1 /\ outputIsPipe -> [file |-> "pipeOut", chan |-> "chanOut", back |-> "out"]
           [] p = 0 /\ ~inputIsPipe -> [file |-> "stdin", chan |-> "chanInherited", back |-> "nil"]
           [] p = 1 /\ ~outputIsPipe -> [file |-> "stdout", chan |-> "chanInherited", back |-> "nil"]
           [] p = 2 -> [file |-> "stderr", chan |-> "chanInherited", back |-> "nil"]
           [] OTHER -> NoPort]
    /\ fops = [p \in Fds |->
         CASE p = 0 /\ inputIsPipe  -> [file |-> TRUE, chan |-> FALSE]
           [] p = 1 /\ outputIsPipe -> [file |-> TRUE, chan |-> TRUE]
           [] OTHER -> NotOwned]
    /\ closes = [x \in Files \cup Chans |-> 0]

-----------------------------------------------------------------------------
(* redirOp.exec                                                            *)

\* formOwnedPort.close: what it closes of a port.
Closes(fop, port) ==
    {x \in Files \cup Chans : (fop.file /\ x = port.file) \/ (fop.chan /\ x = port.chan)}

Close(fop, port) ==
    closes' = [x \in Files \cup Chans |->
                 IF x \in Closes(fop, port) THEN closes[x] + 1 ELSE closes[x]]

\* Mutant: what the destination was is not closed.
ReplacePort_leaveOpen(dst, port, owned) ==
    /\ UNCHANGED closes
    /\ ports' = [ports EXCEPT ![dst] = port]
    /\ fops' = [fops EXCEPT ![dst] = [file |-> owned, chan |-> FALSE]]

\* The destination is closed, as far as the form owns it, and replaced.
ReplacePort(dst, port, owned) ==
    /\ IF ports[dst] = NoPort THEN UNCHANGED closes ELSE Close(fops[dst], ports[dst])
    /\ ports' = [ports EXCEPT ![dst] = port]
    /\ fops' = [fops EXCEPT ![dst] = [file |-> owned, chan |-> FALSE]]

Redirecting ==
    /\ redirPc = "redir" /\ n < MaxRedirs /\ n' = n + 1
    /\ UNCHANGED <<inputIsPipe, outputIsPipe, told>>

\* fileRedirPort, for reading and for the other modes.
FilePort(file, read) ==
    IF read THEN [file |-> file, chan |-> "closedChan", back |-> "nil"]
            ELSE [file |-> file, chan |-> "nil", back |-> "closedSendStop"]

\* From a file name: the form owns the file it opens.
RedirToName(dst, read) ==
    /\ Redirecting /\ UNCHANGED redirPc
    /\ LET f == CHOOSE f \in Names : f \notin opened IN
         /\ ReplacePort(dst, FilePort(f, read), TRUE)
         /\ opened' = opened \cup {f}

\* From a file object, or a map that holds one.
RedirToFile(dst, read) ==
    /\ Redirecting /\ UNCHANGED <<redirPc, opened>>
    /\ ReplacePort(dst, FilePort("fileObject", read), FALSE)

\* From a port.
RedirToFd(dst, src) ==
    /\ Redirecting /\ UNCHANGED <<redirPc, opened>>
    /\ ports[src] # NoPort
    /\ ReplacePort(dst, ports[src], FALSE)

\* From "&-".
RedirClose(dst) ==
    /\ Redirecting /\ UNCHANGED <<redirPc, opened>>
    /\ ReplacePort(dst, [file |-> "nil", chan |-> "nil", back |-> "closedSendStop"], FALSE)

\* The source is bad or cannot be opened, or is a port that does not exist: the
\* destination has been closed, and exec ends.
RedirFails(dst) ==
    /\ Redirecting /\ redirPc' = "tell" /\ UNCHANGED opened
    /\ ReplacePort(dst, ports[dst], FALSE)

\* A bad destination: nothing has been closed.
RedirBadDst ==
    /\ Redirecting /\ redirPc' = "tell" /\ UNCHANGED <<ports, fops, closes, opened>>

-----------------------------------------------------------------------------
(* The rest of form.exec, and of the function that runs the form.          *)

BeginBody ==
    /\ redirPc = "redir" /\ redirPc' = "body"
    /\ UNCHANGED <<inputIsPipe, outputIsPipe, n, ports, fops, closes, opened, told>>

EndBody ==
    /\ redirPc = "body" /\ redirPc' = "tell"
    /\ UNCHANGED <<inputIsPipe, outputIsPipe, n, ports, fops, closes, opened, told>>

\* The back channel is taken from what port 0 is now.  Storing through a nil sendError,
\* and closing closedSendStop, which is closed already, end the shell.
TellReader ==
    /\ redirPc = "tell"
    /\ LET back == ports[0].back IN
       IF ~inputIsPipe THEN redirPc' = "close" /\ UNCHANGED told
       ELSE IF back \in {"in", "out"} THEN redirPc' = "close" /\ told' = told \cup {back}
       ELSE redirPc' = "panic" /\ UNCHANGED told
    /\ UNCHANGED <<inputIsPipe, outputIsPipe, n, ports, fops, closes, opened>>

\* The loop over fops.
CloseOwned ==
    /\ redirPc = "close" /\ redirPc' = "done"
    /\ closes' = [x \in Files \cup Chans |->
                    closes[x] + Cardinality({p \in Fds : x \in Closes(fops[p], ports[p])})]
    /\ fops' = [p \in Fds |-> NotOwned]
    /\ UNCHANGED <<inputIsPipe, outputIsPipe, n, ports, opened, told>>

RedirStep ==
    \/ \E dst \in Fds, read \in BOOLEAN : RedirToName(dst, read) \/ RedirToFile(dst, read)
    \/ \E dst, src \in Fds : RedirToFd(dst, src)
    \/ \E dst \in Fds : RedirClose(dst) \/ RedirFails(dst)
    \/ RedirBadDst

RedirNext == RedirStep \/ BeginBody \/ EndBody \/ TellReader \/ CloseOwned

RedirSpec == RedirInit /\ [][RedirNext]_redirVars

-----------------------------------------------------------------------------
\* What the form has to close: its ends of the pipes, and the files it has opened.
Owned ==
    (IF inputIsPipe THEN {"pipeIn"} ELSE {})
    \cup (IF outputIsPipe THEN {"pipeOut", "chanOut"} ELSE {})
    \cup opened

\* Files and channels the form owns are closed once and all of them before it is done (or
\* the next form would wait for its input forever), the others never, in whatever order
\* ports are replaced, duplicated and closed, and even if a redirection fails half-way.
ClosedExactlyOnce ==
    \A x \in Files \cup Chans :
        /\ closes[x] <= (IF x \in Owned THEN 1 ELSE 0)
        /\ redirPc = "done" /\ x \in Owned => closes[x] = 1

\* "When the reading end of the pipe exits, it stores true in readerGone" (Port in
\* port.go): however the form ends, the form before it is told.
ReaderGoneStored == redirPc \in {"close", "done", "panic"} /\ inputIsPipe => "in" \in told
=============================================================================
