\* A pipeline of three forms, a background job, a single command, where pipes may fail and
\* interrupts may come; three redirections of every kind, in every order, any of which may
\* fail; three inputs and two workers; three writes to a port with buffers of one.
SPECIFICATION MCFairSpec
CONSTANTS
    Chunk <- MCChunk
    BufSize = 1
    MaxWork = 2
    PipeMayFail = TRUE
    MayInterrupt = TRUE
    MaxRedirs = 3
    Names = {f1, f2, f3}
    NumInputs = 3
    NumWorkers = 2
    PortBufSize = 1
    MaxWrites = 3
INVARIANTS TypesOK ReaderGoneIsNoFailure ChunkIsFaithful ClosedExactlyOnce CallsAreBounded AllExceptionsReturned PortsDeliver
PROPERTIES FormsEnd
CHECK_DEADLOCK FALSE
