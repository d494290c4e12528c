\* A form in the middle of a pipeline redirects its input.
SPECIFICATION MCSpec
CONSTANTS
    Chunk <- MCChunk
    BufSize = 1
    MaxWork = 0
    PipeMayFail = FALSE
    MayInterrupt = FALSE
    MaxRedirs = 2
    Names = {f1, f2}
    NumInputs = 0
    NumWorkers = 1
    PortBufSize = 1
    MaxWrites = 0
INVARIANTS ReaderGoneStored
CHECK_DEADLOCK FALSE
