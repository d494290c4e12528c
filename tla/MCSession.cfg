\* The default eagerness, and a directory that changes there and back; three calls of Get;
\* two goroutines that call the daemon over connections that may break; two commands that
\* other sessions add and delete while this one moves over them, with a failing call.
SPECIFICATION MCSpec
CONSTANTS
    Dirs = {a, b}
    Home = a
    Eagerness = 5
    MaxTriggers = 3
    MaxCd = 3
    Codes = {a, b}
    LatesSize = 1
    MaxGets = 3
    MaxEpochs = 1
    Callers = {c1, c2}
    c1 = c1
    c2 = c2
    Calls <- MCCalls
    retriesOnShutdown = 3
    MaxConns = 2
    MaxCuts = 1
    Texts <- MCTexts
    Searches <- MCSearches
    MaxSeq = 2
    MaxSession = 2
    MaxFaults = 1
INVARIANTS TypesOK NothingStaysStale CallsAreExact WalkIsExact
PROPERTIES EverythingComesBack ImplementsView EndIsTheEnd
CHECK_DEADLOCK FALSE
