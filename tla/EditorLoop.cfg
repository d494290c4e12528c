\* Two sessions; keys, signals and other goroutines.
SPECIFICATION FairSpec
CONSTANTS
    InputChSize = 2
    Relays = {prompt}
    MaxSessions = 2
    MaxKeys = 2
    MaxSignals = 1
    MaxAsync = 2
INVARIANTS TypeOK RequestsNotLost NoGoroutineLeft
PROPERTIES ReturnNoticedUnlessBlocked TeardownWaitsOnlyForTerminal
CHECK_DEADLOCK FALSE
