\* An event outlives the session that was committed from elsewhere.
SPECIFICATION FairSpec
CONSTANTS
    InputChSize = 3
    Relays = {}
    MaxSessions = 3
    MaxKeys = 3
    MaxSignals = 0
    MaxAsync = 2
PROPERTIES ReturnEndsRun
CHECK_DEADLOCK FALSE
