\* Two shells start together.
SPECIFICATION FairSpec
CONSTANTS
  Shells = {s1, s2}
  NDaemons = 3
  Outdated = {1}
  None = None
  Scenarios <- MCScenarios
INVARIANTS TypeOK ConnectedUpToDate
PROPERTIES ActivateEnds DaemonEndsWithShells RecoversWhenQuiet
CHECK_DEADLOCK FALSE
