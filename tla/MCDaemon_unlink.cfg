\* A daemon that ends unlinks the socket of its successor.
SPECIFICATION Spec
CONSTANTS
  Shells = {s1, s2}
  NDaemons = 3
  Outdated = {1}
  None = None
  Scenarios <- MCScenarios
PROPERTIES SocketRemovedByOwner
CHECK_DEADLOCK FALSE
