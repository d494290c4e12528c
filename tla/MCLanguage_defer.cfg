SPECIFICATION Spec
CONSTANTS
  Builtins <- MCBuiltins
  FnNames <- MCFnNames
  NsNames <- MCNsNames
  EnvNames <- MCEnvNames
  BuiltinFns <- MCBuiltinFns
  ModCode <- MCModCode
  Input = 2
PROPERTY DeferredExceptionsPropagate
CHECK_DEADLOCK FALSE
