SPECIFICATION Spec
CONSTANTS
  Builtins <- MCBuiltins
  FnNames <- MCFnNames
  NsNames <- MCNsNames
  EnvNames <- MCEnvNames
  BuiltinFns <- MCBuiltinFns
  ModCode <- MCModCode
  Input = 2
PROPERTIES LexicalScoping TmpIsWith LoadedModulesRan
CHECK_DEADLOCK FALSE
