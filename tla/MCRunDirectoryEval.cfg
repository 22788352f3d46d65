CONSTANTS
  s1 = s1
  s2 = s2
  None = None
  Torn = Torn
  Sessions = {s1}
  Kinds <- MCKinds
  MaxCommands = 3
SPECIFICATION Spec
CHECK_DEADLOCK FALSE
INVARIANTS
  EvalNeedsNoManifest
