CONSTANTS
  None = None
  Groups = {"orders", "billing", "misc"}
  Corpora <- MCCorpora
  Caps = {2, 3}
  Concurrency = 2
  MaxClasses = 6
SPECIFICATION FairSpec
INVARIANTS
  TypeOK
  DifficultySpread
  FailuresIsolated
  NoOverwrite
PROPERTIES
  RenderEnds
