CONSTANTS
  k1 = k1
  k2 = k2
  None = None
  NumRequests = 3
  Keys = {k1, k2}
  KeyOf <- MCKeyOf
  WarmKeys = {}
  MaxCalls = 3
  MaxTokens = 3
  MaxAttempts = 2
  MaxConcurrent = 2
  Usages = {0, 2}
SPECIFICATION FairSpec
INVARIANTS
  CallCeiling
  TokenTally
  RetryDiscipline
  Provenance
  HonestTelemetry
PROPERTIES
  AnsweredKeysAreFree
  AnswersSpec
  BatchReturns
