SPECIFICATION Spec
CONSTANTS
  ArgLists <- AllArgLists
  Environments <- SomeEnvironments
  Texts <- AllTexts
  DefaultUsageAware = 80
  DefaultConcurrency = 3
  MaxU32 = 7
  Workers = {w1, w2}
  MinWorkers = 1
  Requests = {r1, r2}
  RecvError = err
  MaxErrors = 2
  Drain = 2
INVARIANTS CommasSeparate
