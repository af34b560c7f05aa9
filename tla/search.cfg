SPECIFICATION Spec
CONSTANTS
  Granules = {1, 2, 3, 4}
  Corpora <- MenuOfCorpora
  Limit = 2
  Prefetch = 3
  SeedLimit = 1
  TopK = 2
  Depth = 2
  Cap = 3
  RrfK = 60
  MaxEdits = 2
  MaxBreaks = 1
INVARIANTS
  NothingOutdated
CHECK_DEADLOCK FALSE
