SPECIFICATION SpecAll
CONSTANTS
  a = a
  b = b
  c = c
  d = d
  q = q
  x1 = x1
  x2 = x2
  x3 = x3
  x4 = x4
  L = L
  M = M
  Late = Late
  Cases <- FourCases
  TextsOf <- Words
  QueryWords <- Queries
  RepairsOf <- Repairs
  ActionOrder <- Actions
  Half <- OneHalf
  Gains = {0, 2, Late}
  min_credit = 1
  recovered_threshold = 1
  topk = 2
  neighbors = 3
  threshold = 2
  top_k = 2
  MaxRuns = 2
CHECK_DEADLOCK FALSE
INVARIANTS
  IndexNamesFiles
  PatternsAreEvidenced
  ClustersOwnTheirPatterns
  ReloadGivesTheSameSeeds
  RecoveryIsWhatWasMeasured
PROPERTIES
  ImplementsFailureMemory
