SPECIFICATION Spec
CONSTANTS
  Facts <- ThreeFacts
  Days <- DayValues
  Terms <- Words
  max_bucket_size = 2
  similarity_threshold = 30
  tolerance_days = 7
  Agents <- TwoAgents
  MayCrash = TRUE
INVARIANTS
  NothingDisappears
  ReportedRunIsAllOrNothing
PROPERTIES
  NothingLost
  DemotesOnlyStale
  RunEnds
