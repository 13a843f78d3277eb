SPECIFICATION Spec
CONSTANTS
  w1 = w1
  w2 = w2
  w3 = w3
  w4 = w4
  Timeout = Timeout
  Failure = Failure
  None = None
  N = 3
  Configs <- Calls
  QueryWords <- Queries
  MemoryWords <- Memories
  Confidence <- Confidences
  SafetyReviewed = {1, 3}
  StructuralGap <- Gaps
  Assessment <- Assessments
  Scores = {0, 1, 2}
  max_iterations = 3
  top_k = 12
CHECK_DEADLOCK FALSE
INVARIANTS
  EveryActionIsAccounted
  AttributionIsFounded
  RepairsFollowTheCredits
