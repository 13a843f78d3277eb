SPECIFICATION Spec
CONSTANTS
  spec1 = spec1
  spec2 = spec2
  pattern = pattern
  otherPattern = otherPattern
  shape = shape
  familyA = familyA
  familyB = familyB
  NoFamily = NoFamily
  Specs = {spec1}
  Shape <- OneShape
  N = 5
  RecurrenceFamily <- PairedFamilies
  MatchedPatterns <- FirstAndNotLast
  Discoverable <- DiscoveredTwiceAndLast
  Checkpoints = {4, 5}
  RolloutResults = {"hit", "miss", "timeout"}
  UnstableCases = {1}
  HasDirectEvaluator = TRUE
  OperatorWeight <- Weights
INVARIANTS
  CaseCommitIsAtomic
