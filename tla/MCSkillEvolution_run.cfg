SPECIFICATION Spec
CONSTANTS
  spec1 = spec1
  spec2 = spec2
  pattern = pattern
  otherPattern = otherPattern
  shape = shape
  familyA = familyA
  familyB = familyB
  NoFamily = NoFamily
  Specs = {spec1, spec2}
  Shape <- OneShape
  N = 6
  RecurrenceFamily <- PairedFamilies
  MatchedPatterns <- FirstAndNotLast
  Discoverable <- BothFirstOneLast
  Checkpoints <- PrequentialTargets
  RolloutResults = {"hit", "miss", "timeout"}
  UnstableCases = {1}
  HasDirectEvaluator = TRUE
  OperatorWeight <- Weights
INVARIANTS
  EvaluateBeforeUpdate
  PosteriorReplaysLedger
  LedgerExplainsVersions
  RetirementTakesTwoRegressions
  NoEligibleLeftBehind
PROPERTIES
  AppendOnly
  ImplementsLifecycle
  RunEnds
