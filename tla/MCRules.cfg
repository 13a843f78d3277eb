SPECIFICATION Spec
CONSTANTS
  familyA = familyA
  familyB = familyB
  familyC = familyC
  NoFamily = NoFamily
  CaseFamilies = {familyA, familyB, familyC}
  MaxSuccesses = 6
  MaxQueue = 10
  Stamps = {1, 16, 17, 33}
  MaxRecall = 3
  timestamp_tolerance_days = 7
  w1 = w1
  w2 = w2
  stepA = stepA
  stepB = stepB
  CaseFingerprints <- MCFingerprints
  LegalSteps <- MCLegalSteps
  ScanOrder <- MCScanOrder
  NetGains = {1, 2, 3}
  Timeout = Timeout
  topn = 2
  trajectory_threshold = 2
  fixed_library_warmup = 3
  MaxCases = 4
INVARIANTS
  ShortcutFindsEarliestTriple
  QuotaIsFair
  HintsFollowFreshness
  FrozenLibraryIsThePast
  ArmsRecoverTheSameCases
CHECK_DEADLOCK FALSE
