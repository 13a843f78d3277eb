SPECIFICATION Spec
CONSTANTS
  a = a
  b = b
  c = c
  fam1 = fam1
  fam2 = fam2
  NoGain = NoGain
  NoSkill = NoSkill
  active_cap = 1
  retirement_patience = 1
  Stream <- SmallStream
  Seeds <- SeedOrder
  FamilyOf <- SeedFamily
  ActionsOf <- SeedActions
  Measured <- Returns
  Chained <- Benefits
  Replayed <- ReplayGains
  FailedAfter = {2}
  candidate_limit = 4
  saturation_threshold = 2
  min_support = 3
  min_clusters = 2
  sign_alpha = 15
  direction_alpha = 15
  max_candidates = 2
  confirmation_cases = 3
  dominance = 60
  window_size = 1
  stable_windows = 2
  Plans <- DepositThenRemove
  Keys <- TwoDomains
  Batches <- SmallBatches
  n_min = 2
  MaxUndo = 1
  MaxFires = 6
INVARIANTS
  RetirementIsTold
  ConfirmationWithinBudget
  OneDirectionPerPair
  RecoveryIsStable
  LedgerIsReadable
PROPERTIES
  RetirementIsFinal
