SPECIFICATION Spec
CONSTANTS
  f1 = f1
  f2 = f2
  c1 = c1
  c2 = c2
  Excluded = Excluded
  NoChoice = NoChoice
  active_cap = 1
  retirement_patience = 1
  Families <- ThreeFamilies
  ChoicesOf <- TwoChoices
  ReplayGains <- SomeGains
  replay_k = 3
  AssertionsOn = TRUE
INVARIANT
  ReadArmFindsStoreUntouched
