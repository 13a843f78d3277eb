SPECIFICATION Spec
CONSTANTS
  opA = opA
  opB = opB
  niche1 = niche1
  niche2 = niche2
  niche3 = niche3
  revB = revB
  revC = revC
  familyA = familyA
  familyB = familyB
  NoGain = NoGain
  NotFinite = NotFinite
  Operators = {opA, opB}
  N = 12
  Niche <- LastElsewhere
  FamilyOf <- LateFamily
  IdRank <- EldersFirst
  FixCases <- AllButThird
  Seeds <- BothSeeds
  Outcomes <- FiniteRivals
  candidate_budget = 2
  GraphNiches <- ThreeNiches
  Audits <- NoAudits
  Evidence <- SomeEvidence
  MaxAttempts = 3
INVARIANTS
  UpdateNeverRaises
