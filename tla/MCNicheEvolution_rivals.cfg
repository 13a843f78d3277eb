SPECIFICATION Spec
CONSTANTS
  opA = opA
  opB = opB
  niche1 = niche1
  niche2 = niche2
  niche3 = niche3
  revB = revB
  revC = revC
  familyA = familyA
  familyB = familyB
  NoGain = NoGain
  NotFinite = NotFinite
  Operators = {opA, opB}
  N = 11
  Niche <- LastElsewhere
  FamilyOf <- LateFamily
  IdRank <- EldersLast
  FixCases <- AllButThird
  Seeds <- BothSeeds
  Outcomes <- Rivals
  candidate_budget = 2
  GraphNiches <- ThreeNiches
  Audits <- BothWays
  Evidence <- SomeEvidence
  MaxAttempts = 3
INVARIANTS
  GraphIsAcyclic
  EliteIsSound
  EvidenceIsIndependent
  OneLiveRevisionPerOperator
  ElitesAreReplacedByElders
