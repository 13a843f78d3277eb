------------------------- MODULE OperatorGovernance -------------------------
(***************************************************************************)
(* OperatorGovernance of cmd_audit/repair/governance.py: the ledger that   *)
(* admits an operator shape, counts its applications and retires it.  The  *)
(* ledger is the sequence of its entries in insertion order, one per pair  *)
(* of fingerprint and operator (the code's operator hash).  A gain is an   *)
(* integer; only the sign of the bootstrap bound is read, so it is chosen  *)
(* among the signs that the gains allow.                                   *)
(***************************************************************************)
EXTENDS Integers, FiniteSets, FiniteSetsExt, Sequences, SequencesExt

CONSTANTS active_cap, retirement_patience

ASSUME GovernanceAssumption ==
  /\ active_cap \in Nat \ {0}
  /\ retirement_patience \in Nat \ {0}

NeverSucceeded == -1

Total(gains) ==
  LET sum[n \in 0..Len(gains)] == IF n = 0 THEN 0 ELSE sum[n - 1] + gains[n]
  IN  sum[Len(gains)]

\* At an equal total the bound is the total's sign; a spread may cross zero.
LowerBoundIsPositive(gains) ==
  IF \A i \in DOMAIN gains : gains[i] > 0 THEN {TRUE}
  ELSE IF Total(gains) <= 0 THEN {FALSE} ELSE BOOLEAN

LowEvidence(gains) == Len(gains) < 3

\* Whether a new operator passes the replay gate.
PassesReplay(gains) ==
  IF LowEvidence(gains) THEN {Total(gains) > 0} ELSE LowerBoundIsPositive(gains)

-----------------------------------------------------------------------------
(* What an entry's counts say of it.                                       *)

Eta(e) == <<e.succeeded + 1, e.applied + 2>>

Probation(e) == ~e.retired /\ ~(e.applied >= 4 /\ 2 * Eta(e)[1] >= Eta(e)[2])

LifecycleStatus(e) ==
  IF e.retired THEN "retired" ELSE IF Probation(e) THEN "probation" ELSE "active"

\* last_success_generation or -1: a success in generation 0 counts as none.
LastSuccess(e) ==
  IF e.last_success_generation = 0 THEN NeverSucceeded
  ELSE e.last_success_generation

\* The difference of two ranking scores, component by component.
ScoreDifference(e, f) ==
  <<Eta(e)[1] * Eta(f)[2] - Eta(f)[1] * Eta(e)[2],
    (IF Probation(f) THEN 1 ELSE 0) - (IF Probation(e) THEN 1 ELSE 0),
    e.gain_sum * f.observations - f.gain_sum * e.observations,
    LastSuccess(e) - LastSuccess(f),
    f.admitted_generation - e.admitted_generation>>

\* Ascending sort by ranking score; the sort is stable.
RanksBelow(ledger, i, j) ==
  LET d == ScoreDifference(ledger[i], ledger[j])
      differs == {k \in DOMAIN d : d[k] # 0}
  IN  IF differs = {} THEN i < j ELSE d[Min(differs)] < 0

-----------------------------------------------------------------------------
Entries(ledger, fp, op) ==
  {i \in DOMAIN ledger : ledger[i].fingerprint = fp /\ ledger[i].operator = op}

Known(ledger, fp, op) == Entries(ledger, fp, op) # {}

Active(ledger, fp) ==
  {i \in DOMAIN ledger : ledger[i].fingerprint = fp /\ ~ledger[i].retired}

\* Mistake: the entry of the cap's own rank stays.
CapIsInclusive(ledger, fp) ==
  LET A == Active(ledger, fp)
  IN  {i \in A : Cardinality({j \in A : RanksBelow(ledger, j, i)})
                   < Cardinality(A) - active_cap - 1}

\* The entries that the cap retires: the lowest ranking beyond it.
Overflow(ledger, fp) ==
  LET A == Active(ledger, fp)
  IN  {i \in A : Cardinality({j \in A : RanksBelow(ledger, j, i)})
                   < Cardinality(A) - active_cap}

EnforceActiveCap(ledger, fp) ==
  [i \in DOMAIN ledger |->
     [ledger[i] EXCEPT !.retired = @ \/ i \in Overflow(ledger, fp)]]

NewEntry(fp, op, gains, generation) ==
  [fingerprint |-> fp, operator |-> op,
   observations |-> Len(gains), gain_sum |-> Total(gains),
   applied |-> 0, succeeded |-> 0, consecutive_failures |-> 0,
   last_success_generation |-> NeverSucceeded, admitted_generation |-> generation,
   low_evidence |-> LowEvidence(gains), retired |-> FALSE]

\* A known operator, retired or not, is a duplicate: its evidence grows.
Deduplicate(ledger, fp, op, gains) ==
  [i \in DOMAIN ledger |->
     IF i \in Entries(ledger, fp, op)
     THEN [ledger[i] EXCEPT !.observations = @ + Len(gains),
                            !.gain_sum = @ + Total(gains),
                            !.low_evidence = @ /\ LowEvidence(gains)]
     ELSE ledger[i]]

\* passes is one of PassesReplay(gains).
Admit(ledger, fp, op, gains, generation, passes) ==
  IF Known(ledger, fp, op) THEN Deduplicate(ledger, fp, op, gains)
  ELSE IF ~passes THEN ledger
  ELSE EnforceActiveCap(Append(ledger, NewEntry(fp, op, gains, generation)), fp)

\* The decision's admitted flag: a new entry that the cap did not retire.
IsAdmitted(ledger, fp, op, gains, generation, passes) ==
  /\ ~Known(ledger, fp, op)
  /\ \E i \in Entries(Admit(ledger, fp, op, gains, generation, passes), fp, op) :
       ~Admit(ledger, fp, op, gains, generation, passes)[i].retired

Applied(e, succeeded, generation) ==
  IF succeeded
  THEN [e EXCEPT !.applied = @ + 1, !.succeeded = @ + 1, !.consecutive_failures = 0,
                 !.last_success_generation = generation]
  ELSE [e EXCEPT !.applied = @ + 1, !.consecutive_failures = @ + 1,
                 !.retired = @ \/ e.consecutive_failures + 1 >= 2 * retirement_patience]
=============================================================================
