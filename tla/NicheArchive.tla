---------------------------- MODULE NicheArchive ----------------------------
(***************************************************************************)
(* The rules of cmd_audit/repair/niche_archive.py over an archive value:   *)
(* candidates maps the id of a revision to its record, elite maps a niche  *)
(* to its elite.  A revision id is the content hash of niche, operator and *)
(* producing case, so it is that triple.  Evidence maps a case to the gain *)
(* and cost of the revision on it; gains are integers in units of the      *)
(* success threshold, so a recovery is a gain of at least 1.               *)
(***************************************************************************)
EXTENDS Integers, FiniteSets, FiniteSetsExt, Sequences, SequencesExt, Functions

CONSTANTS
  Operators,
  N,          \* length of the case stream
  Niche,      \* descriptor.niche_id of each case, for the modelled arm
  FamilyOf,   \* family_id of each case
  IdRank      \* lexical order of the revision ids of an operator and a case

\* With one or two families the lower bound is the smaller family mean.
ASSUME FewFamilies ==
  /\ N \in Nat \ {0}
  /\ DOMAIN Niche = 1..N /\ DOMAIN FamilyOf = 1..N
  /\ IsFiniteSet(Range(FamilyOf)) /\ Cardinality(Range(FamilyOf)) <= 2
  /\ IdRank \in [Operators \X (1..N) -> Nat] /\ IsInjective(IdRank)

Cases == 1..N

\* f with x mapped to v.
Put(f, x, v) == [y \in DOMAIN f \cup {x} |-> IF y = x THEN v ELSE f[y]]

Revisions == [niche : Range(Niche), op : Operators, case : Cases]

Wins(e) == {c \in DOMAIN e : e[c].gain >= 1}

FamiliesOf(S) == {FamilyOf[c] : c \in S}

\* The first k of a set of cases.
FirstOf(S, k) == {c \in S : Cardinality({d \in S : d < c}) < k}

\* The k-th smallest of the values of S.
KthValue(S, value, k) ==
  CHOOSE v \in {value[c] : c \in S} :
    /\ Cardinality({c \in S : value[c] < v}) < k
    /\ Cardinality({c \in S : value[c] <= v}) >= k

\* Twice the median of value over S: the sum of its two middle values.
TwiceMedian(S, value) ==
  LET n == Cardinality(S)
  IN  KthValue(S, value, (n + 1) \div 2) + KthValue(S, value, n \div 2 + 1)

Gains(e) == [c \in DOMAIN e |-> e[c].gain]

Costs(e) == [c \in DOMAIN e |-> e[c].cost]

-----------------------------------------------------------------------------
(* Reading the archive.                                                    *)

\* Mistake: the niche is ignored.
LiveAnywhere(candidates, n) ==
  {r \in DOMAIN candidates : candidates[r].status # "retired"}

Live(candidates, n) ==
  {r \in DOMAIN candidates : r.niche = n /\ candidates[r].status # "retired"}

\* A revision without evidence has median gain -inf and median cost inf.
HigherMedian(e, f) ==
  /\ DOMAIN e # {}
  /\ \/ DOMAIN f = {}
     \/ TwiceMedian(DOMAIN e, Gains(e)) > TwiceMedian(DOMAIN f, Gains(f))

LowerCost(e, f) ==
  /\ DOMAIN e # {} /\ DOMAIN f # {}
  /\ TwiceMedian(DOMAIN e, Costs(e)) < TwiceMedian(DOMAIN f, Costs(f))

\* Stable first, then higher median gain, lower median cost, lower id.
RanksBefore(candidates, r, s) ==
  LET e == candidates[r].evidence
      f == candidates[s].evidence
      stable(x) == candidates[x].status = "stable"
  IN  \/ stable(r) /\ ~stable(s)
      \/ /\ stable(r) = stable(s)
         /\ \/ HigherMedian(e, f)
            \/ ~HigherMedian(f, e) /\ LowerCost(e, f)
            \/ /\ ~HigherMedian(f, e) /\ ~LowerCost(f, e)
               /\ IdRank[r.op, r.case] < IdRank[s.op, s.case]

\* candidates_for_descriptor: what is live in the niche and effective by case c,
\* best first.
CandidatesForDescriptor(candidates, n, c) ==
  {q \in SetToSeqs({r \in Live(candidates, n) : r.case + 1 <= c}) :
     \A i, j \in DOMAIN q : i < j => RanksBefore(candidates, q[i], q[j])}

-----------------------------------------------------------------------------
(* propose and record_validation.                                          *)

\* Mistake: only a stable revision blocks its operator.
StableTwin(candidates, n, o) ==
  \E r \in Live(candidates, n) : r.op = o /\ candidates[r].status = "stable"

HasLiveTwin(candidates, n, o) == \E r \in Live(candidates, n) : r.op = o

NewRecord == [status |-> "provisional", evidence |-> <<>>, anchors |-> {}]

Propose(candidates, n, o, c) ==
  LET r == [niche |-> n, op |-> o, case |-> c]
  IN  IF HasLiveTwin(candidates, n, o) \/ r \in DOMAIN candidates
      THEN candidates
      ELSE Put(candidates, r, NewRecord)

AnchorCases(r, wins) == {r.case} \cup FirstOf(wins, 3)

BecomesStable(wins) == Cardinality(wins) >= 3 /\ Cardinality(FamiliesOf(wins)) >= 2

RecordValidation(candidates, r, c, result) ==
  LET record == candidates[r]
      evidence == Put(record.evidence, c, result)
      wins == Wins(evidence)
      promoted == record.status = "provisional" /\ BecomesStable(wins)
  IN  [candidates EXCEPT ![r] =
        [status |-> IF promoted THEN "stable" ELSE record.status,
         evidence |-> evidence,
         anchors |-> IF promoted THEN AnchorCases(r, wins) ELSE record.anchors]]

-----------------------------------------------------------------------------
(* consider_elite.                                                         *)

PairedCases(e, f) == DOMAIN e \cap DOMAIN f

\* No anchor of the incumbent is missing from the challenger's recoveries.
PreservesAnchors(candidates, s, r) ==
  candidates[r].anchors \subseteq Wins(candidates[s].evidence)

TotalGain(e, f, S) == MapThenSumSet(LAMBDA c : e[c].gain - f[c].gain, S)

\* Positive mean, positive family-blocked lower bound.
Improves(e, f) ==
  LET paired == PairedCases(e, f)
  IN  /\ TotalGain(e, f, paired) > 0
      /\ \A x \in FamiliesOf(paired) :
           TotalGain(e, f, {c \in paired : FamilyOf[c] = x}) > 0

ChallengerOnly(e, f) == (Wins(e) \cap DOMAIN f) \ Wins(f)

CostOK(e, f) ==
  LET shared == Wins(e) \cap Wins(f)
  IN  shared # {} => TwiceMedian(shared, Costs(e)) <= TwiceMedian(shared, Costs(f))

\* Mistake: anchors are not checked.
ReplacesOnGain(candidates, s, r) ==
  LET e == candidates[s].evidence  f == candidates[r].evidence
  IN  Improves(e, f) /\ Cardinality(ChallengerOnly(e, f)) >= 3 /\ CostOK(e, f)

\* _paired_replacement decides "replace_elite" for challenger s, incumbent r.
Replaces(candidates, s, r) ==
  LET e == candidates[s].evidence  f == candidates[r].evidence
  IN  /\ PairedCases(e, f) # {}
      /\ PreservesAnchors(candidates, s, r)
      /\ Improves(e, f)
      /\ Cardinality(ChallengerOnly(e, f)) >= 3
      /\ CostOK(e, f)

FirstElite(candidates, elite, s) ==
  candidates[s].status = "stable" /\ s.niche \notin DOMAIN elite

Displaces(candidates, elite, s) ==
  /\ candidates[s].status = "stable"
  /\ s.niche \in DOMAIN elite
  /\ elite[s.niche] # s
  /\ Replaces(candidates, s, elite[s.niche])

\* Mistake: the challenger retires instead of the incumbent.
RetiresChallenger(candidates, elite, s) ==
  IF Displaces(candidates, elite, s)
  THEN [candidates EXCEPT ![s].status = "retired"]
  ELSE candidates

CandidatesAfter(candidates, elite, s) ==
  IF Displaces(candidates, elite, s)
  THEN [candidates EXCEPT ![elite[s.niche]].status = "retired"]
  ELSE candidates

EliteAfter(candidates, elite, s) ==
  IF FirstElite(candidates, elite, s) \/ Displaces(candidates, elite, s)
  THEN Put(elite, s.niche, s)
  ELSE elite
=============================================================================
