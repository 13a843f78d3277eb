--------------------------- MODULE EvolutionRules ---------------------------
(***************************************************************************)
(* The decision rules of cmd_audit/repair/evolution.py as state-free       *)
(* operators.  A case is its index in the update stream, so a set of cases *)
(* carries the ledger's insertion order; a recurrence family is a value,   *)
(* with NoFamily for the None the evidence record allows.                  *)
(***************************************************************************)
EXTENDS Integers, FiniteSets, FiniteSetsExt, Sequences, SequencesExt

CONSTANT NoFamily

EXPLOITATION_SLOTS == 3
EXPLORATION_SLOTS == 2
MAX_SKILL_ATTEMPTS == EXPLOITATION_SLOTS + EXPLORATION_SLOTS

-----------------------------------------------------------------------------
(* Promotion: which successes of a revision become its validation cases.   *)

\* The first k successes, the slice unique[:k].
Earliest(S, k) == {c \in S : Cardinality({d \in S : d < c}) < k}

\* The recurrence families that S names; a None family is not one.
Families(S, family) == {family[c] : c \in S} \ {NoFamily}

CrossFamily(S, family) == Cardinality(Families(S, family)) >= 2

\* Three successes of two families: the promotion rule.
Promotable(S, family) == Cardinality(S) >= 3 /\ CrossFamily(S, family)

\* The shortest prefix of at least three successes that names two families.
ValidationPrefix(S, family) ==
  {c \in S : \A k \in 3..Cardinality(S) :
                CrossFamily(Earliest(S, k), family) => c \in Earliest(S, k)}

\* Order of the triple nested loop: the first row where T and U differ is T's.
ScannedBefore(T, U) == T = U \/ Min(SymDiff(T, U)) \in T

CrossFamilyTriples(S, family) ==
  {T \in SUBSET S : Cardinality(T) = 3 /\ CrossFamily(T, family)}

\* Mistake: any cross-family triple will do.
IsCrossFamilyThree(T, S, family) == T \in CrossFamilyTriples(S, family)

IsEarliestCrossFamilyThree(T, S, family) ==
  /\ T \in CrossFamilyTriples(S, family)
  /\ \A U \in CrossFamilyTriples(S, family) : ScannedBefore(T, U)

\* T is the validation triple that promotion_decision selects among S.  The
\* first three stand when they carry two values, and there the code counts None.
IsValidationTriple(T, S, family) ==
  LET first == Earliest(S, 3)
  IN  /\ Promotable(S, family)
      /\ \/ /\ Cardinality({family[c] : c \in first}) >= 2
            /\ T = first
         \/ /\ Cardinality({family[c] : c \in first}) < 2
            /\ IsEarliestCrossFamilyThree(T, ValidationPrefix(S, family), family)

\* A provisional revision is given up after three failures and no success.
ShouldRetireProvisional(won, lost) == won = {} /\ Cardinality(lost) >= 3

-----------------------------------------------------------------------------
(* Retrieval: the deterministic 3 + 2 quota over two ranked queues.        *)

First(q, k) == SubSeq(q, 1, Min({k, Len(q)}))

Slice(q, from, k) == SubSeq(q, from + 1, Min({from + k, Len(q)}))

\* Mistake: stable revisions may use every slot.
StableFirst(stable, provisional) == First(stable \o provisional, MAX_SKILL_ATTEMPTS)

\* Unused exploitation slots go to exploration and the other way round.
FillQuota(stable, provisional) ==
  LET spareStable == Max({0, EXPLOITATION_SLOTS - Len(stable)})
      spareProvisional == Max({0, EXPLORATION_SLOTS - Len(provisional)})
  IN  First(stable, EXPLOITATION_SLOTS)
        \o First(provisional, EXPLORATION_SLOTS + spareStable)
        \o Slice(stable, EXPLOITATION_SLOTS, spareProvisional)

\* The ways to enumerate S that its sort key allows: members that the modelled
\* key, as the relation before, does not separate may come in either order.
RankedQueues(S, before) ==
  {q \in SetToSeqs(S) : \A i, j \in DOMAIN q : i < j => <<q[j], q[i]>> \notin before}

-----------------------------------------------------------------------------
(* Checkpoint replay and paired comparison.                                *)

\* Mistake: a good checkpoint forgets nothing.
TotalRegressions(consecutive, regressed) ==
  IF regressed THEN consecutive + 1 ELSE consecutive

\* record_checkpoint: consecutive checkpoints with a lost anchor.
NextRegressions(consecutive, regressed) ==
  IF regressed THEN consecutive + 1 ELSE 0

RetiresOnRegressions(consecutive) == consecutive >= 2
=============================================================================
