-------------------------- MODULE SkillAbstraction --------------------------
(***************************************************************************)
(* The two programs that write the failure memory: Experiment 19, which    *)
(* repairs a stream of cases and learns from the recovered ones, and       *)
(* build_skill_library_from_ledger, which replays an earlier ledger.  By   *)
(* default both write artifacts/sandbox/failure_memory_skill.              *)
(*                                                                         *)
(* Experiment 19 seeds each case with the repairs of similar cases: of the *)
(* loop's patterns first, then of the step records it keeps in memory.  If *)
(* no seed recovers the case, an exhaustive probe names a culprit action.  *)
(* A repair is a label and a hop; the probe has one generation point, so   *)
(* every hop of the experiment is 1 and lies within any depth.  A gain is  *)
(* net of the case's baseline; Late is the NaN of a rollout that timed out.*)
(***************************************************************************)
EXTENDS FailureMemory

CONSTANTS
  QueryWords,           \* per case, the keywords of its query
  ActionOrder,          \* the order in which the probe scores the actions
  Gains,                \* what a rollout can measure, Late included
  Late,
  min_credit,
  recovered_threshold,
  topk,                 \* seeds of a case
  neighbors             \* step records consulted for them

ASSUME SkillAbstractionAssumption ==
  /\ topk \in Nat \ {0} /\ neighbors \in Nat \ {0}
  /\ Late \in Gains /\ Late \notin Int /\ Gains \ {Late} \subseteq Int
  /\ min_credit \in Int /\ recovered_threshold \in Int
  /\ \A c \in Cases : IsFiniteSet(QueryWords[c])
  /\ \A c \in Cases : \A r \in RepairsOf[c] :
       r[1] \in ToSet(ActionOrder) /\ <<r[1], 1>> \in RepairsOf[c]

VARIABLES
  program,   \* which program runs
  passed,    \* cases of this run that were excluded or not recovered
  priors,    \* active_priors: a step record of each recovered case
  latest     \* the experiment's latest case and the repairs seen to recover it

experiment == <<program, passed, priors, latest>>
allVars == <<vars, experiment>>

Programs == {"experiment", "builder"}

\* No comparison with NaN holds.
Greater(x, y) == x # Late /\ y # Late /\ x > y

Recovers(gain) == Greater(gain, recovered_threshold)

-----------------------------------------------------------------------------
(* Seeds.                                                                  *)

\* retrieve_seed_pairs: the repairs of the patterns that share content with the
\* case, the most similar first.  Equals keep the order of a dict, left open here.
PatternSeeds(c) ==
  LET Sim(id) == Similarity(patterns[id].signature, Fingerprint(TextsOf[c]))
      similar == {id \in DOMAIN patterns : Sim(id)[1] > 0}
      orders == {s \in SetToSeqs(similar) :
                   \A i, j \in DOMAIN s : i < j => ~Exceeds(Sim(s[j]), Sim(s[i]))}
  IN  {FirstDistinct([i \in DOMAIN s |-> <<patterns[s[i]].label, patterns[s[i]].hop_index>>],
                     topk) : s \in orders}

\* from_mcts_result would key a record by its memory, but the experiment does not
\* pass the memory.
RecordKey(c) == QueryWords[c]

\* FailureMemoryStore.retrieve: the records whose key shares words with the
\* memory of the case, the most similar first, the earlier of equals first.
Neighbours(c) ==
  MostSimilar([i \in DOMAIN priors |-> priors[i].key], Fingerprint(TextsOf[c]), neighbors)

StoreSeeds(c) ==
  LET near == Neighbours(c)
  IN  FirstDistinct([i \in DOMAIN near |-> priors[near[i]].repair], topk)

\* Mistake: an action of another case is tried without asking whether it is legal.
AnyChoice(c, pairs) == pairs

\* _pairs_to_choices: safety needs an item that passed the safety filter.
LegalChoices(c, pairs) == AtPlaces(pairs, {i \in DOMAIN pairs : pairs[i] \in RepairsOf[c]})

\* _merge_pairs: the patterns' seeds before the store's.
Seeds(c) ==
  {LegalChoices(c, FirstDistinct(pairs \o StoreSeeds(c), topk)) : pairs \in PatternSeeds(c)}

-----------------------------------------------------------------------------
(* Rollouts of one case.                                                   *)

EndsRecovered(g) == g # <<>> /\ Recovers(Last(g))

\* _run_seed_stage: in order, and the first that recovers ends it.
SeedGains(seeds) ==
  {g \in BoundedSeq(Gains, Len(seeds)) :
     /\ \A i \in DOMAIN g : Recovers(g[i]) => i = Len(g)
     /\ Len(g) = Len(seeds) \/ EndsRecovered(g)}

\* best_scored_pair: the best measured gain, NaN when every seed timed out.
BestGain(g) ==
  LET measured == ToSet(g) \ {Late}
  IN  IF g = <<>> THEN 0 ELSE IF measured = {} THEN Late ELSE Max(measured)

Earlier(b, a) ==
  \E i, j \in DOMAIN ActionOrder : i < j /\ ActionOrder[i] = b /\ ActionOrder[j] = a

\* _evaluate_case: the first action with the highest credit above min_credit.
\* A credit that timed out is NaN; all are, if the identity rollout timed out.
Culprit(c, credits) ==
  {a \in DOMAIN credits :
     /\ Greater(credits[a], min_credit)
     /\ \A b \in DOMAIN credits \ {a} :
          /\ ~Greater(credits[b], credits[a])
          /\ Earlier(b, a) => credits[b] # credits[a]}

\* Mistake: the seeds' best is compared without asking whether it was measured.
Overtaken(best, gain) == IF Greater(gain, best) THEN gain ELSE best

\* The larger of the two gains; a seed stage that timed out gives way.
NetGain(best, gain) ==
  IF gain # Late /\ (best = Late \/ gain > best) THEN gain ELSE best

-----------------------------------------------------------------------------
(* Experiment 19, one case at a time.                                      *)

Visit(c) ==
  /\ program = "experiment" /\ step = 0
  /\ c \in Cases \ (recorded \cup passed)

PassOver(c, won) ==
  /\ passed' = passed \cup {c}
  /\ latest' = [case |-> c, won |-> won]
  /\ UNCHANGED <<vars, program, priors>>

\* The step record comes first, then record_recovered_case begins.
RecordRecovery(c, repair, won) ==
  /\ priors' = Append(priors, [case |-> c, key |-> RecordKey(c), repair |-> repair])
  /\ recorded' = recorded \cup {c}
  /\ current' = [case |-> c, label |-> repair[1], hop |-> repair[2], cluster |-> 0]
  /\ step' = 1
  /\ latest' = [case |-> c, won |-> won]
  /\ UNCHANGED <<files, loop, runs, program, passed>>

\* The baseline timed out: nothing of the case can be measured.
ExcludeCase(c) == Visit(c) /\ PassOver(c, {})

Winners(seeds, g) == {seeds[i] : i \in {k \in DOMAIN g : Recovers(g[k])}}

SeedRecovers(c) ==
  /\ Visit(c)
  /\ \E seeds \in Seeds(c) : \E g \in SeedGains(seeds) :
       /\ EndsRecovered(g)
       /\ RecordRecovery(c, seeds[Len(g)], Winners(seeds, g))

\* No seed recovers the case: the probe's culprit is repaired like a seed, and
\* recorded if its own gain recovers the case.
Fallback(c) ==
  /\ Visit(c)
  /\ \E seeds \in Seeds(c) : \E g \in SeedGains(seeds) :
       /\ ~EndsRecovered(g)
       /\ \E credits \in [{r[1] : r \in RepairsOf[c]} -> Gains] :
            IF Culprit(c, credits) = {} THEN PassOver(c, {})
            ELSE \E a \in Culprit(c, credits), gain \in Gains :
                   LET won == Winners(<<<<a, 1>>>>, <<gain>>)
                   IN  IF Recovers(gain) /\ Recovers(NetGain(BestGain(g), gain))
                       THEN RecordRecovery(c, <<a, 1>>, won)
                       ELSE PassOver(c, won)

-----------------------------------------------------------------------------

Nothing == [case |-> <<>>, won |-> {}]

StartProgram ==
  /\ program' \in Programs
  /\ passed' = {} /\ priors' = <<>> /\ latest' = Nothing

InitAll ==
  /\ Init
  /\ program \in Programs
  /\ passed = {} /\ priors = <<>> /\ latest = Nothing

\* The builder records the ledger's recovered cases.
Replay == program = "builder" /\ Recover /\ UNCHANGED experiment

Recording ==
  /\ WriteCase \/ ListCase \/ AssignCluster \/ WritePattern \/ ListPattern \/ KeepPattern
  /\ UNCHANGED experiment

NextAll ==
  \/ \E c \in Cases : ExcludeCase(c) \/ SeedRecovers(c) \/ Fallback(c)
  \/ Replay
  \/ Recording
  \/ RunAgain /\ StartProgram

SpecAll == InitAll /\ [][NextAll]_allVars
-----------------------------------------------------------------------------
\* The experiment records a case exactly if a rollout of it was measured above
\* the threshold, whatever timed out before, and then with the repair of that
\* rollout.
RecoveryIsWhatWasMeasured ==
  latest.case # <<>> =>
    /\ latest.case \in recorded <=> latest.won # {}
    /\ latest.case \in recorded => latest.won = {Last(priors).repair}

\* Both programs only do to the failure memory what FailureMemory lets a writer
\* do, so what is proved of it holds here: a repair learned from one case is
\* recorded for another only where it is legal.
ImplementsFailureMemory == Spec
=============================================================================
