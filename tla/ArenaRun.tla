------------------------------ MODULE ArenaRun ------------------------------
(***************************************************************************)
(* ObservationalArenaRunner of experiments/arena_runner_common.py over the *)
(* arena backend, in its sequential mode: every candidate of a case is     *)
(* measured, the positive gains are retained unless a structural signal    *)
(* routes, and one deposition may turn chains of two skills into composite *)
(* skills that live under OperatorGovernance, one removal may perturb the  *)
(* ecology.  What a model call returns is chosen; a gain is an integer or  *)
(* NoGain.  A composite is the pair of skills it merges, and stands for    *)
(* the operator's hash too.  Retained evidence is forgotten once its one   *)
(* reader has read it.                                                     *)
(***************************************************************************)
EXTENDS OperatorGovernance, Functions

CONSTANTS
  Stream,             \* cases: [family, failure, branch, indications]
  Seeds,              \* seed skills, the sequence in the order of their ids
  FamilyOf,           \* the last action's family of each seed
  ActionsOf,          \* the actions of each seed
  Measured,           \* per position and skill, the gains it may be measured at
  Chained,            \* what the chains of a case may be measured at, per pair
  Replayed,           \* the gains a confirmation may measure
  FailedAfter,        \* model calls after which a confirmation may fail
  candidate_limit, saturation_threshold,
  min_support, min_clusters, sign_alpha, direction_alpha,  \* alphas in percent
  max_candidates, confirmation_cases, dominance,
  window_size, stable_windows,
  Plans,              \* deposition position and removal position, 0 for none,
                      \* and the budget of confirmation calls
  NoGain, NoSkill

ArenaId == "arena"

ASSUME ArenaAssumption ==
  /\ confirmation_cases >= 3
  /\ Plans \subseteq Nat \X Nat \X (Nat \ {0})
  /\ min_support >= 1 /\ min_clusters >= 1
  /\ sign_alpha \in 1..99 /\ direction_alpha \in 1..99
  /\ FailedAfter \subseteq 0..3
  /\ window_size \in Nat \ {0} /\ stable_windows \in Nat \ {0}
  \* Not bounded by the cap of the runner's ledger, which is 5.
  /\ max_candidates \in Nat \ {0}

VARIABLES
  plan, policy, phase, position,
  attempts,        \* chain rows: case, pair, benefit
  anti_patterns,   \* pairs whose chain weight is lowered
  survivors,       \* candidates that D1 passed and D2 has yet to confirm
  deposited,       \* composites, in the order of their deposition
  ledger,          \* the governance ledger of the depositions
  lifecycle,       \* the backend's copy: status and eta of each composite
  calls,           \* model calls spent on confirmation
  tried, chosen,   \* per skill: cases that tried it, selections by failure
  removed, winners, previous, stable_run, recovered

depositionVars == <<attempts, anti_patterns, survivors, deposited, ledger, lifecycle, calls>>
probeVars == <<removed, winners, previous, stable_run, recovered>>
vars == <<plan, policy, phase, position, depositionVars, tried, chosen, probeVars>>

SeedSet == Range(Seeds)
Composites == {p \in SeedSet \X SeedSet : FamilyOf[p[1]] # FamilyOf[p[2]]}
Skills == SeedSet \cup Composites
Failures == {Stream[i].failure : i \in DOMAIN Stream}

\* One seed per repair action: finitely many, in a list.
ASSUME SeedsAreOrdered == Seeds \in Seq(SeedSet)

\* Ids of seeds begin with "seed:", ids of composites with "composite:".
ASSUME SeedsAreNoPairs == SeedSet \cap Composites = {}

Actions(k) ==
  IF k \in SeedSet THEN ActionsOf[k] ELSE ActionsOf[k[1]] \cup ActionsOf[k[2]]

IndexOf(k) == CHOOSE i \in DOMAIN Seeds : Seeds[i] = k

\* "composite:" ids come before "seed:" ids; hashes are ordered like the pairs.
IdRank(k) ==
  IF k \in SeedSet THEN Len(Seeds) * Len(Seeds) + Len(Seeds) + IndexOf(k)
  ELSE Len(Seeds) * IndexOf(k[1]) + IndexOf(k[2])

-----------------------------------------------------------------------------
(* The backend: which skills a case is offered.                            *)

\* Seeds rank as active with eta 1, probation composites last.
LifecycleOf(k) ==
  IF k \in DOMAIN lifecycle THEN lifecycle[k] ELSE [status |-> "active", eta |-> <<1, 1>>]

OfferedBefore(k, l) ==
  LET late(s) == IF LifecycleOf(s).status = "probation" THEN 1 ELSE 0
      less == LifecycleOf(l).eta[1] * LifecycleOf(k).eta[2]
                - LifecycleOf(k).eta[1] * LifecycleOf(l).eta[2]
  IN  \/ late(k) < late(l)
      \/ /\ late(k) = late(l)
         /\ less < 0 \/ (less = 0 /\ IdRank(k) < IdRank(l))

Available ==
  SeedSet \cup {k \in Range(deposited) : lifecycle[k].status # "retired"}

\* The first candidate_limit of them; the order among them is not read again.
Candidates(case) ==
  LET rows == Available \ {removed}
  IN  {k \in rows : /\ case.branch = "fix"
                    /\ Cardinality({l \in rows : OfferedBefore(l, k)}) < candidate_limit}

-----------------------------------------------------------------------------
(* Selection.                                                              *)

Worth(gain) == IF gain = NoGain THEN -1000 ELSE gain   \* _finite_score: minus infinity

ScoresBefore(gains, k, l) ==
  \/ Worth(gains[k]) > Worth(gains[l])
  \/ Worth(gains[k]) = Worth(gains[l]) /\ IdRank(k) < IdRank(l)

\* select_additive_saturation: the best positive gains until they reach the target.
Additive(gains) ==
  LET before(k, l) == ScoresBefore(gains, k, l)
      positive == SetToSortSeq({k \in DOMAIN gains : Worth(gains[k]) > 0}, before)
      sum(n) == Total([i \in 1..n |-> gains[positive[i]]])
  IN  SelectSeq(positive,
        LAMBDA k : \E n \in DOMAIN positive :
                     positive[n] = k /\ sum(n - 1) < saturation_threshold)

\* route: the best candidate, whatever its gain, of the strongest active signal
\* that names an action of a candidate.
Routed(case, gains) ==
  LET serves(i, k) == case.indications[i].action \in Actions(k)
      routes == {i \in DOMAIN case.indications :
                   /\ case.indications[i].signal \in policy
                   /\ \E k \in DOMAIN gains : serves(i, k)}
      best(S) == CHOOSE k \in S : \A l \in S \ {k} : ScoresBefore(gains, k, l)
  IN  IF routes = {} THEN Additive(gains)
      ELSE <<best({k \in DOMAIN gains : serves(Min(routes), k)})>>

WinnerOf(selected) == IF selected = <<>> THEN NoSkill ELSE selected[1]

-----------------------------------------------------------------------------
(* The life of the composites.                                             *)

\* Every composite that the case measured counts one application.
Live(gains, l) ==
  [i \in DOMAIN l |->
     LET k == l[i].operator
     IN  IF k \in Range(deposited) \cap DOMAIN gains
         THEN Applied(l[i], Worth(gains[k]) > 0, position + 1) ELSE l[i]]

EntryOf(l, k) == l[CHOOSE i \in Entries(l, ArenaId, k) : TRUE]

\* Mistake: the backend is told the status from before the application.
ToldEarly(gains, l) ==
  [k \in DOMAIN lifecycle |->
     IF k \in DOMAIN gains
     THEN [status |-> LifecycleStatus(EntryOf(ledger, k)), eta |-> Eta(EntryOf(ledger, k))]
     ELSE lifecycle[k]]

\* update_composite_lifecycle, for the composites that were applied.
Told(gains, l) ==
  [k \in DOMAIN lifecycle |->
     IF k \in DOMAIN gains
     THEN [status |-> LifecycleStatus(EntryOf(l, k)), eta |-> Eta(EntryOf(l, k))]
     ELSE lifecycle[k]]

-----------------------------------------------------------------------------
(* Removal of a skill and its observation.                                 *)

Untried == [k \in Skills |-> 0]
Unchosen == [k \in Skills |-> [f \in Failures |-> 0]]

SumOver(f) == SumFunctionOnSet(f, DOMAIN f)

\* The keystone has the highest selection rate over the skills that were tried.
Keystone(t, c) ==
  LET skills == {k \in Skills : t[k] > 0}
  IN  IF \A k \in skills : SumOver(c[k]) = 0 THEN NoSkill
      ELSE CHOOSE k \in skills : \A l \in skills \ {k} :
             LET d == SumOver(c[k]) * t[l] - SumOver(c[l]) * t[k]
             IN  d > 0 \/ (d = 0 /\ IdRank(k) < IdRank(l))

\* _winner_distribution: a count per winner, empty without winners.
Distribution(w) ==
  [k \in Range(w) \ {NoSkill} |-> Cardinality({i \in DOMAIN w : w[i] = k})]

\* No window has been closed: no distribution counts NoSkill.
NoCount == [k \in {NoSkill} |-> 0]

\* The divergence of two windows is within the threshold.  For windows of a few
\* winners, as modelled, the default threshold admits equal distributions only.
Agree(p, q) ==
  /\ DOMAIN p = DOMAIN q
  /\ \A k \in DOMAIN p : p[k] * SumOver(q) = q[k] * SumOver(p)

\* Mistake: a window without winners is skipped.
SkipWinnerless(d) ==
  IF DOMAIN d = {} THEN [run |-> stable_run, last |-> previous]
  ELSE [run |-> IF previous = NoCount THEN stable_run
                ELSE IF Agree(previous, d) THEN stable_run + 1 ELSE 0,
        last |-> d]

\* A window without winners agrees with none, neither before nor after it.
AfterWindow(d) ==
  [run |-> IF DOMAIN d = {} THEN 0
           ELSE IF previous = NoCount THEN stable_run
           ELSE IF Agree(previous, d) THEN stable_run + 1 ELSE 0,
   last |-> d]

Observe(winner) ==
  LET w == Append(winners, winner)
      d == Distribution(SubSeq(w, Len(w) - window_size + 1, Len(w)))
  IN  /\ winners' = w
      /\ IF Len(w) % window_size = 0
         THEN /\ previous' = AfterWindow(d).last
              /\ stable_run' = AfterWindow(d).run
              /\ recovered' = IF recovered = 0 /\ stable_run' >= stable_windows
                              THEN Len(w) ELSE recovered
         ELSE UNCHANGED <<previous, stable_run, recovered>>
      /\ UNCHANGED removed

RemoveSkill(t, c) ==
  /\ removed' = IF plan[2] # 0 /\ position + 1 >= plan[2] THEN Keystone(t, c) ELSE NoSkill
  /\ UNCHANGED <<winners, previous, stable_run, recovered>>

-----------------------------------------------------------------------------
(* D1: the zero-call gate over the chain attempts.                         *)

RowsOf(a, p) == {r \in a : r.pair = p}
Flip(p) == <<p[2], p[1]>>

\* Of the 2^n outcomes of n fair coins, those with at least k heads, for each k.
AtLeast(n) ==
  LET row[m \in 0..n] ==
        IF m = 0 THEN [k \in 0..(n + 1) |-> IF k = 0 THEN 1 ELSE 0]
        ELSE LET last == row[m - 1]
             IN  [k \in 0..(n + 1) |-> last[IF k = 0 THEN 0 ELSE k - 1] + last[k]]
  IN  row[n]

\* P[X >= positive] < alpha / 100 for the heads X of n fair coins.
SignTestPasses(positive, negative, alpha) ==
  LET heads == AtLeast(positive + negative)
  IN  100 * heads[positive] < alpha * heads[0]

Twins(a, p) ==
  {t \in RowsOf(a, p) \X RowsOf(a, Flip(p)) : t[1].case = t[2].case}

SumBenefit(R) == MapThenSumSet(LAMBDA r : r.benefit, R)

\* The median's lower bound is positive, or its upper bound is negative.
BoundAbove(R) ==
  IF \A r \in R : r.benefit > 0 THEN {TRUE}
  ELSE IF 2 * Cardinality({r \in R : r.benefit <= 0}) >= Cardinality(R) THEN {FALSE}
  ELSE BOOLEAN

BoundBelow(R) ==
  IF \A r \in R : r.benefit < 0 THEN {TRUE}
  ELSE IF 2 * Cardinality({r \in R : r.benefit >= 0}) >= Cardinality(R) THEN {FALSE}
  ELSE BOOLEAN

\* Mistake: it is enough that the other order was measured.
HasReverse(a, p) == Twins(a, p) # {}

BeatsReverse(a, p) ==
  LET twins == Twins(a, p)
      R == RowsOf(a, p)
      reverse == {t[2] : t \in twins}
  IN  /\ twins # {}
      /\ SumBenefit(R) * Cardinality(reverse) > SumBenefit(reverse) * Cardinality(R)
      /\ SignTestPasses(Cardinality({t \in twins : t[1].benefit > t[2].benefit}),
                        Cardinality({t \in twins : t[1].benefit < t[2].benefit}),
                        direction_alpha)

PassesD1(a, p) ==
  LET R == RowsOf(a, p) IN
  /\ Cardinality(R) >= min_support
  /\ Cardinality({Stream[r.case].family : r \in R}) >= min_clusters
  /\ SignTestPasses(Cardinality({r \in R : r.benefit > 0}),
                    Cardinality({r \in R : r.benefit < 0}), sign_alpha)
  /\ BeatsReverse(a, p)

\* The best max_candidates of them: by bound, by median, then by ids.  The
\* bounds are not modelled, so any order among the survivors may come out.
SurvivorLists(S) ==
  {s \in BoundedSeq(S, max_candidates) :
     IsInjective(s) /\ Len(s) = Min({Cardinality(S), max_candidates})}

-----------------------------------------------------------------------------
Chains(offered) ==
  {p \in Composites : p[1] \in offered /\ p[2] \in offered}

\* An anti-pattern pair is run on a quarter of the cases, chosen by a hash.
Scheduled(pairs) == {S \in SUBSET pairs : pairs \ anti_patterns \subseteq S}

\* The attempts are kept while a deposition may still read them.
Collecting == plan[1] # 0 /\ position < plan[1]

\* One case: measure, count the composites' applications, select, observe.
RunCase ==
  /\ phase = "case" /\ position < Len(Stream)
  /\ LET case == Stream[position + 1]
         offered == Candidates(case)
     IN  \E gains \in {g \in [offered -> UNION Range(Measured[position + 1])] :
                         \A k \in offered : g[k] \in Measured[position + 1][k]} :
           LET selected == Routed(case, gains)
               l == Live(gains, ledger)
               tries == [k \in Skills |-> tried[k] + (IF k \in offered THEN 1 ELSE 0)]
               wins == [k \in Skills |->
                          IF k \in Range(selected)
                          THEN [chosen[k] EXCEPT ![case.failure] = @ + 1] ELSE chosen[k]]
           IN  /\ ledger' = l /\ lifecycle' = Told(gains, l)
               /\ \E rows \in IF Collecting THEN Scheduled(Chains(offered)) ELSE {{}} :
                    \E b \in Chained :
                      attempts' = attempts \cup
                        {[case |-> position + 1, pair |-> p, benefit |-> b[p]] :
                           p \in {q \in rows : b[q] # NoGain}}
               /\ IF \E k \in Range(selected) : gains[k] = NoGain
                  THEN /\ phase' = "crashed"     \* float(None)
                       /\ UNCHANGED <<position, probeVars, tried, chosen>>
                  ELSE /\ phase' = IF plan[1] = position + 1 THEN "promote" ELSE "case"
                       /\ position' = position + 1
                       /\ IF removed # NoSkill
                          THEN Observe(WinnerOf(selected)) /\ UNCHANGED <<tried, chosen>>
                          ELSE /\ RemoveSkill(tries, wins)
                               /\ IF plan[2] = 0 \/ removed' # NoSkill
                                  THEN tried' = Untried /\ chosen' = Unchosen
                                  ELSE tried' = tries /\ chosen' = wins
  /\ UNCHANGED <<plan, policy, anti_patterns, survivors, deposited, calls>>

\* The one deposition: D1 over every pair, then the best survivors.
Promote ==
  /\ phase = "promote"
  /\ LET passed == {p \in Composites : RowsOf(attempts, p) # {} /\ PassesD1(attempts, p)}
         weak(p) == Cardinality(RowsOf(attempts, p)) >= min_support
     IN  \E above \in [passed -> BOOLEAN], below \in [Composites -> BOOLEAN] :
           /\ \A p \in passed : above[p] \in BoundAbove(RowsOf(attempts, p))
           /\ \A p \in Composites :
                below[p] \in IF weak(p) THEN BoundBelow(RowsOf(attempts, p)) ELSE {FALSE}
           /\ anti_patterns' = {p \in Composites : below[p]}
           /\ survivors' \in SurvivorLists({p \in passed : above[p]})
  /\ phase' = "confirm"
  /\ UNCHANGED <<plan, policy, position, attempts, deposited, ledger, lifecycle, calls,
                 tried, chosen, probeVars>>

\* Each call of each replay.
Calls(replays) ==
  Cardinality(UNION {{i} \X (1..replays[i].calls) : i \in DOMAIN replays})

\* Mistake: a replay starts while any of the budget is left.
SomeLeft(used) == calls + used < plan[3]

\* The next replay starts only if three more calls fit the budget.
Fits(used) == calls + used + 3 <= plan[3]

\* An error or an unparsable score leaves no gain, after none or some of the calls.
ReplayOutcomes == [calls : FailedAfter, gain : {NoGain}] \cup [calls : {3}, gain : Replayed]

\* What replaying n support cases may return.
Replays(n) ==
  {r \in BoundedSeq(ReplayOutcomes, n) :
     /\ \A i \in DOMAIN r : Fits(Calls(SubSeq(r, 1, i - 1)))
     /\ Len(r) = n \/ ~Fits(Calls(r))}

\* D2 and D3 for one survivor.  The operator is admitted on whatever gains
\* came back, even when the confirmation is incomplete.  Whom the cap retires to
\* admit it is not read: a composite deposited before stays in the backend.
Confirm ==
  /\ phase = "confirm" /\ survivors # <<>>
  /\ LET p == survivors[1]
         n == Min({confirmation_cases, Cardinality(RowsOf(attempts, p))})
     IN  \E r \in Replays(n) :
         LET gains == SelectSeq([i \in DOMAIN r |-> r[i].gain], LAMBDA g : g # NoGain)
             complete == Len(r) = confirmation_cases /\ Len(gains) = Len(r)
         IN  \E passes \in PassesReplay(gains), wins \in 0..Len(gains) :
             LET d2 == /\ complete /\ passes
                       /\ IsAdmitted(ledger, ArenaId, p, gains, position, passes)
                 d3 == complete /\ 100 * wins >= dominance * Len(r)
             IN  /\ ledger' = Admit(ledger, ArenaId, p, gains, position, passes)
                 /\ calls' = calls + Calls(r)
                 /\ IF d2 /\ d3
                    THEN /\ deposited' = Append(deposited, p)
                         /\ lifecycle' = [k \in DOMAIN lifecycle \cup {p} |->
                              IF k = p THEN [status |-> "probation", eta |-> <<1, 2>>]
                              ELSE lifecycle[k]]
                    ELSE UNCHANGED <<deposited, lifecycle>>
  /\ survivors' = Tail(survivors)
  /\ UNCHANGED <<plan, policy, phase, position, attempts, anti_patterns,
                 tried, chosen, probeVars>>

Resume ==
  /\ phase = "confirm" /\ survivors = <<>>
  /\ phase' = "case" /\ attempts' = {}
  /\ UNCHANGED <<plan, policy, position, anti_patterns, survivors, deposited, ledger,
                 lifecycle, calls, tried, chosen, probeVars>>

Finish ==
  /\ phase = "case" /\ position = Len(Stream)
  /\ phase' = "done"
  /\ UNCHANGED <<plan, policy, position, depositionVars, tried, chosen, probeVars>>

RunInit ==
  /\ plan = <<0, 0, 1>> /\ position = 0
  /\ attempts = {} /\ anti_patterns = {} /\ survivors = <<>> /\ deposited = <<>>
  /\ ledger = <<>> /\ lifecycle = <<>> /\ calls = 0
  /\ tried = Untried /\ chosen = Unchosen
  /\ removed = NoSkill /\ winners = <<>> /\ previous = NoCount
  /\ stable_run = 0 /\ recovered = 0

RunNext == RunCase \/ Promote \/ Confirm \/ Resume \/ Finish
-----------------------------------------------------------------------------
\* The backend calls a composite retired only if the ledger does, and learns of
\* each retirement: at once when an application caused it, and in the first case
\* that measures the composite when the cap did, since Confirm tells nobody whom
\* the cap retired.  So an entry is retired by the failures that patience allows,
\* or by a cap that was exceeded, and then it is applied once more at most.
RetirementIsTold ==
  \A k \in Range(deposited) :
    LET e == EntryOf(ledger, k)
    IN  /\ lifecycle[k].status = "retired" => e.retired
        /\ e.retired => lifecycle[k].status = "retired" \/ e.applied = 0
        /\ e.retired => \/ e.consecutive_failures = 2 * retirement_patience
                        \/ e.applied <= 1 /\ Len(ledger) > active_cap

\* The confirmation spends no more calls than its budget, over all survivors,
\* however the replays fail.
ConfirmationWithinBudget == calls <= plan[3]

\* Two skills are never merged in both orders: each order would have to beat
\* the other on the cases that measured both.
OneDirectionPerPair ==
  \A i \in DOMAIN ledger : ~Known(ledger, ArenaId, Flip(ledger[i].operator))

\* The windows that the probe closed up to the n-th winner.
Window(n) == Distribution(SubSeq(winners, n - window_size + 1, n))

\* A recovery is reported only where that many comparisons in a row agree, each
\* of two windows that have winners: a window without one starts over.
RecoveryIsStable ==
  recovered # 0 =>
    \A i \in 0..stable_windows :
      LET n == recovered - i * window_size
      IN  /\ n >= window_size /\ DOMAIN Window(n) # {}
          /\ i > 0 => Agree(Window(n), Window(n + window_size))
=============================================================================
