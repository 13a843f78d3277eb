# CMD-Audit in TLA+

TLA+ modules, TLC configurations and TLAPS proofs for the stateful parts of
CMD-Audit (`src/cmd_audit`, `src/experiments`): a Python library that audits the
memory of an agent, attributes a failure to one operation, repairs it, and keeps
what it learns from repairs in versioned libraries, archives and ledgers.

Paths below are relative to the repository. `PROJECT.json` lists the components,
the runs, one plausible bug per checked property (a *mutant*: the operators whose
comment begins with "Mistake"), the source lines behind every definition, the
hazards and the theorems.

Check a run with `tlc -config MCSkillEvolution_run.cfg MCSkillEvolution`,
proofs with, for example, `tlapm SkillEvolutionProofs.tla`.

## 1. The system

The code is single-threaded wherever it keeps state (the one thread pool, in
`cmd_audit/scoring/llm.py`, maps independent calls and keeps their order; the arena
refuses its parallel workers whenever it deposits, removes or evolves). What makes
it hard is therefore not data races but

- *transactions that are not*: multi-step updates interrupted by an exception,
  or by the death of the process;
- *order*: evaluation must precede the update of every arm, retirement happens in
  the commit that adds the deciding failure, a replacement happens inside a loop
  over copies of what it replaces;
- *several places that must agree*: a governance ledger, the backend's copy of it
  and a candidate list; a memory, its files and their index; a graph and the
  archive that its edges name;
- *long protocols*: a skill takes at least four cases to become stable and two
  further checkpoints to retire, a composite is measured, gated, confirmed, told
  to the backend and retired, and tests seldom go that far;
- *processes that share files*: an agent writes to its directory while a repair
  runs, an auditor writes the scope ledger that an arena reads, a program that
  records failures is killed and run again on the same directory;
- *budgets and caps* that a partly failed step uses up in part.

### Components

| Component | State | Operations | Talks to | What makes it correct |
|---|---|---|---|---|
| **Skill-evolution rules** `repair/evolution.py` 1-540 | none | `promotion_decision`, `should_retire_provisional`, `retrieve_revisions`, `record_checkpoint` | called by coordinator and runner | the triple is unique and earliest; the quota wastes nothing |
| **Evolution store** `repair/operator_library.py` | patterns, specs, revisions, tapes, evidence, weights, anchor sets, lifecycle events, a chain of versions per arm | `append_*`, `commit_library_version`, `head`, `lifecycle_state` | written by the coordinator only | append-only; every version explained by events |
| **Coordinator** `EvolutionCoordinator` | none besides the store | `commit_case`, `promote_revision`, `retire_revision` | store, weights | evaluate before update; a case is one version in every arm |
| **Offline runner** `experiments/evolution_runner_common.py` | regression tracker, case histories | `run`, `_promote_eligible`, `_run_checkpoint_audit` | backend callbacks, coordinator | ends; nothing eligible is forgotten |
| **Memory-directory repair** `repair/store_repair.py`, `item_gate/bucketing.py`, `item_gate/freshness.py` | the Markdown directory, `.cmd/snapshots`, `.cmd/demoted` | `plan_store_repair`, `execute_store_repair` | file system, agent, acceptance probe | nothing is lost; all or nothing |
| **Niche archive** `repair/niche_archive.py` | candidate records, one elite per niche | `propose`, `record_validation`, `consider_elite`, `candidates_for_descriptor` | descriptors | one live revision per operator; evidence is independent; an elite is earned |
| **Skill graph** `repair/skill_graph.py` | edges between niches, attempts | `audit_transfer`, `audit_composition` | read by the niche runner | acyclic, whatever moves an edge |
| **Niche runner** `experiments/niche_evolution_runner.py` | archives of two arms, outcomes | `run`, `_update_archive` | archive, graph, seed provider, execution callback | the update never affects the outcomes |
| **Operator governance** `repair/governance.py` | operator ledger under an active cap | `admit_with_cluster_replay`, `record_application`, `_enforce_active_cap` | durability experiment, arena | cap respected; a retired shape is never admitted again |
| **Durable repair store** `repair/durable_store.py` | rules | `write_back`, `snapshot`, `restore`, `materialize` | experiment 25, governance | no family meets another's rule |
| **Scope ledger** `repair/scope_ledger.py` | entries, undo history, a file | `audit`, `rollback`, `write`, `read`, `to_scope_policy` | auditor and arena processes | always readable; retirement undone only by going back |
| **Structural router** `repair/structural_router.py` | none | `route` | scope policy, arena | only an active signal routes |
| **Arena runner and backend** `experiments/arena_runner_common.py`, `arena_backends.py` | deposited composites, lifecycle copy, confirmation budget, removal probe | `run`, deposition, confirmation, removal | governance, chain dynamics, ecology, router | budget kept; one direction per pair; the backend follows the ledger's retirements |
| **Chain dynamics** `repair/chain_dynamics.py` | attempts, anti-patterns | `observe`, `promote_candidates` | arena | a pair is not promoted in both orders |
| **Skill ecology** `repair/skill_ecology.py` | a probe's windows | `select_additive_saturation`, `PerturbationProbe.observe` | arena | a recovery is a stable one |
| **Failure memory** `repair/failure_memory.py` | clusters, patterns, case and pattern files, an index | `record_recovered_case`, `write_*`, `load_patterns` | experiment 19, library builder, cold loop | index, patterns and cases agree after any kill |
| **Audit harness** `harness.py` | a shared failure memory, the agent's store behind an adapter | `run_case`, `run_cases` | all of the rows below | one result per case |
| **Runtime hook** `hook/post_retrieve_hook.py` | none | `post_retrieve_hook` | failure memory | a shared experience opens a case |
| **Counterfactual search** `counterfactual/search.py`, `rollout.py`, `actions.py` | credits of a case, its clock | `search`, `rollout_to_terminal` | model client, failure memory's priors | the report accounts for every action; a timeout convicts nothing |
| **Repair orchestrator** `repair/orchestrator.py`, `executor.py` | attempts of a case | `run`, `apply_repair` | adapters, model client | stops at the first that recovered, or tries every label that gained |
| **Agent adapters** `adapters/mem0.py`, `letta.py` | a sandboxed store with a checksum | `apply_repair` | executor | a repair is applied or reported as not applied |
| **Item gate** `item_gate/gate.py`, `collision.py`, `loo.py` | one scan over a recall set | `run_item_gate_for_recall_set`, `item_signal_hints_from_result` | harness, subagent loop, model client | the hints never put a stale fact first |
| **Operator trajectory** `experiments/run_experiment_24_operator_trajectory.py` | a growing and a frozen library of shapes | the loop of `main` | model client, fingerprints | the arms differ by the growth of a library alone |
| **Rollout cache** | memoised observations | `score` | model client | stable judge |
| **Prequential runner** | as the offline runner, audited at every eighth | `run_prequential` | as the offline runner | as the offline runner |
| Adapters, scoring, replays, baselines, evaluation, data, command line, model client | none worth modelling | conversion, statistics, I/O | | |

The rows down to *Operator trajectory*, and the prequential runner, are modelled; `PROJECT.json` says for each
component what is and what is not, and why.

### Interactions

- `OfflineEvolutionRunner.run` freezes the head of every arm, calls
  `backend.rollout` through each arm's retrieved revisions, calls shadow
  discovery, and hands everything to `EvolutionCoordinator.commit_case`, which
  appends evidence and one library version per arm; `_promote_eligible` and
  `_run_checkpoint_audit` add further versions. (`SkillEvolution`.)
- The **niche runner** does the same with a `NicheArchive` and without versions,
  and in one arm also executes the sources of the edges of a **skill graph** that
  was audited before. (`AuditedNiches`.)
- The **durability experiment** drives a durable store and the governance ledger:
  the store is restored after every family, the ledger is not.
  (`RepairDurability`, over `OperatorGovernance`.)
- The **arena** composes most of the repair layer: chain dynamics proposes
  composites, confirmation replays spend a budget and go through governance, the
  backend offers what governance has not retired, the router may override the
  additive selection, and a removal perturbs the ecology. Its policy comes from a
  **scope ledger** file that another process audits and writes. (`ScopedArena`,
  over `ArenaRun`, `OperatorGovernance` and `ScopeLedger`.)
- The **failure memory** is written by Experiment 19 and by the library builder,
  either of which may be killed, and read by a cold loop. Experiment 19 also reads
  what it wrote: a recovered case seeds the later ones. (`SkillAbstraction`, over
  `FailureMemory`.)
- The **audit** takes each case through the hook, the reuse of operators, the
  exhaustive search and the iterated repair. Cases share a step-record memory, which
  a search extends and which the hook, the reuse and the search's priors read, and an
  adapter that every repair changes. (`AuditRun`.)
- The **item gate** scans what a query recalled, and its hints order the evidence
  that is rebuilt for the answer. (`ItemGate`.)
- **Experiment 24** replays the shapes that recovered earlier cases, in four arms
  that share their candidates or their discovery scan. (`OperatorTrajectory`.)
- `execute_store_repair` is called from the command line on a directory that
  belongs to a running agent. (`StoreRepair`.)

These groups share no state with each other, so they are not composed further.

## 2. Modules

    EvolutionRules ----------> SkillLifecycle   (what is promised about one skill)
         |    \                     ^
         |     \                    | INSTANCE ... WITH  (refinement)
         |      `-------------> SkillEvolution ----> MCSkillEvolution
         |                          |
         |                          `---> SkillEvolutionProofs
         `--> DecisionRules --> MCRules     (its proofs are in SkillEvolutionProofs)
                                   ^
    ItemGate ----------------------|
    OperatorTrajectory ------------'   (over Fingerprints; proofs in FailureMemoryProofs)

    Rankings ---> RankingTheorems   (over Fingerprints; what every proof about a list,
         |                           a sort or a rank cites)
         `--> Fingerprints, ItemGate, OperatorTrajectory, StoreRepair, AuditRun,
              SkillAbstraction

    StoreRepair ---> MCStoreRepair
         `---> StoreRepairProofs   (also over ItemGate: what freshness does to files,
                                    and to the evidence of one query)

    NicheArchive --> NicheEvolution --> AuditedNiches ---> MCNicheEvolution
                                             ^    |
    SkillGraph ------------------------------'    `---> AuditedNichesProofs

    OperatorGovernance --> RepairDurability ---> MCRepairDurability
         |                      `---> RepairDurabilityProofs
         `---> ArenaRun --> ScopedArena ---> MCArena
                                ^   |
    ScopeLedger ----------------'   `---> ScopedArenaProofs

    Fingerprints --> FailureMemory ---> SkillAbstraction ---> MCSkillAbstraction
         |                ^  |                 |
         |                |  `---> FailureMemoryProofs
         |                `--------------------'  (refinement: the programs only do
         |                                          what it lets a writer do)
         `---------> AuditRun ---> MCAuditRun
                         `---> AuditRunProofs

### EvolutionRules

The state-free decisions of `evolution.py`. A case is its index in the update
stream, so a *set* of cases already carries the order in which the ledger holds
them, and "first k" is a rank. `IsValidationTriple` is `promotion_decision`: the
first three successes if they carry two values, else the first cross-family triple,
in the order of the nested loops, of the shortest prefix that names two families.
`FillQuota` is the 3 + 2 retrieval quota with its backfill in both directions.
`DecisionRules` states what the two rules promise: it grows a history of successes, and
two queues of ranked entries, step by step. `MCRules` runs it and the two modules that
share no state with any other, `ItemGate` and `OperatorTrajectory`: a behaviour takes one
of four parts (promotion, quota, gate, trajectory) and stays with it. `RulesConstants`
says that no family is `None`: every runner writes `str(...)` of the case's family into
the evidence.

### SkillEvolution

The runner, the coordinator and the store. One action per unit that an exception
cannot split:

| Action | Code |
|---|---|
| `EvaluateCase` | one iteration of `run` up to and including the append of the tape: retrieval, execution in order until the first recovery, discovery |
| `CommitArm(a)` | the body of `commit_case`'s loop for one arm: evidence, tape deposits, provisional retirement, posteriors, library version, events |
| `RejectEvidence(a)`, `RejectTape(a)` | the same, stopped by an exception: a timed-out execution has a NaN gain that `canonical_json` refuses; a deposit in the patterned arm on a case without a matched pattern has no pattern to carry |
| `Promote(a, s)`, `EndPromotion(a)` | `_promote_eligible`: the loop that restarts after each promotion |
| `AuditRevision(a, s)`, `RejectReplay(a, s)` | `_run_checkpoint_audit` for one stable revision, and its exception |

State: the store's collections (`born`, `evidence`, `versions`, `lifecycle`,
`anchors`, `tapes`), the regression tracker, and the runner's place (`phase`,
`arm`, `outcome`, `auditing`). A revision is the pair of its arm and its spec,
because `commit_case` deposits a spec once per arm. Rollout results, discovery,
paired comparison and anchor replay are nondeterministic: they are callbacks into
models. Weights are the pair of counts they are computed from; the quantile is a
constant table (`MCSkillEvolution` holds the values that `evolution.py` computes)
and only orders retrieval, and orders it leaves open (ties broken by medians and
by hashes) are all allowed.

### SkillLifecycle

The abstract specification: what the loop promises about one skill with no mention
of versions, tapes, ledgers or audits. It is on trial, becomes stable by three
successes of two families that stay its anchors, is given up after three failures
without a success, never returns from retirement, and *only its own runs decide*.
`SkillEvolution!ImplementsLifecycle` maps state to the head version, wins and
losses to runtime rows.

### StoreRepair

`execute_store_repair` with **every file operation an action**: plan, checksum,
listing, copy of one file, move of one file, validation, unlink of one file, copy
back of one file, final checksum. A loop's list (`todo`) holds pairs of a bucket and a
fact and is visited in that order (`AtTurn`). The process may die between any two (`Crash`),
a file that is gone raises (`Gone`), and the agent writes and drops facts in the
phases that `agent`, chosen from `Agents`, names. Bucketing (`Place`) is the greedy
choice of the first most similar open bucket; freshness (`Stale`) the distance to
the newest fact of the bucket. A file's content is its timestamp; a checksum is the
directory it digests, i.e. the digest is collision-free.

### NicheArchive, NicheEvolution, SkillGraph and AuditedNiches

`NicheArchive` holds the archive's rules over a value (`candidates`, `elite`):
retrieval order, `Propose`, `RecordValidation`, and the conjuncts of
`_paired_replacement` (`Replaces`). `NicheEvolution` is the runner on one updating
arm; the other arms own independent archives and differ only in the niche a case
maps to. `TestCase` executes what the archive held before the case; `queue` is the
list of copies that `_update_archive` walks, so a replacement made by one visit is
seen by the next (`ValidateRecord`, `SkipRecord`, `RaiseOnRecord`); `ProposeBest`
ends the case. Gains are integers in units of the success threshold. The lower
confidence bound of `_paired_replacement` is modelled exactly for at most two
recurrence families (`FewFamilies`), where it is the smaller family mean.

`SkillGraph` is the graph of transfer and composition edges: `Audit` applies every
gate of `audit_transfer` or `audit_composition` and the cycle check, records the
attempt, and adds or *moves* an edge, since the id of an edge names its revisions
and not its niches. `WouldCreateCycle` is a depth-first search; `Reachable` says
what it finds as the intersection of all closed sets, without recursion.
`AuditedNiches` composes the two: `Auditing` steps of the graph, then `StartRun`
hands the runner `edge_sources`, all that the arm `map_elites_edges` reads of it.

### OperatorGovernance and RepairDurability

`OperatorGovernance` is the ledger as operators on a sequence of entries:
admission with its evidence gate and deduplication (`Admit`), the ranking by which
the active cap retires (`ScoreDifference`, `Overflow`), applications and retirement
by failures (`Applied`). A gain is an integer, and the bootstrap lower bound is
chosen among the signs the gains allow (`LowerBoundIsPositive`).

`RepairDurability` is experiment 25: `StartFamily` takes the snapshot, `Search`
is the read-time arm followed by the assertion on the store, `WriteBack` the
write-back arm while it has no rule, `Reuse` once it has one, `Exclude` a baseline
that times out, `Restore` the end of the family. `AssertionsOn` is FALSE under
`python -O`.

### ScopeLedger

One entry per signal and domain with its counts and whether its last audit kept the
provenance contract. `Audit` takes the undo copy, extends the counts and promotes
or retires; `Rollback`, `Write` and `Read` are the methods of those names, the last
in a new process without history. Of the family-blocked interval only the sides of
the threshold on which its ends fall are kept (`Intervals`).

### ArenaRun and ScopedArena

`ObservationalArenaRunner.run` in its sequential mode. `RunCase` is one case:
candidates from the backend, a measurement of each, one application of every
composite to the ledger (`Live`) and its status to the backend (`Told`), the
selection (`Additive`, or `Routed` by an active signal), the chains, and the
removal or its observation. `Promote` is D1, the zero-call gate with its
sign tests and its comparison with the reverse order (`PassesD1`); `Confirm` is D2
and D3 for one survivor, replay by replay within the budget (`Fits`), with errors
that use up part of the calls; `Resume` returns to the stream. A routed candidate
without a gain ends the run in phase "crashed". A chain's bootstrap bound is chosen
among the signs its rows allow.

`ScopedArena` composes two processes over one file: `Auditing` is any step of
`ScopeLedger`, `StartRun` reads the file and derives the policy, `Running` is the
arena.

### AuditRun

`run_cases` with `_run_with_hook` and `_run_repair`, a loop over `N` cases.

| Action | Code |
|---|---|
| `Hook` | `post_retrieve_hook` with the bonus of similar records; without an agent the trace alone decides (`GapAttribution`) |
| `Reuse` | `_try_failure_memory_operator_specs`: up to two operators of similar records against identity |
| `GiveUp`, `MeasureIdentity`, `MeasureNext`, `Truncate`, `EndSearch` | `SinglePointAttributor.search`, one action per rollout, in the order of priors and names (`Before`); the clock may run out before each |
| `Attribute` | `add_attribution_result`, then `_attribution_from_mcts` or the structural gap |
| `FailToSelect`, `Repair`, `RepairRaises` | one turn of `RepairOrchestrator.run`: the selection of an action fails, it is applied and assessed, or `apply_repair` raises |
| `Report` | the result of a case; the next begins |

A rollout is its outcome: a score, a timeout (NaN) or a failure (an error, an empty
answer). `config` holds the arguments: with an agent or without, the adapter, and
whether a language model may or must choose the repair. Recorded are `records`,
under the fingerprint of what was recalled (`Key`); all are of recovered cases, so a
prior is 1 or 1/2 (`Hinted`) and the hook's bonus is all or nothing (`Bonus`).
`observed` is what was measured, for the properties; it decides nothing but the
credits. The post-repair replay reads what the case had recalled, not the store, so
its assessment is one per case (`Assessment`). Item-level actions are not legal
without `include_item_actions`, which the harness does not set.

### ItemGate

`run_item_gate_for_recall_set`. `Recall` gives the items their timestamps and the
targets their order, since the failure memory may put any item first and drops none.
Then `Reconstruct` passes or labels the next target, `Collide` stops at one that a
found pair involves, and `FailWithoutClient` at the first when there is no model
(`subagent_loop.py` passes none on). Which pairs do not entail each other is chosen
anew for each target, as the judge is asked anew, and a call that fails counts as no
entailment. A timestamp is in half days, so that `GapDays` rounds as `(dt_a -
dt_b).days` does: down, that is away from zero for a negative gap. `Hints` goes
through the collisions in their order, then adds the label and the fallback;
`Evidence` is what `_order_items_by_signal` makes of it. Both steps of the gate are
on, as every caller leaves them.

### OperatorTrajectory

One case of the stream of Experiment 24 is `Exclude`, or `StartCase`,
`LibraryStages` (the growing arm, its candidates in random order, the frozen library,
random shapes), `Discover` (one scan for every arm that missed) and `Learn` (both
libraries). A shape is its set of steps, grounded by dropping the illegal ones. What
a shape gains on a case is a function of the two, since the model is called at
temperature 0 (`core/llm_client.py:85`), and is chosen when the case starts; a
timeout is no gain. `ScoreCandidates` with `ReplayEarlyStop` and `RunLibraryStage` are
the two implementations of the library stage, as in the code: the growing arm executes
every candidate and then goes through the scores as if it had stopped, the controls stop.
`TrajectoryConstants` says that what a case's legal steps leave of a scanned shape is
scanned too, as it is by a scan of all single steps and perhaps all pairs.

### Fingerprints

The words under which records are kept and compared: the `top_k` most frequent,
their similarity, and the records most similar to a key. It has no state.

### FailureMemory

`record_recovered_case` with **every file operation an action**, in the order of
the sequence `Order`: the case file, its index line, the cluster, the pattern file,
its index line, the pattern in memory. `RunAgain` ends or kills the program at any
step, perhaps while it writes a file (`Tear`: `write_text` has emptied it), and
starts an empty loop on the same directory. `Reloaded` is what a cold loop reads
from a pattern file. Fingerprints are the `top_k` most common words. Which case
recovers next, and with which repair, is left to its user: `Recover` is free.

### SkillAbstraction

The two programs that use it, over its variables. **Experiment 19** visits a case
once: `ExcludeCase` if the baseline rollout times out, `SeedRecovers` if a seed
recovers the case, else `Fallback`, in which the exhaustive probe names a culprit
(`Culprit`) whose repair may recover it. A recovered case leaves a step record in
`priors` and then goes through the actions of `FailureMemory` (`Recording`).
**The builder** replays a ledger: any case, any legal repair (`Replay`). `RunAgain`
ends or kills either and starts either.

| Operator | Code |
|---|---|
| `PatternSeeds` | `retrieve_seed_pairs`: patterns that share content with the case, most similar first |
| `Neighbours`, `StoreSeeds` | `FailureMemoryStore.retrieve` and `_retrieve_seed_pairs` of Experiment 18, over `priors` |
| `Seeds`, `LegalChoices` | `_merge_pairs`, `_pairs_to_choices` |
| `SeedGains`, `BestGain` | `_run_seed_stage`, `best_scored_pair` |
| `NetGain` | the comparison of the fallback with the seed stage, NaN included |

What a rollout measures is free, `Late` (NaN, which compares with nothing) included.
Simplified: the probe and the seeds act at the one generation point, so every hop of
the experiment is 1; the two programs take the same texts of a case (the builder
takes all its memory, the experiment what was retrieved); patterns of equal
similarity may come in any order; and no case repeats within a stream, which the
case files guarantee. Both programs write `artifacts/sandbox/failure_memory_skill`
by default, which is why they are modelled on one directory.

## 3. What TLC checks

| Run | Question | Instance |
|---|---|---|
| `rules` | is one triple selected, the earliest? does backfill waste or crowd out anything? do the gate's hints ever prefer a stale fact? do the arms of Experiment 24 differ by growth alone? | every history of up to 6 successes in 3 families; both queues from 0 to 10; recall sets of up to 3 items in every order; streams of 4 cases, a warm-up of 3 |
| `skill_run` | what does a spec's whole life leave in both arms, what do exceptions leave, is an eligible revision forgotten behind an incumbent, is the contract implemented? | 2 specs of one shape, 6 cases, an audit due after each (the eighths of a stream of 6 that `run_prequential` audits), timeouts, both specs on case 1 and one again on case 6, which matches nothing |
| `aborted_commit` | *violation*: is a case commit atomic? | 1 spec, 5 cases, audits after 4 and 5, timeouts |
| `store_crash` | is anything lost, is a reported run all or nothing? | 3 facts, 3 days, a crash at any step; one agent writes between two runs, the other into one run until its snapshot is listed |
| `niche_rivals` | is an elite earned, evidence independent, an operator unique, the graph acyclic? | 2 operators, 11 cases, 3 niches with up to 3 audits before the run, 2 families |
| `niche_raises` | *violation*: can the update loop raise? | 12 cases, ids ordered the other way, finite gains only, no audits |
| `arena` | do ledger, backend and candidates agree, is the budget kept, is a pair merged in one order only, is a recovery stable, is the scope ledger always readable? | 3 seeds, 8 cases, 3 plans; 2 keys and 5 kinds of audit |
| `durability` | does a family ever meet another's rule, is every rule governed, does the cap hold? | 3 families over 2 fingerprints, cap 1, assertions off |
| `durability_assert` | *violation*: does the read-time arm find the store untouched? | the same, assertions on |
| `failure_memory` | do index, patterns and cases agree after any kill, does a reload give the same seeds, is what is recorded what was measured, and legal? | 4 cases, 2 actions, clusters from 2 cases, 2 runs of either program on one directory, gains of two values or late |
| `audit` | is a search's report complete, is an attribution founded, do repairs follow the credits? | 3 cases, 6 ways to call, scores 0 to 2, timeouts, failures, a clock that may run out anywhere |
| `repair_raises` | *violation*: does a repair stop at a recovery or exhaust its labels? | the same |

**Bounds.**

- *Skills.* A promotion needs a deposit and three successes, so case 4 is the
  first that can promote; two audits more can retire, and case 6 rediscovers the
  retired spec: six cases go through every transition of the lifecycle. Checkpoints
  after each of the last three cases let a good audit come between two bad ones.
  Families alternate in pairs so that three successes may or may not span two. A
  direct replay misses only on case 1 (`UnstableCases`), since one lost anchor is
  as bad as four. Two specs of one shape let a challenger wait behind an incumbent.
- *Rules.* Six successes are enough for the prefix search: a longer run of one
  family before the second appears repeats the history of five and one. Queues of
  ten are twice the attempts.
- *Item gate.* Three items are the fewest in which one is both newer and older than
  what it contradicts. Stamps 1, 16, 17 and 33 give gaps of 7.5 days, which is within
  the tolerance of 7 or beyond it depending on the order of the pair, of 8 days, of 8.5,
  of 16, of half a day and of none, and an item may have no timestamp.
- *Trajectory.* Two fingerprints, of which one is similar to the other but no duplicate;
  a case allows one step or both, so that a shape learned on one case is cut down on
  the next. `topn = 2` is below the three shapes, gains lie below, at and above
  the threshold, and the fourth case comes after the warm-up.
- *Store.* Three facts with one that is similar to two dissimilar ones make greedy
  bucketing choose; days 1, 8 and 9 lie on both sides of the tolerance of 7; two
  runs let a second snapshot and a second demotion meet the first. A full bucket
  (`max_bucket_size = 2`) occurs but is barely exercised.
- *Niches.* Nine cases of one niche are the fewest after which an elite can be
  replaced (each rival needs three recoveries in two families, and the challenger
  three that the elite missed). Three niches are the fewest with a cycle longer
  than two, and `MaxAttempts = 3` edges can close it; two of the audits share
  an edge id, so an edge also moves. What the graph leads the runner to execute is
  of the first niche's archive, on the last case.
- *Arena.* Case 3 is the first on which a pair has its three rows
  (`min_support`) in two clusters; confirmation replays three of them; budget 18
  lets two survivors be confirmed in full and 14 only one; `retirement_patience = 1`
  retires after two failures, which the five cases left allow. `active_cap = 1` is
  below `max_candidates = 2`, so that the second admission retires a composite,
  the one that was deposited before it or itself. A removal at
  case 4 or 5 leaves windows (`window_size = 1`) enough for two stable comparisons
  (`stable_windows = 2`) and for a window without winner between them. The alphas
  are 15 percent so that three of three passes (12.5) and two of three does not.
  For windows this small the default divergence threshold admits equal
  distributions only, which is what `Agree` says. The scope ledger has an undo
  depth of one and 6 fires per entry: shadow, promotion, and retirement by
  precision or by provenance.
- *Durability.* Cap 1 makes every second admission for a fingerprint retire a
  shape; the third family repeats the fingerprint of the first, so that it finds
  retired shapes; replay gains are empty, too few, and of either sign.
- *Audit.* The second case recalls nothing and is keyed by its query; its confidence
  is below the threshold only with the bonus of a similar record, which the first case
  leaves. The third recalls a memory similar to the first, so that a record of the
  first offers its operator for reuse. `max_iterations = 3` is below the four actions of
  a case with a safety-reviewed item, so that the bound cuts a search short as the clock
  does. Each case has another assessment and another structural gap. Three scores give
  ties and gains of both signs.
- *Failure memory.* Two cases share both words, one overlaps them by half (the
  threshold) and one stands apart, so that clusters form, grow and stay alone. Action
  M is legal on two cases, one of which shares its memory with a case on which it is
  not, so a seed may be illegal where it is found; the builder may record a second
  hop. Queries name a word of the memory, or none. A gain is below, above, or not
  measured; two seeds (`topk = 2`) and three neighbours are all that four cases
  can offer. Two runs let a second program meet the files of a killed first.

**Fairness.** `SkillEvolution` and `RepairDurability` have `WF_vars(Next)`: one
thread runs a loop over a finite stream, every callback it makes returns (a rollout
that does not is cut off by its timeout, which is a result), and no other actor can
take the step. `ScopedArena` has weak fairness of
`StartRun \/ Running` for the same reason: the audits before a run are not owed.
`StoreRepair` has weak fairness of `Run`: a started run goes on, while nobody has to
start one, write a fact or crash. `RunEnds` then says that the promotion loop, which
restarts after every promotion, and every loop over files end. `AuditedNiches` and
`AuditRun` walk finite lists, the parts of `MCRules` are finite scans or streams, and `FailureMemory` and `SkillAbstraction` are programs
that may be killed for good: they state no fairness and their properties are safety.
Deadlock is checked everywhere except in `MCRules`, `MCSkillAbstraction` and
`MCAuditRun`, where a history reaches its bound and a scan stops, a program runs out of cases, and a
batch ends or raises.

### Deeper properties

- `PosteriorReplaysLedger`: every weight in every version equals a replay of the
  ledger up to that version's case, though anchor replays, shadow rows and runtime
  rows share one ledger and are written at different moments.
- `LedgerExplainsVersions`: state differs from the version before exactly when one
  event says so.
- `RetirementTakesTwoRegressions`: *consecutive* audits, reconstructed from the
  evidence rows alone.
- `NoEligibleLeftBehind`: after every case, what meets the promotion rule is
  still provisional only behind a stable revision of its family (or one that an
  audit has retired since promotion ran).
- `ReportedRunIsAllOrNothing`, `NothingLost`: a run that comes to its report left
  the directory untouched or without exactly the planned facts, whatever the probe
  answered; and nothing leaves the directory without a copy under `.cmd`.
- `ElitesAreReplacedByElders`: the producing case of an elite is one of its
  anchors, a challenger must have recovered every anchor, and a younger revision
  never ran on that case. So a niche is only ever taken over by an *older*
  revision. Nothing in the design documents says so, and it deserves a decision.
- `GraphIsAcyclic`: composition and transfer edges are checked one at a time
  against the edges of both kinds, refused audits leave older edges in place, and
  an audit of the same revisions moves an edge; every set of niches still has
  one that leads to none of them.
- `OneDirectionPerPair`: no two skills are ever merged in both orders, because
  the sign test over the cases that measured both orders can favour only one of
  them. Looking only for *some* measurement of the reverse breaks it.
- `ConfirmationWithinBudget`: the three calls reserved before each replay keep the
  budget over all survivors, though a failed replay spends fewer.
- `RetirementIsTold`: the backend retires only what the ledger retired. A retirement
  by failures reaches it in the case that causes it; one by the cap, which comes
  while survivors are confirmed and which the arena does not look at, in the first
  case that measures the composite, so that such a composite is applied once more
  at most. Nothing else retires a composite. The run's cap of one is below its two
  candidates, so both kinds occur. Telling the backend the status from before the
  application breaks it.
- `RecoveryIsStable`: a window without a winner must not count as agreeing.
- `HintsFollowFreshness`: the tolerance moves by a day with the order of a pair, a
  target is chosen by the failure memory and the hints by the order of the collisions;
  still nothing is promoted except over an older fact it contradicts, what is newer
  than all it contradicts precedes what is older than all it contradicts, and a fact
  without a fault stays ahead of what is demoted.
- `FrozenLibraryIsThePast`: the frozen library is a prefix of the growing one,
  although the two are filled by two implementations of the library stage and a scan
  that either may have caused. `BestScore` over all scores instead of those up
  to the first that recovered breaks it.
- `ArmsRecoverTheSameCases`: see the limits below; the reader of Gate 2 should know.
- `StoreIsGoverned`: a durable rule was admitted in its own
  family and is still active in the ledger that outlives the store; no family meets
  a rule of another; and since no two rules ever coexist, `materialize`'s flag `renderer_repaired`, which is not
  reset between rules, never credits a rule that changed nothing.
- `LedgerIsReadable`, `RetirementIsFinal`: `read()` refuses an active entry whose
  last audit broke the provenance contract, and no sequence of audits, rollbacks,
  writes and restarts writes one; only going back revives a retired signal.
- `IndexNamesFiles`, `PatternsAreEvidenced`, `ClustersOwnTheirPatterns`,
  `ReloadGivesTheSameSeeds`: wherever the program is killed, the index names
  files that exist and a readable pattern rests on recorded cases; a pattern's
  file and memory, written one after the other, give the same seed. The file's
  operator and the memory's hop are two votes, but neither writing program gives an
  operator of its own, so they count the same hops. `ClustersOwnTheirPatterns` speaks
  of the memory of one run; that the next run overwrites files under the same ids is
  among the limits below.
- `RecoveryIsWhatWasMeasured`: a case is recorded exactly if some rollout of it was
  measured above the threshold, with the repair of that rollout: neither a seed
  stage that timed out (NaN) nor a fallback that did hides or invents a recovery.
- `EveryActionIsAccounted`: a timeout of the identity, of an action, or of the clock
  between two rollouts leaves a report in which every legal action is scored, timed
  out or listed as not scored, and a search says that it was truncated exactly if it
  left one out. (A clock that runs out before anything is measured sets `truncated` and
  lists nothing.)
- `AttributionIsFounded`: whatever timed out or failed, the search's label is a
  measured one that no other exceeds and is the record just written; a reused
  operator was recorded by an earlier similar case and improved on a measured identity
  in this one. The search does score a *failed* identity as zero, unlike the reuse.
- `RepairsFollowTheCredits`: what is tried and what is left are the labels that
  gained, the better first, and nothing is left at the report unless one recovered.
- `ImplementsFailureMemory`: seeds carry repairs from case to case and from program
  run to program run, but none is recorded for a case on which it is illegal, so the
  two programs do to the memory only what `FailureMemory` lets a writer do.

### Disagreements found

1. **A case commit is not atomic** (`aborted_commit`). `commit_case` writes
   evidence and versions arm by arm; a timed-out execution raises when its evidence
   row is hashed, and the arms before it keep the case: in the trace the patterned
   arm has committed case 2, on which it retrieves nothing, when the execution of
   the unkeyed arm raises, and keeps a version that the other two arms lack. `evolution.py:1` promises
   "atomic transitions" and line 551 "one evaluate-before-update transaction".
2. **A replace repair raises** (`repair_raises`). The heuristic chooses replace for
   most labels and names no target (`executor.py:181`), for which both adapters raise
   `ValueError` (`mem0.py:122`, `letta.py:139`). With a target, the recalled item is
   overwritten and the checksum, which does not cover it (`mem0.py:99`), is found
   unchanged: `SandboxViolationError`. The executor catches neither, so the results of
   the batch are lost. `orchestrator.py:4-5` says that it "stops at first recovered or
   exhausts the list".
3. **The niche update loop raises** (`niche_raises`). `_update_archive` iterates
   over copies; a challenger that comes first replaces the incumbent, whose copy is
   then validated, which raises and ends `run()` without its outcomes. The method
   promises that the update "cannot affect the outcomes above". The same sequence
   of calls raises in the Python code.
4. **The durability experiment stops at its own assertion** (`durability_assert`).
   `run_experiment_25_repair_durability.py:351` asserts that the read-time arm
   left the store as the family found it, but the write-back arm of an earlier
   variant may have written its rule since. The variant after a successful
   write-back raises, so "later variants materialize repaired retrieval state"
   (line 16) only happens with assertions off.

Other limits that the models show and that no text of the repository contradicts,
or that have no run:

- **Experiment 19 keys its step records by the query.** `from_mcts_result` is called
  without `memory_texts` (`run_experiment_19_skill_abstraction.py:207`), while the lookup
  takes the fingerprint of the recalled memory, so a case that recurs with another
  wording does not find its record. Experiment 18, whose lookup it shares, passes
  `memory_texts` when it writes (line 188) and says that the fingerprint lets "a
  recurring chain reuse its own prior repair point" (line 288). Modelled as `RecordKey`.
- The hook's bonus (`failure_memory.py:2105`) and the repair guidance are asked for by
  the query as well, while the audit writes by the recall (`Bonus`, `Key`).
- Reuse tries an operator of another case without asking whether it is legal here: a
  safety repair may be attributed to a case without a reviewed item.
- A repair that did not recover stays applied to the adapter, and as the assessment
  does not read the store, no later label can recover the case.
- **The arena does not look at what the cap retires.** `admit_with_cluster_replay`
  returns `retired_hashes` (`governance.py:246`), which the arena ignores, and
  `arena_runner_common.py:341` accepts any `max_candidates` from 1, also above the
  cap. A composite that was deposited may then be retired in the ledger and on
  probation in the backend, which offers it until a case has measured it; nothing else
  tells it. `RetirementIsTold` says that this is as far as the two come apart.
- A routed candidate without a gain is selected, and the mean of the selected gains
  takes `float(None)` (`arena_runner_common.py:1578`): phase "crashed" of
  `ArenaRun`. `experiments/README.md:74` says that non-finite gains are never
  retained.
- The first-three shortcut of `promotion_decision` counts `None` as a family, the
  prefix search does not: a family and `None` pass as two, although `CONTEXT.md:284`
  promises the earliest cross-family three. No caller passes `None`.
- `AuditedSkillGraph` never deactivates an edge: a refused audit leaves an earlier
  edge, and the archive's `candidate()` finds a retired revision, so an edge goes on
  executing one.
- Pattern ids start over with each run of the failure-memory programs, so a second
  run on a directory may overwrite the pattern file of another family; and a program
  killed while it rewrites the index loses the lines of every earlier case.
- **The arms of Experiment 24 recover the same cases** when no shape has
  item-signal hints and a shape gains the same whenever it is executed: whatever a
  library holds was found by the scan that every missing arm falls back on, so a case
  that a library recovers is recovered by the scan too. Gate 2 "passes only if the
  live arm (recovery_rate) beats BOTH controls"
  (`run_experiment_24_operator_trajectory.py:891`), which only hints or an unsteady
  model can bring about; what the library saves is rollouts, not cases.
- In the same file `random_order_recovered` is whether *any* gain was positive, not
  whether the case recovered (line 622); `_run_library_stage` says that it is "Shared by
  the live arm and both controls" (line 278), while the live arm uses
  `_replay_early_stop`; and a shape found again on the same fingerprint keeps its first
  gain, though `_retrieve_library` ranks by the "strongest observed accepted net gain".
- The item gate calls a target stale when it is the *newer* of the pair as well,
  although `gate.py:34` explains the status as "Item outdated, newer version available";
  the hints know which is which. The middle one of three versions is raised and lowered
  in the order of the pairs, so it may end promoted or demoted. Of two items between 7
  and 8 days apart the same pair is stale in one order and a conflict in the other.
- When the agent writes *while* a store repair is planning, TLC refutes
  `DemotesOnlyStale`, `SnapshotIsWhole` and `ReportedRunIsAllOrNothing` (a fresh
  copy is demoted by a stale plan, or a demotion raises half way), which are
  therefore stated for an agent that leaves the run alone (`Alone`); when it writes
  *after* the snapshot is listed, a rollback unlinks the new file and `NothingLost`
  fails too.

## 4. What is proved

Eight modules of proofs, each for every value of its constants. The assumptions are
the named `ASSUME`s on constants, which TLC evaluates in the runs.

| Module | Theorem | Says |
|---|---|---|
| `SkillEvolutionProofs` | `InductiveHolds` | `Spec => []Inductive` |
| | `TypeCorrect` | `Spec => []TypeOK` |
| | `LeakFree` | `Spec => []EvaluateBeforeUpdate` |
| | `StoreIsAppendOnly` | `Spec => AppendOnly` |
| | `WeightsReplayTheLedger` | `Spec => []PosteriorReplaysLedger` |
| | `TwoRegressionsRetire` | `Spec => []RetirementTakesTwoRegressions` |
| | `LoopImplementsLifecycle` | `FamiliesNamed` implies `Spec => ImplementsLifecycle` |
| | `LedgerIsComplete` | `Spec => []LedgerExplainsVersions` |
| | `NoneIsLeftBehind` | `FamiliesNamed` implies `Spec => []NoEligibleLeftBehind` |
| `StoreRepairProofs` | `RunIsRecoverable` | the run's invariant |
| | `SnapshotStaysWhole` | `Spec => []SnapshotIsWhole` |
| | `ReportsAreAllOrNothing` | `Spec => []ReportedRunIsAllOrNothing` |
| | `NoFactIsDestroyed` | `QuietAgents` implies `Spec => NothingLost` |
| | `PlanStaysFitting` | the invariant of a run that nobody interferes with |
| | `NoFileDisappears` | `Spec => []NothingDisappears` |
| | `OnlyStaleAreDemoted` | `Spec => DemotesOnlyStale` |
| | `HintsAlwaysFollowFreshness` | `GateSpec => []HintsFollowFreshness` |
| `AuditedNichesProofs` | `ArchiveIsSound` | `Spec => []ArchiveInvariant` |
| | `EvidenceStaysIndependent` | `Spec => []EvidenceIsIndependent` |
| | `ElitesStaySound` | `Spec => []EliteIsSound` |
| | `OperatorsLiveOnce` | `Spec => []OneLiveRevisionPerOperator` |
| | `OnlyEldersTakeOver` | `Spec => []ElitesAreReplacedByElders` |
| | `GraphStaysAcyclic` | `GraphSpec => []GraphIsAcyclic` |
| `AuditRunProofs` | `SearchReportIsHonest` | `Spec => []EveryActionIsAccounted` |
| | `AuditStaysFounded` | the audit's invariant |
| | `AttributionsAreFounded` | `Spec => []AttributionIsFounded` |
| | `RepairsAlwaysFollow` | `Spec => []RepairsFollowTheCredits` |
| `ScopedArenaProofs` | `EveryLedgerIsLicensed` | every entry in memory, file and undo history is active only with the contract |
| | `LedgerStaysReadable` | `Spec => []LedgerIsReadable` |
| | `RetirementStaysFinal` | `Spec => RetirementIsFinal` |
| | `ArenaIsGoverned` | the arena's invariant |
| | `BudgetIsKept` | `Spec => []ConfirmationWithinBudget` |
| | `RetirementsAreTold` | `Spec => []RetirementIsTold` |
| | `OneDirectionIsMerged` | `direction_alpha <= 50` implies `Spec => []OneDirectionPerPair` |
| | `RecoveriesAreStable` | `Spec => []RecoveryIsStable` |
| `RepairDurabilityProofs` | `StoreStaysSimple` | the store's invariant |
| | `EveryFamilyStartsClean` | `Spec => []FamiliesStartClean` |
| | `OneRuleAtMost` | `Spec => []AtMostOneRule` |
| | `RuleAlwaysGoverned` | `Spec => []RuleIsGoverned` |
| | `StoreAlwaysGoverned` | `Spec => []StoreIsGoverned`, which says the three together |
| | `AlwaysWithinCap` | `Spec => []ActiveWithinCap` |
| `FailureMemoryProofs` | `IndexFollowsFiles` | the index's invariant |
| | `IndexAlwaysNamesFiles` | `Spec => []IndexNamesFiles` |
| | `ClustersStaySound` | the clusters' invariant |
| | `ClustersAlwaysOwnTheirPatterns` | `Spec => []ClustersOwnTheirPatterns` |
| | `PatternsAlwaysEvidenced` | `Spec => []PatternsAreEvidenced` |
| | `ReloadAgrees` | `Spec => []ReloadGivesTheSameSeeds` |
| | `RecoveriesAreMeasured` | `SpecAll => []RecoveryIsWhatWasMeasured` |
| | `ProgramsAreWriters` | `SpecAll => ImplementsFailureMemory` |
| | `TrajectoryHolds` | the invariant of Experiment 24 |
| | `FrozenStaysThePast` | `TrajectorySpec => []FrozenLibraryIsThePast` |
| | `ArmsNeverDiffer` | `TrajectorySpec => []ArmsRecoverTheSameCases` |

**The skill loop** (assumption `ConstantsAssumption`: finitely many specs, a stream
of `N` cases, well-typed constants). `EvaluateBeforeUpdate` is the property the
experiment rests on: a runtime row names the version its case read, the revision was
active there, that version precedes the case, every later version follows it, and
the revision was not produced by this or a later case. It is not inductive. When
arm 2 commits, arm 1 has already moved, and nothing in the property says that arm
2's head is still the one its run was retrieved from. `Inductive` adds

- `NothingFromTheFuture`: no row, version, anchor or birth is later than the
  current case, and whatever is active was born;
- `PendingReadHead`: while a case is being committed, the heads of the arms still
  to commit are older than the case and hold everything their runs attempted (the
  fact that `commit_case` checks at run time with "did not read the frozen
  pre-update version");
- finiteness of the ledger (so that `Cardinality` counts) and `case_index < N`
  in phase "evaluate".

There is one lemma per action. `StoreKept` does the common part: a step that
appends versions of the current case and rows that `ReadBeforeCase` accepts keeps
both store invariants. Helper lemmas type the retrieval operators (`FillQuotaType`,
`RetrievedType`, `RunType`) and the reading of heads (`HeadType`). For `AppendOnly`
the invariant `Settled` is added: a revision with anchors is stable or retired, a
retired one is not active, and whatever a head or a pending audit holds has a
producing case. A promotion therefore never meets an anchor set, and a deposit never
meets a revision that was there before.

Every safety property that TLC checks of the loop is proved. Each needs an invariant of
its own, proved next to `Inductive`:

- `Tallied`, for `WeightsReplayTheLedger`: a chain's versions follow the cases, and
  an arm that has committed the current case has a head of that case. A row still to
  come is therefore of a later case than any version, and no committed counter moves.
  The code counts cases and a replay counts rows; `OneRowPerRun` reconciles the two: a
  row names the last version before its case, so a case has one row per revision.
- `Audited`, for `TwoRegressionsRetire`: a positive regression counter stands for a lost
  last replay, an audit still due is later than every replay of its revision, and the
  rows that follow a retirement are of later versions, so that they cannot change what
  counted as the last two.

**The contract of a skill** (`LoopImplementsLifecycle`). Initial states map to initial
states and every step of the loop to a step of `SkillLifecycle` or to none. A commit
that an exception stops maps to `Halt`. The mapping needs one more invariant,
`Faithful`: stable and retired exclude each other and an audit is due only for
stable revisions; outside an abort no failing provisional revision is kept (the
contract gives a revision up *with* its third failure, the code re-examines all of
the arm's revisions at each commit); and a run under commit attempts each revision
once, on a case without runtime rows of that arm. The last part rests on the quota:
`QuotaDistinct` shows that the 3 + 2 slices never offer a revision twice. The theorem
assumes `FamiliesNamed`, that no case of the stream has the family None:
`TripleIsCrossFamily` needs it, since `promotion_decision` counts None as a family
when it looks at the first three successes and the contract does not (§3, other
limits).

`LedgerIsComplete` needs `Explained`: no event names a version still to come, and the
head of an arm never has a revision both active and retired. A step that commits a
version then only has to bring exactly the events of its changes (`CommitExplained`);
the case that is easy to overlook is the deposit, where a revision may neither arrive
and leave in one version nor return from retirement. `NoneIsLeftBehind` needs
`Examined`, which follows the scan of `promote_if_eligible` from one arm to the next:
what the promotions of an arm leave provisional is short of successes, short of
families, or behind a stable revision of its family, and none of these reasons is
undone before the case ends, since an audit that retires the incumbent leaves the
third reason standing for the versions of this case.

**The store repair** (`StoreAssumption`: days and facts are positive). Nothing is
assumed of the probe, and up to `NothingLost` nothing is used of the plan. `Copies` says
phase by phase what differs between the directory and its latest snapshot: while
copying, a fact not yet visited is absent from the snapshot; while moving, exactly
the planned facts already visited are gone; a rollback first leaves only facts
still to unlink, then only facts still to copy back are missing. It holds for an
agent that stops writing when the snapshot is listed. `Whole` adds, for an agent
that leaves the run `Alone`, that the snapshot is of the directory the run found.
`NoFactIsDestroyed` follows from `Copies` step by step and assumes `QuietAgents`,
that every agent of `Agents` stops so; TLC refutes `NothingLost` without it (§3).
A loop visits its files in a definite order, which no theorem uses.

The other two properties are about the plan. `AreBuckets` follows the greedy loop of
`bucket_memory_items` fact by fact: each fact that was taken is in exactly one bucket.
So no two demotions of a plan name one fact, and since a bucket keeps its newest fact,
which no bucket calls stale, each demoted fact leaves behind one that is fresher by
more than the tolerance (`PlanFits`, `PlannerFits`). `PlanInvariant` carries that
from the plan to the moves, for an agent that leaves the run `Alone`, and says that a
listed fact is still there: hence no move, copy or unlink meets a missing file
(`NoFileDisappears`).

**The item gate** (`GateConstants`: timestamps, the tolerance and `MaxRecall` are
natural numbers). `GateInvariant` is small: the collisions are pairs of places in the
order of the loops, and the target is labelled only when no pair has it. The work is in
the hints, a recursion over the collisions. `PairMovesHints` says what one pair does,
`CollisionsDecide` by induction what all of them leave: a hint above zero needs a pair
for which the item is the newer one, an item that is newer for all its pairs ends
promoted, however they interleave with those of others, and the last pair always leaves
something demoted. `NewerByDays` settles the rounding of `GapDays` for either order of
the two items, which is why `Supersedes` asks for a full day beyond the tolerance and
the first clause of the property does not. `HintsRank` is an instance of `RankedList`.

**The niche archive** (assumption `FewFamilies`: a non-empty stream, of at most two
families; nothing is assumed of outcomes, seeds or the graph). The four properties
are not inductive: that a record is validated only on later cases depends on where
the runner stands and on what its queue holds. `ArchiveInvariant` adds that nothing
was proposed or recorded on the current case before its update (`Placed`), and that
the queue holds distinct records of the case's niche that have no evidence on it
(`Awaits`), so that evidence never overwrites evidence and recoveries only grow.
`Recorded`, `Considered` and `Proposed` carry it through the archive's three
operations as facts about an archive value, with `FamiliesGrow` for the count of
families; each action's lemma then only has to place the runner. The key step of
`OnlyEldersTakeOver` is in `Considered`: the incumbent's producing case is one of
its anchors, so the challenger has evidence on it and is older.

**The graph** (assumption `GraphAssumption`). Acyclicity is stated by sinks: every
non-empty set of niches has a member that leads to none of the set. If a set meets
what the new arc's target reaches, a sink of that part is a sink of the whole, since
the reached part is closed and does not contain the arc's source; otherwise the set
does not contain the target. No induction over paths is needed.

**The scope ledger** (`ScopeAssumption`). An entry is active only if sound; the
same holds of the file and of every undo copy, which is what survives rollback and
restart. The arena reads the file once and otherwise leaves these variables alone.

**The arena** (`ArenaAssumption`, `GovernanceAssumption`; `SeedsAreNoPairs`, which the
prefixes of the identifiers give: a seed is no composite). `ArenaInvariant` follows the
run by its stages: before the one deposition the ledger and the backend's copy are
empty (`Staged`); while survivors are confirmed nothing has been applied. `Lives` is
the life of an entry: it is alive with fewer than `2 * retirement_patience` failures in
a row, or retired with exactly so many, or retired by the cap of a ledger of more than
`active_cap` entries (`CapIsSlack`), in which case it was not applied before and is
applied once at most (`AdmitKeepsLives`, `AppliedLives`). `Agreed` ties the backend's
copy to the ledger: every deposited composite has one entry, which the copy `Follows`:
it says retired only of a retired entry, and of a retired entry that was applied it
says so, since an application and the update of the copy are one step. How many
candidates there are and how small the cap is does not matter. For the budget, `Calls` counts the calls of the replays as a set of pairs, so that one more
replay adds its own (`CallsAddUp`), and a replay starts only if three more calls fit
(`ReplaysFit`). For the recovery, `Probed` says that the last multiple of `window_size`
winners is closed, that `previous` is its window, and that the run of agreeing
comparisons reaches that many windows back; a window that was closed does not change
when winners are appended (`WindowStays`). What distributions and gains are is not
looked at.

`OneDirectionPerPair` needs only the one deposition: `Directed` says that neither among
the ledger's operators nor among the survivors to come is one the other's reverse, and
`Promote` starts from an empty ledger with pairs that D1 passed. D1 compares a pair with
its reverse on the cases that measured both, so that one order's wins are the other's
losses (`WinsAreLosses`, a bijection of the twin rows). Of n fair coins, at least k heads
or at least n - k tails is certain (`HeadsOrTails`, by induction over the coins), so the
two p-values add up to at least one and cannot both be below `direction_alpha <= 50`
percent (`OneSidePasses`). The hypothesis is about the configuration: the code admits any
value below one (`chain_dynamics.py:423`; the default is 0.1). Were it 0.8, one win
and one loss would pass in both orders, and each order may beat the other's mean when it
was also measured on cases that the other was not. The proof also uses `SeedsAreOrdered`:
the seeds are a list, hence finitely many, and so is the evidence.

**The durable store** (`DurabilityAssumption`, `GovernanceAssumption`).
The store is empty or holds one rule, and the latter only while
`first_repair_done` holds and the family has not been restored; the snapshot is
always empty. `GovernedInvariant` adds that the ledger is a sequence of whole
entries: an admitted shape was unknown, so the entry that the cap left active is the
one appended in that step, and no step that keeps the rule touches the ledger.

`ActiveWithinCap` rests on the ranking by which the cap retires: were two active entries
to rank below each other, or neither below the other, too few could be among the lowest.
`RankingIsTotal` shows that it orders any entries of a ledger totally: the five
components are compared as fractions and integers, each a weak order (`Refined`,
`Lexicographic`), and what they leave equal is ordered by age. That needs entries that
count: a gain sum is an integer and observations are positive (`CountedLedger`), since
an admitted operator has a gain, and a duplicate only adds to it. With one active entry
too many, the lowest one exists (`LowestOverflows`) and is retired.

**The audit** (`AuditRunAssumption`: a timeout and a failure are no scores). The
report is a property of the search, but the search resumes what the phases before it
left: `Accounting` adds that nothing of the case before is kept until the search
begins, that nothing is attributed before it ends, and that while it measures the
identity has been scored. A step of `MeasureNext` moves one action from pending to begun
and to exactly one of scored and timed out, since only a timeout scores NaN
(`OnlyTimeoutsAreNaN`); after the search, `SettledStaysAccounted` covers every step that
leaves its report alone.

`AuditInvariant` is about what follows from the report: every credit is the difference
of two measured scores (`Credited`); the memory holds records of cases that came before,
and of the current one only once it is attributed; nothing is tried before that, and
what is tried and what is left to try are labels. The label of the search is then the
first of the credits sorted with the better first, and the repair takes them from the
front: that a sorted list holds exactly its set, each member once and in order, is
`RankedList`, and that what was taken and what is left are still that list is shown
step by step.

**The failure memory** (`FailureMemoryAssumption`). Every line of the
index names a file, and between a file and its line the position in `Order` says that
the file is there. `ClusterInvariant` is about the loop: a cluster's identifier holds
its position, its cases are distinct, of this run, and have files; each large cluster
owns its pattern unless the recording is between its assignment and "memory"; the
case being recorded is in no cluster yet. At most one cluster matches (`OneMatch`),
distinct cases are counted once (`CountedOnce`), and a pattern written in an earlier
run keeps its evidence because files are never removed (`EvidenceGrows`).

`ReloadInvariant` says where memory and files may differ: at most the pattern that is
being recorded, between its file and its place in memory, and then the file holds what
the memory will. The file keeps an operator whose first step carries the hop, and the
record takes the hop from a vote of its own; `FileHoldsTheRecord` shows that a reload
gives the record back, and that no pattern file is mistaken for a torn one.

For the two programs, `AbstractionInvariant` says that the step records are of
recovered cases with repairs of some case, and that the memory is finite. A seed list is
cut from a sorted list, filtered and merged, and all that is needed of it is that each
seed that is tried has passed the filter for the case at hand (`LegalChoices`); so
what is recorded is legal there and was measured (`RecoveriesAreMeasured`), and a step
of either program is a step that `FailureMemory` allows its writer, or none
(`ProgramsAreWriters`). What `FailureMemoryProofs` proves of every writer therefore holds
of the two programs.

**Experiment 24** (`TrajectoryConstants`; nothing is assumed of the gains, of the
retrieval's limit or of the warm-up). The frozen library is a prefix of the growing one
because they are one library during the warm-up, and that needs the two implementations
of the library stage to agree on every case: `StagesAgree` shows it candidate by
candidate, from `OneMoreScore`, that one more score changes what the early stop finds
exactly as one more execution does. `TrajectoryInvariant` adds that what a stage has found
is a shape that the scan holds, with its gain on the case. A stage hits if and only if one
of its candidates recovers (`EarlyStopHits`), in any order (`FullDrawsPermute`), and the
scan if any shape at all does (`ScanHits`); so an arm whose stage missed is given by the
scan what the others had, and an arm that hit has shown that the scan would
(`StagesAreRecoverable`). That a retrieval returns shapes of the scan needs its ranking to
be total (`LargerFirst`).

**Lists and ranks** (`RankingTheorems`). The library's induction theorems take an
operator, which the provers cannot instantiate, so `NaturalInduction`, `SubsetInduction`
and `LeastElement` are stated over sets: a set of numbers that holds zero and, with each
number, the next is everything. From them follow that a strict total order gives each member
of a finite set its own rank (`RanksEnumerate`), what `Ranked`, `Ascending` and `AtPlaces`
hold (`RankedList`, `AscendingList`, `PickedList`), and that least and greatest numbers
exist. Totals, buckets and binomial tails are recursive *functions* for the same reason:
their values can be shown to exist, number by number (`TotalOfGains`, `AreBuckets`,
`HeadsOfCoins`, `StepByStep`).

**The decision rules** (`PromotionSelectsEarliest`, `QuotaStaysFair`, in
`SkillEvolutionProofs`, for histories and queues of any length). A promotable history
*turns* at one case, the least t such that its first t cases, at least three, name two
families (`HistoryTurns`, `Turning`). The triple is then {1, 2, t} in both branches of the
code: if t = 3 these are the first three, and if not, all cases before t share a family,
so that every cross-family triple of the prefix contains t, and the nested loops meet the
one with 1 and 2 first (`TurningTriple`). No two triples can both be met first
(`OneEarliestTriple`), so the selection is unique, and it is the earliest of the whole
history too. The quota is an explicit list: `QuotaParts` gives the sizes of its three
slices and each of its entries, from which its length, its distinctness and what each
queue gets are arithmetic. The refinement of the contract uses the same lemma, for the
claim that retrieval offers no candidate twice.

**Only model-checked**: liveness (`RunEnds`), out of the prover's reach. Every invariant
and every safety property of a passing run is stated by a theorem.

## 5. What is not modelled

Inside the modelled components: capacity and displacement audits, statistical
gates, JSONL output, the random-k control and the beta quantile itself
(`SkillEvolution`); the report file and frontmatter parsing
(`StoreRepair`); `NicheArchive.rollback`, which no code calls, the gold-free
selection, which only reports, replacement with three or more families
(`NicheArchive`); the statistics that a graph attempt reports; evolving selection
priors, best-of-n control, the specialist removal, parallel workers and artifacts
(`ArenaRun`); what a materialised rule does to the items of a case
(`RepairDurability`); the costs and `has_timestamp_conflicts` of the gate, which nothing
reads (`ItemGate`); shapes with item-signal hints, the runs without controls, the
rollout counts and the rows (`OperatorTrajectory`); the item gate's hints on the rewriting of a context, the
operators of an attached governance ledger in the reuse, a run without a failure memory,
more than one generation point, the labels that `draft_ecs_for_label` rejects (an
attribution of the audit is never one), a repair whose content is empty
(`AuditRun`); anti-patterns, embeddings, the frozen catalog and
the text of the files (`FailureMemory`). The anchor-regression retirement of
`docs/evolution/BUILD_SPEC_AUDITED_NICHE_EVOLUTION.md` 8.3-6 has no code in the
archive: the runner never executes an anchor again. Identity seeds are left out
(every seed carries an operator).

Components with status `not_modelled` are listed in `PROJECT.json`. Adapters,
scoring, replays, baselines, evaluation, data scripts and the command lines keep no
state across calls: they convert, compute and print, and are most of the lines of the
repository.

## 6. Plan

Written, in this order: EvolutionRules, SkillEvolution, SkillLifecycle,
StoreRepair, NicheArchive, NicheEvolution, SkillEvolutionProofs; then
OperatorGovernance, ScopeLedger, ArenaRun, ScopedArena, RepairDurability,
FailureMemory with the proofs of ScopedArena, RepairDurability and FailureMemory;
then SkillGraph, AuditedNiches and their proofs, the proof of SkillLifecycle,
StoreRepairProofs and SkillAbstraction; then Fingerprints, AuditRun and its proof;
then ItemGate and OperatorTrajectory; then RankingTheorems and what it made provable
of the store repair, the item gate, the audit, the failure memory, Experiment 24, the cap
and the sign test.

To write:

1. **The rollout cache**: content-addressed observations; a cached result equals a
   fresh one.
2. The probes and gates of the offline and prequential runners.
3. Evolving priors and best-of-n control in `ArenaRun`.

To prove: what those modules will state.
