--------------------------- MODULE SkillEvolution ---------------------------
(***************************************************************************)
(* The skill-evolution loop: OfflineEvolutionRunner driving three isolated *)
(* arms through EvolutionCoordinator over an AppendOnlyEvolutionStore.     *)
(* Every update case is evaluated by all arms against their heads, shadow  *)
(* discovery then writes one experience tape, and the tape and the arms'   *)
(* own runtime evidence are committed arm by arm.  Promotion follows every *)
(* case; anchor audits follow the last case of a round.                    *)
(*                                                                         *)
(* A case is its index in the update stream.  A revision is the pair of    *)
(* its arm and its spec, because an arm holds at most one revision of a    *)
(* spec.  The program is one thread: an action boundary stands where an    *)
(* exception can leave a half-done transaction behind.                     *)
(***************************************************************************)
EXTENDS EvolutionRules

CONSTANTS
  Specs,              \* operator specs that discovery can select
  Shape,              \* their operator_shape_signature
  N,                  \* length of the update stream
  RecurrenceFamily,   \* recurrent_family_id of each case
  MatchedPatterns,    \* catalog.match for each case, best pattern first
  Discoverable,       \* specs that shadow discovery may find on each case
  Checkpoints,        \* cases that end a round
  RolloutResults,     \* what one execution can return
  UnstableCases,      \* cases whose direct replay may miss
  HasDirectEvaluator, \* direct_revision_evaluator is configured
  OperatorWeight      \* Q_0.05 of Beta(1 + s, 1 + f), scaled to integers

ASSUME ConstantsAssumption ==
  /\ IsFiniteSet(Specs)
  /\ N \in Nat
  /\ DOMAIN RecurrenceFamily = 1..N
  /\ DOMAIN MatchedPatterns = 1..N
  /\ Checkpoints \subseteq 1..N
  /\ UnstableCases \subseteq 1..N
  /\ Discoverable \in [1..N -> SUBSET Specs]
  /\ RolloutResults \subseteq {"hit", "miss", "timeout"}
  /\ HasDirectEvaluator \in BOOLEAN

VARIABLES
  phase,       \* where the runner is: see Phases
  arm,         \* position in EVOLUTION_ARMS of the arm being processed
  outcome,     \* each arm's outcome on the current case
  tapes,       \* the experience tape of every case so far, in case order
  born,        \* producing case of each revision, 0 for none
  evidence,    \* the revision evidence ledger
  versions,    \* each arm's chain of library versions
  lifecycle,   \* the lifecycle event ledger
  anchors,     \* each revision's anchor set
  regressions, \* AnchorRegressionTracker.consecutive
  auditing     \* stable revisions this checkpoint has yet to audit

vars == <<phase, arm, outcome, tapes, born, evidence, versions, lifecycle,
          anchors, regressions, auditing>>

ledger == <<born, evidence, versions, lifecycle, anchors>>

Cases == 1..N

\* run_prequential audits after every eighth of its stream; `run' after its rounds.
EveryEighth(n) == {(index * n + 7) \div 8 : index \in 1..8}

EVOLUTION_ARMS == <<"patterned", "unkeyed_global", "no_update">>

Arms == {"patterned", "unkeyed_global", "no_update"}

UpdatingArms == Arms \ {"no_update"}

Phases == {"evaluate", "commit", "promote", "audit", "done", "aborted"}

LIFECYCLE_STATES == {"candidate", "provisional_active", "stable", "retired"}

-----------------------------------------------------------------------------
(* Reading the store.                                                      *)

case_index == Len(tapes)

HeadVersion(a) == versions[a][Len(versions[a])]

LifecycleState(v, s) ==
  CASE s \in v.retired -> "retired"
    [] s \notin v.retired /\ s \in v.stable -> "stable"
    [] s \notin v.retired /\ s \notin v.stable /\ s \in v.active -> "provisional_active"
    [] OTHER -> "candidate"

\* Mistake: every kind of evidence counts.
AllRows(E, a, s) == {e \in E : e.arm = a /\ e.spec = s}

RuntimeRows(E, a, s) ==
  {e \in E : e.arm = a /\ e.spec = s /\ e.kind = "runtime_execution"}

Won(E, a, s) == {e.case : e \in {r \in RuntimeRows(E, a, s) : r.success}}

Lost(E, a, s) == {e.case : e \in {r \in RuntimeRows(E, a, s) : ~r.success}}

\* derive_weight_snapshot: the arm-local posterior, as its two counts.
Posterior(E, a, s) ==
  [won |-> Cardinality(Won(E, a, s)), lost |-> Cardinality(Lost(E, a, s))]

\* The posterior of a revision without a weight snapshot.
Prior == [won |-> 0, lost |-> 0]

\* latest_weight: a version holds the snapshots it was committed with.
Weight(v, s) == OperatorWeight[v.weights[s].won, v.weights[s].lost]

PatternIds(a, s) ==
  IF a = "patterned" /\ born[a][s] # 0 THEN Range(MatchedPatterns[born[a][s]]) ELSE {}

\* patterned_family_id keys a family by the best pattern, unkeyed_family_id
\* by the shape alone.
SkillFamily(a, s) ==
  IF a = "patterned"
  THEN <<MatchedPatterns[born[a][s]][1], Shape[s]>>
  ELSE <<"global", Shape[s]>>

\* A family accumulates revisions; a later stable one challenges the last.
PromotedBefore(a, s, t) == anchors[a][s].version < anchors[a][t].version

LatestIncumbent(a, s) ==
  LET peers == {t \in HeadVersion(a).stable : SkillFamily(a, t) = SkillFamily(a, s)}
  IN  {t \in peers : \A u \in peers \ {t} : PromotedBefore(a, u, t)}

-----------------------------------------------------------------------------
(* Retrieval and evaluation of one case.                                   *)

Candidates(a, c) ==
  {s \in HeadVersion(a).active \ HeadVersion(a).retired :
     /\ born[a][s] < c
     /\ a = "patterned" => PatternIds(a, s) \cap Range(MatchedPatterns[c]) # {}}

\* The attempt orders that the sort keys allow.  Median gain, median cost and
\* revision id only separate equal weights, the id only equal exploration keys.
RetrieveRevisions(a, c) ==
  LET v == HeadVersion(a)
      stable == Candidates(a, c) \cap v.stable
      trial == Candidates(a, c) \ stable
      Rows(s) == Cardinality(RuntimeRows(evidence, a, s))
      exploits == {k \in stable \X stable : Weight(v, k[1]) > Weight(v, k[2])}
      explores == {k \in trial \X trial :
                     \/ Rows(k[1]) < Rows(k[2])
                     \/ /\ Rows(k[1]) = Rows(k[2])
                        /\ born[a][k[1]] < born[a][k[2]]}
  IN  IF a = "no_update" THEN {<<>>}
      ELSE {FillQuota(x, p) : x \in RankedQueues(stable, exploits),
                              p \in RankedQueues(trial, explores)}

Attempts == [spec : Specs, result : RolloutResults]

\* Attempts are made in order and the first hit ends them.
Executions(queue) ==
  {r \in BoundedSeq(Attempts, Len(queue)) :
     /\ \A i \in DOMAIN r : r[i].spec = queue[i]
     /\ \A i \in DOMAIN r : r[i].result = "hit" => i = Len(r)
     /\ Len(r) = Len(queue) \/ (Len(r) > 0 /\ r[Len(r)].result = "hit")}

Runs(a, c) == UNION {Executions(queue) : queue \in RetrieveRevisions(a, c)}

\* build_experience_tape: the at most three best accepted specs of the case.
TapeSelections(c) ==
  UNION {SetToSeqs(S) : S \in {D \in SUBSET Discoverable[c] : Cardinality(D) <= 3}}

\* Every arm reads its head, discovery runs after all outcomes, and
\* commit_case stores the shared tape.
EvaluateCase ==
  /\ phase = "evaluate"
  /\ \E p \in Runs("patterned", case_index + 1),
        u \in Runs("unkeyed_global", case_index + 1),
        n \in Runs("no_update", case_index + 1),
        tape \in TapeSelections(case_index + 1) :
       /\ outcome' = [a \in Arms |->
            [version |-> Len(versions[a]),
             run |-> IF a = "patterned" THEN p
                     ELSE IF a = "unkeyed_global" THEN u ELSE n]]
       /\ tapes' = Append(tapes, tape)
  /\ phase' = "commit"
  /\ arm' = 1
  /\ UNCHANGED <<ledger, regressions, auditing>>

-----------------------------------------------------------------------------
(* Committing one arm's evidence and the tape.                             *)

\* Mistake: the row names the version that the commit is about to write.
LateEvidenceRow(a, s, c, kind, success) ==
  [arm |-> a, spec |-> s, case |-> c, version |-> Len(versions[a]) + 1,
   kind |-> kind, success |-> success]

EvidenceRow(a, s, c, kind, success) ==
  [arm |-> a, spec |-> s, case |-> c, version |-> Len(versions[a]),
   kind |-> kind, success |-> success]

\* The rows of the first k executions of arm a on case c.
RunRows(a, c, k) ==
  {EvidenceRow(a, outcome[a].run[i].spec, c, "runtime_execution",
               outcome[a].run[i].result = "hit") : i \in 1..k}

\* The rows of the first k selected specs of case c.
TapeRows(a, c, k) ==
  {EvidenceRow(a, tapes[c][i], c,
               IF born[a][tapes[c][i]] = 0 THEN "producing" ELSE "shadow_verification",
               TRUE) : i \in 1..k}

TapeSize(a, c) == IF a = "no_update" THEN 0 ELSE Len(tapes[c])

\* Mistake: a spec is known only while it is active.
NotActive(a, c) ==
  {s \in {tapes[c][i] : i \in 1..TapeSize(a, c)} : s \notin HeadVersion(a).active}

Novel(a, c) == {s \in {tapes[c][i] : i \in 1..TapeSize(a, c)} : born[a][s] = 0}

TimedOut(a) == {i \in DOMAIN outcome[a].run : outcome[a].run[i].result = "timeout"}

\* A patterned revision needs a matched pattern to carry.
Unkeyable(a, c) ==
  {i \in 1..TapeSize(a, c) :
     a = "patterned" /\ MatchedPatterns[c] = <<>> /\ born[a][tapes[c][i]] = 0}

\* Mistake: the event names the parent version.
EventAtParent(a, s, from, to, version) ==
  [arm |-> a, spec |-> s, from |-> from, to |-> to, version |-> version - 1]

Event(a, s, from, to, version) ==
  [arm |-> a, spec |-> s, from |-> from, to |-> to, version |-> version]

\* commit_library_version: extend arm a's chain.
CommitVersion(a, version) == versions' = [versions EXCEPT ![a] = Append(@, version)]

\* The arm's evidence, the tape's new revisions, the retirement of failing
\* provisional revisions and the fresh posteriors make one library version.
CommitArm(a) ==
  LET c == case_index
      v == HeadVersion(a)
      next == Len(versions[a]) + 1
      rows == evidence \cup RunRows(a, c, Len(outcome[a].run)) \cup TapeRows(a, c, TapeSize(a, c))
      novel == Novel(a, c)
      failing == {s \in (v.active \cup novel) \ v.stable :
                    ShouldRetireProvisional(Won(rows, a, s), Lost(rows, a, s))}
      active == (v.active \cup novel) \ failing
  IN  /\ phase = "commit"
      /\ a = EVOLUTION_ARMS[arm]
      /\ TimedOut(a) = {}
      /\ Unkeyable(a, c) = {}
      /\ evidence' = rows
      /\ born' = [born EXCEPT ![a] = [s \in Specs |-> IF s \in novel THEN c ELSE @[s]]]
      /\ CommitVersion(a, [active |-> active,
                           stable |-> v.stable,
                           retired |-> v.retired \cup failing,
                           weights |-> [s \in Specs |->
                             IF s \in active THEN Posterior(rows, a, s) ELSE Prior],
                           after |-> c,
                           cause |-> "case"])
      /\ lifecycle' = lifecycle
           \cup {Event(a, s, "candidate", "provisional_active", next) : s \in novel}
           \cup {Event(a, s, "provisional_active", "retired", next) : s \in failing}
      /\ IF arm < Len(EVOLUTION_ARMS)
         THEN arm' = arm + 1 /\ phase' = phase
         ELSE arm' = 1 /\ phase' = "promote"
      /\ UNCHANGED <<outcome, tapes, anchors, regressions, auditing>>

\* A timed-out gain is NaN, canonical_json refuses it, and the exception
\* leaves the rows before it and the arms already committed in the store.
RejectEvidence(a) ==
  /\ phase = "commit"
  /\ a = EVOLUTION_ARMS[arm]
  /\ TimedOut(a) # {}
  /\ evidence' = evidence \cup RunRows(a, case_index, Min(TimedOut(a)) - 1)
  /\ phase' = "aborted"
  /\ UNCHANGED <<arm, outcome, tapes, born, versions, lifecycle, anchors,
                 regressions, auditing>>

\* A novel spec on a case that matches no pattern stops the patterned arm.
RejectTape(a) ==
  /\ phase = "commit"
  /\ a = EVOLUTION_ARMS[arm]
  /\ TimedOut(a) = {}
  /\ Unkeyable(a, case_index) # {}
  /\ evidence' = evidence
       \cup RunRows(a, case_index, Len(outcome[a].run))
       \cup TapeRows(a, case_index, Min(Unkeyable(a, case_index)) - 1)
  /\ phase' = "aborted"
  /\ UNCHANGED <<arm, outcome, tapes, born, versions, lifecycle, anchors,
                 regressions, auditing>>

-----------------------------------------------------------------------------
(* Promotion of eligible provisional revisions.                            *)

Eligible(a) ==
  {s \in HeadVersion(a).active \ HeadVersion(a).stable :
     Promotable(Won(evidence, a, s), RecurrenceFamily)}

\* active_revision_ids keeps deposit order: by case, then by tape rank.
DepositedBefore(a, s, t) ==
  \/ born[a][s] < born[a][t]
  \/ /\ born[a][s] = born[a][t]
     /\ \E i, j \in DOMAIN tapes[born[a][s]] :
          i < j /\ tapes[born[a][s]][i] = s /\ tapes[born[a][s]][j] = t

\* With an incumbent in its family a challenger waits for the direct executor.
Challenges(a, s) == LatestIncumbent(a, s) # {}

\* Mistake: challengers are not compared at all.
Uncompared(a, s) == TRUE

\* The paired comparison and the replay of the incumbent's anchors may pass
\* or fail; without an incumbent nothing is compared.
MayPass(a, s) ==
  Challenges(a, s) =>
    HasDirectEvaluator /\ \A t \in LatestIncumbent(a, s) : anchors[a][t].cases # {}

MayFail(a, s) == Challenges(a, s)

\* The first eligible revision in deposit order that passes becomes stable.
Promote(a, s) ==
  LET v == HeadVersion(a)
      next == Len(versions[a]) + 1
  IN  /\ phase = "promote"
      /\ a = EVOLUTION_ARMS[arm]
      /\ s \in Eligible(a)
      /\ MayPass(a, s)
      /\ \A t \in Eligible(a) : DepositedBefore(a, t, s) => MayFail(a, t)
      /\ \E T \in SUBSET Won(evidence, a, s) :
           /\ IsValidationTriple(T, Won(evidence, a, s), RecurrenceFamily)
           /\ anchors' = [anchors EXCEPT ![a][s] = [cases |-> T, version |-> next]]
      /\ CommitVersion(a, [v EXCEPT !.stable = @ \cup {s},
                                    !.after = case_index,
                                    !.cause = "promotion"])
      /\ lifecycle' = lifecycle \cup {Event(a, s, "provisional_active", "stable", next)}
      /\ UNCHANGED <<phase, arm, outcome, tapes, born, evidence, regressions, auditing>>

\* Mistake: the last case is dropped.
NextCaseButLast == IF case_index >= N - 1 THEN "done" ELSE "evaluate"

NextCase == IF case_index = N THEN "done" ELSE "evaluate"

StableRevisions == {k \in UpdatingArms \X Specs : k[2] \in HeadVersion(k[1]).stable}

AuditDue ==
  case_index \in Checkpoints /\ HasDirectEvaluator /\ StableRevisions # {}

\* Nothing more passes on this arm.  The runner skips no_update, so the second
\* arm's turn ends the case and perhaps the round.
EndPromotion(a) ==
  /\ phase = "promote"
  /\ a = EVOLUTION_ARMS[arm]
  /\ \A s \in Eligible(a) : MayFail(a, s)
  /\ IF arm = 1
     THEN arm' = 2 /\ UNCHANGED <<phase, auditing>>
     ELSE /\ arm' = 1
          /\ phase' = IF AuditDue THEN "audit" ELSE NextCase
          /\ auditing' = IF AuditDue THEN StableRevisions ELSE {}
  /\ UNCHANGED <<outcome, tapes, ledger, regressions>>

-----------------------------------------------------------------------------
(* The checkpoint audit of the anchor sets.                                *)

AnchorCases(a, s) == {born[a][s]} \cup anchors[a][s].cases

\* What direct replay of an anchored revision can return on its four cases.
Replays(a, s) ==
  {r \in [AnchorCases(a, s) -> RolloutResults] :
     \A c \in AnchorCases(a, s) : r[c] = "hit" \/ c \in UnstableCases}

ReplayRows(a, s, replay, audited) ==
  {EvidenceRow(a, s, c, "anchor_replay", replay[c] = "hit") : c \in audited}

\* stable_ids: arm by arm, in promotion order.
NextToAudit(a, s) ==
  /\ <<a, s>> \in auditing
  /\ a = "unkeyed_global" => \A t \in Specs : <<"patterned", t>> \notin auditing
  /\ \A t \in Specs : <<a, t>> \in auditing => ~PromotedBefore(a, t, s)

\* retire_revision: a soft retirement that keeps the weights and the records.
Retire(a, s) ==
  LET v == HeadVersion(a)
  IN  /\ CommitVersion(a, [v EXCEPT !.active = @ \ {s},
                                    !.stable = @ \ {s},
                                    !.retired = @ \cup {s},
                                    !.after = case_index,
                                    !.cause = "checkpoint"])
      /\ lifecycle' = lifecycle
           \cup {Event(a, s, "stable", "retired", Len(versions[a]) + 1)}

\* Replay the four anchors, record the rows, count the regression and retire
\* the revision at its second consecutive one.
AuditRevision(a, s) ==
  /\ phase = "audit"
  /\ NextToAudit(a, s)
  /\ \E replay \in Replays(a, s) :
       LET regressed == \E c \in AnchorCases(a, s) : replay[c] = "miss"
           consecutive == NextRegressions(regressions[a][s], regressed)
       IN  /\ \A c \in AnchorCases(a, s) : replay[c] # "timeout"
           /\ evidence' = evidence \cup ReplayRows(a, s, replay, AnchorCases(a, s))
           /\ regressions' = [regressions EXCEPT ![a][s] = consecutive]
           /\ IF RetiresOnRegressions(consecutive)
              THEN Retire(a, s)
              ELSE UNCHANGED <<versions, lifecycle>>
  /\ auditing' = auditing \ {<<a, s>>}
  /\ phase' = IF auditing' = {} THEN NextCase ELSE phase
  /\ UNCHANGED <<arm, outcome, tapes, born, anchors>>

\* A replay that times out raises when its evidence row is built, after the
\* rows of the earlier anchors.
RejectReplay(a, s) ==
  /\ phase = "audit"
  /\ NextToAudit(a, s)
  /\ \E replay \in Replays(a, s) :
       LET late == {c \in AnchorCases(a, s) : replay[c] = "timeout"}
       IN  /\ late # {}
           /\ evidence' = evidence \cup
                ReplayRows(a, s, replay, {c \in AnchorCases(a, s) : c < Min(late)})
  /\ phase' = "aborted"
  /\ UNCHANGED <<arm, outcome, tapes, born, versions, lifecycle, anchors,
                 regressions, auditing>>

-----------------------------------------------------------------------------

EmptyVersion ==
  [active |-> {}, stable |-> {}, retired |-> {}, weights |-> [s \in Specs |-> Prior],
   after |-> 0, cause |-> "initial"]

NoAnchors == [cases |-> {}, version |-> 0]

NoOutcome == [version |-> 0, run |-> <<>>]

Init ==
  /\ tapes = <<>>
  /\ phase = NextCase
  /\ arm = 1
  /\ outcome = [a \in Arms |-> NoOutcome]
  /\ born = [a \in Arms |-> [s \in Specs |-> 0]]
  /\ evidence = {}
  /\ versions = [a \in Arms |-> <<EmptyVersion>>]
  /\ lifecycle = {}
  /\ anchors = [a \in Arms |-> [s \in Specs |-> NoAnchors]]
  /\ regressions = [a \in Arms |-> [s \in Specs |-> 0]]
  /\ auditing = {}

Finished == phase \in {"done", "aborted"} /\ UNCHANGED vars

Step ==
  \/ EvaluateCase
  \/ \E a \in Arms : CommitArm(a) \/ RejectEvidence(a) \/ RejectTape(a)
  \/ \E a \in UpdatingArms : EndPromotion(a)
  \/ \E a \in UpdatingArms, s \in Specs :
       Promote(a, s) \/ AuditRevision(a, s) \/ RejectReplay(a, s)

Next == Step \/ Finished

\* One thread runs the loop and every callback it makes returns.
Spec == Init /\ [][Next]_vars /\ WF_vars(Next)

-----------------------------------------------------------------------------
(* Types.                                                                  *)

Counts == [won : Nat, lost : Nat]

Versions ==
  [active : SUBSET Specs, stable : SUBSET Specs, retired : SUBSET Specs,
   weights : [Specs -> Counts],
   after : Nat, cause : {"initial", "case", "promotion", "checkpoint"}]

EvidenceKinds ==
  {"runtime_execution", "producing", "shadow_verification", "anchor_replay"}

EvidenceEvents ==
  [arm : Arms, spec : Specs, case : Nat, version : Nat,
   kind : EvidenceKinds, success : BOOLEAN]

LifecycleEvents ==
  [arm : Arms, spec : Specs, from : LIFECYCLE_STATES, to : LIFECYCLE_STATES,
   version : Nat]

\* Every variable has its type; the arm loop stays on the three arms and at
\* most N tapes exist.
TypeOK ==
  /\ phase \in Phases
  /\ arm \in 1..3
  /\ outcome \in [Arms -> [version : Nat, run : Seq(Attempts)]]
  /\ tapes \in Seq(Seq(Specs)) /\ case_index <= N
  /\ born \in [Arms -> [Specs -> Nat]]
  /\ evidence \subseteq EvidenceEvents
  /\ versions \in [Arms -> Seq(Versions)] /\ \A a \in Arms : versions[a] # <<>>
  /\ lifecycle \subseteq LifecycleEvents
  /\ anchors \in [Arms -> [Specs -> [cases : SUBSET Nat, version : Nat]]]
  /\ regressions \in [Arms -> [Specs -> Nat]]
  /\ auditing \subseteq UpdatingArms \X Specs

-----------------------------------------------------------------------------
(* Safety.                                                                 *)

\* The version that row e names was the head its case read: the revision was
\* active there, and every later version of the arm already follows the case.
ReadBeforeCase(e) ==
  /\ e.version \in DOMAIN versions[e.arm]
  /\ e.spec \in versions[e.arm][e.version].active
  /\ versions[e.arm][e.version].after < e.case
  /\ \A k \in DOMAIN versions[e.arm] :
       k > e.version => versions[e.arm][k].after >= e.case
  /\ 0 < born[e.arm][e.spec] /\ born[e.arm][e.spec] < e.case

\* Evaluate before update: no runtime row comes from a version that its own or
\* a later case had already changed, or credits a revision its case produced.
EvaluateBeforeUpdate ==
  \A e \in evidence : e.kind = "runtime_execution" => ReadBeforeCase(e)

\* The posterior of every active revision in every version is what a replay of
\* the ledger up to that version's case gives: no producing, shadow or anchor
\* row counts, no runtime row is lost or counted twice.
PosteriorReplaysLedger ==
  \A a \in UpdatingArms : \A k \in DOMAIN versions[a] :
    LET v == versions[a][k]
        Tally(s, won) == Cardinality({e \in evidence :
          /\ e.arm = a /\ e.spec = s /\ e.kind = "runtime_execution"
          /\ e.case <= v.after /\ e.success = won})
    IN  \A s \in v.active :
          v.weights[s] = [won |-> Tally(s, TRUE), lost |-> Tally(s, FALSE)]

\* The lifecycle ledger explains every library version: a revision's state
\* differs from the version before exactly when one event says so, and that
\* event names both states.
LedgerExplainsVersions ==
  \A a \in Arms, s \in Specs : \A k \in DOMAIN versions[a] \ {1} :
    LET before == LifecycleState(versions[a][k - 1], s)
        now == LifecycleState(versions[a][k], s)
        events == {e \in lifecycle : e.arm = a /\ e.spec = s /\ e.version = k}
    IN  /\ events = IF before = now THEN {}
                    ELSE {[arm |-> a, spec |-> s, from |-> before, to |-> now,
                           version |-> k]}
        /\ versions[a][k].stable \subseteq versions[a][k].active
        /\ versions[a][k].active \cap versions[a][k].retired = {}

\* When a case is over, a revision that meets the promotion rule is still
\* provisional only behind a stable one of its family, or because an audit has
\* retired that one since.
NoEligibleLeftBehind ==
  phase \in {"evaluate", "audit", "done"} =>
    \A a \in UpdatingArms : \A s \in HeadVersion(a).active \ HeadVersion(a).stable :
      \/ Cardinality(Won(evidence, a, s)) < 3
      \/ Cardinality({RecurrenceFamily[c] : c \in Won(evidence, a, s)}) < 2
      \/ \E t \in HeadVersion(a).stable : SkillFamily(a, t) = SkillFamily(a, s)
      \/ \E t \in HeadVersion(a).retired :
           /\ SkillFamily(a, t) = SkillFamily(a, s)
           /\ \E k \in DOMAIN versions[a] :
                versions[a][k].after = case_index /\ t \in versions[a][k].stable

\* A stable revision retires only when its last two audits, with none between
\* them, both lost an anchor.
RetirementTakesTwoRegressions ==
  \A e \in lifecycle : e.from = "stable" =>
    LET replays == {r \in evidence : /\ r.arm = e.arm /\ r.spec = e.spec
                                     /\ r.kind = "anchor_replay"
                                     /\ r.version < e.version}
        lost == {r.version : r \in {x \in replays : ~x.success}}
        last == Max({r.version : r \in replays})
    IN  /\ Cardinality({r.version : r \in replays}) >= 2
        /\ {last, Max({r.version : r \in replays} \ {last})} \subseteq lost

\* The versions that the commit of case c wrote in arm a.
CaseVersions(a, c) ==
  {k \in DOMAIN versions[a] : versions[a][k].cause = "case" /\ versions[a][k].after = c}

\* commit_case takes all three arms over one case or none of them: outside a
\* commit, also after one that raised, no arm keeps a case another arm lacks.
CaseCommitIsAtomic ==
  phase # "commit" =>
    \A c \in 1..case_index, a, b \in Arms :
      Cardinality(CaseVersions(a, c)) = Cardinality(CaseVersions(b, c))

-----------------------------------------------------------------------------
(* What makes EvaluateBeforeUpdate inductive.                              *)

\* Nothing in the store comes from a case after the current one, and an active
\* revision has a producing case.
NothingFromTheFuture ==
  /\ \A e \in evidence : e.case <= case_index
  /\ \A a \in Arms, s \in Specs :
       /\ born[a][s] <= case_index
       /\ \A c \in anchors[a][s].cases : c <= case_index
  /\ \A a \in Arms : \A k \in DOMAIN versions[a] :
       /\ versions[a][k].after <= case_index
       /\ \A s \in versions[a][k].active : 0 < born[a][s]

\* Arms that have still to commit the current case.
PendingArms == {a \in Arms : \E i \in arm..3 : EVOLUTION_ARMS[i] = a}

\* commit_case's "case did not read the frozen pre-update version" check: the
\* head of a pending arm is the version its run was retrieved from.
PendingReadHead ==
  phase = "commit" =>
    \A a \in PendingArms :
      /\ HeadVersion(a).after < case_index
      /\ \A s \in Specs : born[a][s] < case_index
      /\ \A i \in DOMAIN outcome[a].run : outcome[a].run[i].spec \in HeadVersion(a).active

\* The inductive invariant.
Inductive ==
  /\ TypeOK
  /\ IsFiniteSet(evidence)
  /\ phase = "evaluate" => case_index < N
  /\ NothingFromTheFuture
  /\ PendingReadHead
  /\ EvaluateBeforeUpdate

-----------------------------------------------------------------------------
(* Action properties and liveness.                                         *)

\* The store only grows: no step rewrites a version, a row or an event, moves
\* a revision's producing case, replaces an anchor set or takes a revision out
\* of retirement.
AppendOnly ==
  [][/\ evidence \subseteq evidence' /\ lifecycle \subseteq lifecycle'
     /\ \A a \in Arms : /\ IsPrefix(versions[a], versions'[a])
                        /\ HeadVersion(a).retired \subseteq HeadVersion(a)'.retired
     /\ \A a \in Arms, s \in Specs :
          /\ born[a][s] # 0 => born'[a][s] = born[a][s]
          /\ anchors[a][s].cases # {} => anchors'[a][s] = anchors[a][s]]_vars

\* The run ends, with every case committed unless an exception stopped it: the
\* promotion loop, which restarts after every promotion, and the audits finish.
RunEnds == <>(phase = "aborted" \/ (phase = "done" /\ case_index = N))

-----------------------------------------------------------------------------
(* The loop implements the lifecycle contract of a skill.                  *)

Lifecycle == INSTANCE SkillLifecycle WITH
  Skills <- UpdatingArms \X Specs,
  Family <- RecurrenceFamily,
  state  <- [k \in UpdatingArms \X Specs |-> LifecycleState(HeadVersion(k[1]), k[2])],
  wins   <- [k \in UpdatingArms \X Specs |-> Won(evidence, k[1], k[2])],
  losses <- [k \in UpdatingArms \X Specs |-> Lost(evidence, k[1], k[2])],
  anchor <- [k \in UpdatingArms \X Specs |-> anchors[k[1]][k[2]].cases],
  halted <- phase = "aborted"

\* Every step of the loop is a step of the contract or leaves it unchanged: a
\* revision's fate follows from its own runtime record alone.
ImplementsLifecycle == Lifecycle!Spec
=============================================================================
