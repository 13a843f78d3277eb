--------------------------- MODULE NicheEvolution ---------------------------
(***************************************************************************)
(* AuditedNicheEvolutionRunner on one updating arm: every case is executed *)
(* by the candidates that the archive held before it, then each of these   *)
(* is validated and considered as elite, and last the best recovery of the *)
(* case is proposed.  Arms own independent archives and differ only in the *)
(* niche they map a case to.  The update loop walks a list of copies taken *)
(* when it starts, so the queue is state, and the archive may change under *)
(* it.  The runner never rolls the archive back.                           *)
(***************************************************************************)
EXTENDS NicheArchive

CONSTANTS
  FixCases,         \* cases whose runtime_branch is "fix"
  Seeds,            \* operators of seed_candidate_provider, in order, per case
  Outcomes,         \* per case, what executing each operator may return
  candidate_budget,
  NoGain,           \* a shadow_gain of None
  NotFinite         \* a shadow_gain that is NaN or infinite

ASSUME StreamAssumption ==
  /\ FixCases \subseteq Cases
  /\ Seeds \in [Cases -> Seq(Operators)]
  /\ \A c \in FixCases : Len(Seeds[c]) >= candidate_budget
  /\ candidate_budget \in Nat \ {0}
  /\ \A c \in Cases : \A o \in Outcomes[c] :
       o \in [Operators -> [gain : Int \cup {NoGain, NotFinite}, cost : Nat]]

VARIABLES
  phase,         \* "audit" before the run, "test", "update", "done" or "aborted"
  edge_sources,  \* sources of the graph's edges into each niche, in order
  case_index,    \* the current case
  executions,    \* what each executed skill returned on the current case
  queue,         \* records that the update loop has yet to visit
  candidates,
  elite

vars == <<phase, edge_sources, case_index, executions, queue, candidates, elite>>

Skills == Revisions \cup [seed : Operators]

OperatorOf(k) == IF k \in Revisions THEN k.op ELSE k.seed

Finite(gain) == gain \notin {NoGain, NotFinite}

-----------------------------------------------------------------------------
(* Testing a case against the archive before it.                           *)

\* Edges of either kind offer their source; candidate() finds a retired one too.
FromEdges(n) ==
  SelectSeq(edge_sources[n], LAMBDA r : r \in DOMAIN candidates)

\* Archive rows, then transfer edges, then seeds.
Offered(rows, c) ==
  rows \o FromEdges(Niche[c]) \o [i \in DOMAIN Seeds[c] |-> [seed |-> Seeds[c][i]]]

\* _deduplicate_candidates: the places that offer an operator first.
FirstPlaces(q) ==
  {i \in DOMAIN q : \A j \in 1..(i - 1) : OperatorOf(q[j]) # OperatorOf(q[i])}

\* The first candidate_budget of them.
CandidatesForArm(rows, c) ==
  LET q == Offered(rows, c)
  IN  {q[i] : i \in FirstOf(FirstPlaces(q), candidate_budget)}

TestCase ==
  /\ phase = "test" /\ case_index \in FixCases
  /\ \E rows \in CandidatesForDescriptor(candidates, Niche[case_index], case_index),
        o \in Outcomes[case_index] :
       /\ executions' = [k \in CandidatesForArm(rows, case_index) |-> o[OperatorOf(k)]]
       /\ queue' = rows
  /\ phase' = "update"
  /\ UNCHANGED <<edge_sources, case_index, candidates, elite>>

NextPhase == IF case_index = N THEN "done" ELSE "test"

\* A "fill" case executes nothing and updates nothing.
FillCase ==
  /\ phase = "test" /\ case_index \notin FixCases
  /\ phase' = NextPhase
  /\ case_index' = Min({case_index + 1, N})
  /\ UNCHANGED <<edge_sources, executions, queue, candidates, elite>>

-----------------------------------------------------------------------------
(* Updating the archive with the outcomes of the case.                     *)

Visiting == phase = "update" /\ queue # <<>>

HasResult(r) == r \in DOMAIN executions /\ executions[r].gain # NoGain

SkipRecord ==
  /\ Visiting /\ ~HasResult(Head(queue))
  /\ queue' = Tail(queue)
  /\ UNCHANGED <<phase, edge_sources, case_index, executions, candidates, elite>>

\* record_validation, and consider_elite for what is stable after it.
ValidateRecord ==
  /\ Visiting /\ HasResult(Head(queue))
  /\ candidates[Head(queue)].status # "retired"
  /\ Finite(executions[Head(queue)].gain)
  /\ LET r == Head(queue)
         recorded == RecordValidation(candidates, r, case_index, executions[r])
     IN  /\ candidates' = CandidatesAfter(recorded, elite, r)
         /\ elite' = EliteAfter(recorded, elite, r)
  /\ queue' = Tail(queue)
  /\ UNCHANGED <<phase, edge_sources, case_index, executions>>

\* The loop re-raises every ValueError except a duplicate's: the copy's record
\* has retired meanwhile, or the gain is not finite.
RaiseOnRecord ==
  /\ Visiting /\ HasResult(Head(queue))
  /\ \/ candidates[Head(queue)].status = "retired"
     \/ ~Finite(executions[Head(queue)].gain)
  /\ phase' = "aborted"
  /\ UNCHANGED <<edge_sources, case_index, executions, queue, candidates, elite>>

Successful == {k \in DOMAIN executions : Finite(executions[k].gain) /\ executions[k].gain >= 1}

\* Ids of revisions sort before ids of seeds, seeds as their operators do.
IdBefore(k, m) ==
  \/ k \in Revisions /\ m \notin Revisions
  \/ k \in Revisions /\ m \in Revisions /\ IdRank[k.op, k.case] < IdRank[m.op, m.case]
  \/ k \notin Revisions /\ m \notin Revisions /\ IdRank[k.seed, 1] < IdRank[m.seed, 1]

Better(k, m) ==
  LET x == executions[k]  y == executions[m]
  IN  \/ x.gain > y.gain
      \/ x.gain = y.gain /\ x.cost < y.cost
      \/ x.gain = y.gain /\ x.cost = y.cost /\ IdBefore(k, m)

Best == {k \in Successful : \A m \in Successful \ {k} : Better(k, m)}

ProposeBest ==
  /\ phase = "update" /\ queue = <<>>
  /\ \/ /\ Successful = {}
        /\ UNCHANGED candidates
     \/ \E k \in Best :
          candidates' = Propose(candidates, Niche[case_index], OperatorOf(k), case_index)
  /\ phase' = NextPhase
  /\ case_index' = Min({case_index + 1, N})
  /\ executions' = <<>>
  /\ UNCHANGED <<edge_sources, queue, elite>>

RunInit ==
  /\ case_index = 1
  /\ executions = <<>> /\ queue = <<>>
  /\ candidates = <<>> /\ elite = <<>>

Step == TestCase \/ FillCase \/ SkipRecord \/ ValidateRecord \/ RaiseOnRecord \/ ProposeBest

-----------------------------------------------------------------------------
(* Properties.                                                             *)

Results == [gain : Int, cost : Nat]

TypeOK ==
  /\ phase \in {"audit", "test", "update", "done", "aborted"}
  /\ case_index \in Cases
  /\ DOMAIN executions \subseteq Skills
  /\ queue \in Seq(DOMAIN candidates)
  /\ DOMAIN candidates \subseteq Revisions
  /\ \A r \in DOMAIN candidates :
       /\ candidates[r].status \in {"provisional", "stable", "retired"}
       /\ DOMAIN candidates[r].evidence \subseteq Cases
       /\ Range(candidates[r].evidence) \subseteq Results
       /\ Cardinality(candidates[r].anchors) \in {0, 4}
  /\ DOMAIN elite \subseteq Range(Niche)

Stable == {r \in DOMAIN candidates : candidates[r].status = "stable"}

Retired == {r \in DOMAIN candidates : candidates[r].status = "retired"}

\* Every niche that ever promoted a revision has one elite, which is stable, of
\* that niche, and has recovered all of its anchors but the producing case.
EliteIsSound ==
  /\ {r.niche : r \in Stable \cup Retired} = DOMAIN elite
  /\ \A n \in DOMAIN elite :
       LET r == elite[n]
       IN  /\ r \in Stable /\ r.niche = n
           /\ candidates[r].anchors \ {r.case} \subseteq Wins(candidates[r].evidence)

\* A revision is judged only on later cases of its niche, and its anchors are
\* its producing case and three of these.
EvidenceIsIndependent ==
  \A r \in DOMAIN candidates :
    /\ \A c \in DOMAIN candidates[r].evidence : r.case < c /\ Niche[c] = r.niche
    /\ candidates[r].status # "provisional" =>
         /\ candidates[r].anchors \cap DOMAIN candidates[r].evidence
              = candidates[r].anchors \ {r.case}
         /\ Cardinality(FamiliesOf(Wins(candidates[r].evidence))) >= 2

\* A niche holds one live revision of an operator, so that no execution could
\* count for two.
OneLiveRevisionPerOperator ==
  \A r, s \in DOMAIN candidates \ Retired : r.niche = s.niche /\ r.op = s.op => r = s

\* Only an older revision ever takes a niche over: the producing case is an
\* anchor, and a younger challenger never ran on it.  What retired is younger
\* than the elite of its niche.
ElitesAreReplacedByElders ==
  \A r \in Retired : elite[r.niche].case < r.case

\* The post-outcome update of a case cannot affect the outcomes above: it never
\* raises, which would lose the outcomes of every case.
UpdateNeverRaises == phase # "aborted"
=============================================================================
