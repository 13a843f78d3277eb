------------------------- MODULE OperatorTrajectory -------------------------
(***************************************************************************)
(* The loop of run_experiment_24_operator_trajectory.py over a stream of   *)
(* residual cases: a library that grows with what recovered a case, next   *)
(* to three controls, a library that is frozen after a warm-up, shapes     *)
(* drawn at random from the growing library, and its candidates in random  *)
(* order.  A shape is the set of its steps; the client answers at          *)
(* temperature 0, so a case has one net gain for each shape.  The          *)
(* parameterised shapes, and the rows, are left out.                       *)
(***************************************************************************)
EXTENDS Fingerprints

CONSTANTS
  CaseFingerprints,        \* sets of content words
  LegalSteps,              \* what the recall and the depth of a case may allow
  ScanOrder,               \* the shapes that a discovery scan goes through
  NetGains,                \* gains over the identity, as levels from 0
  Timeout,
  topn, trajectory_threshold, fixed_library_warmup,
  MaxCases

\* The scan goes through every step, and perhaps every pair of steps.  What the
\* legal steps of a case leave of a shape is then a shape of the scan again.
ASSUME TrajectoryConstants ==
  /\ topn \in Nat \ {0} /\ trajectory_threshold \in Nat \ {0}
  /\ fixed_library_warmup \in Nat /\ MaxCases \in Nat
  /\ NetGains \subseteq Nat /\ Timeout \notin NetGains
  /\ \A fp \in CaseFingerprints : IsFiniteSet(fp)
  /\ ScanOrder \in Seq((SUBSET UNION LegalSteps) \ {{}})
  /\ \A spec \in ToSet(ScanOrder), legal \in LegalSteps :
       spec \cap legal \in ToSet(ScanOrder) \union {{}}

VARIABLES
  stage,           \* "library", "discovery" or "learn"
  case_index,      \* cases that are done
  case,            \* the current one: its fingerprint, legal steps and gains
  library, fixed_library,        \* entries, in the order of acceptance
  live, fixed,     \* what each of the two has found for the case
  ordered,         \* what the growing library finds in random order
  random           \* whether the case recovers with random shapes

trajectoryVars ==
  <<stage, case_index, case, library, fixed_library, live, fixed, ordered, random>>

NoSpec == {}
NothingFound == [net |-> 0, spec |-> NoSpec]
NoCase == [fp |-> {}, legal |-> {}, net |-> <<>>]

Shapes(legal) == (SUBSET legal) \ {NoSpec}

Hit(found) == found.spec # NoSpec /\ found.net >= trajectory_threshold

\* The distinct shapes of the topn most similar entries, the one that gained more
\* first when they are alike, and among equals the one accepted first.
RetrieveLibrary(lib, fp) ==
  LET Sim(i) == Similarity(lib[i].fp, fp)
      Precedes(i, j) ==
        \/ Exceeds(Sim(i), Sim(j))
        \/ /\ ~Exceeds(Sim(j), Sim(i))
           /\ \/ lib[i].net > lib[j].net
              \/ lib[i].net = lib[j].net /\ i < j
      related == {i \in DOMAIN lib : Related(lib[i].fp, fp)}
      firsts == {i \in related : \A j \in related :
                   lib[j].spec = lib[i].spec => ~Precedes(j, i)}
      order == {p \in firsts \X firsts : Precedes(p[1], p[2])}
      places == SubSeq(Ranked(firsts, order), 1, Min({topn, Cardinality(firsts)}))
  IN  [n \in DOMAIN places |-> lib[places[n]].spec]

\* Executing one more shape: nothing after the first that recovered, a timeout
\* counts for nothing, and the best so far is kept.
Consider(found, spec) ==
  LET gain == case.net[spec]
  IN  IF Hit(found) \/ gain = Timeout THEN found
      ELSE IF gain > found.net THEN [net |-> gain, spec |-> spec]
      ELSE found

\* Each candidate is grounded on the case: its illegal steps go, and a candidate
\* without a legal one is not executed.
RunLibraryStage(candidates) ==
  LET found[n \in 0..Len(candidates)] ==
        IF n = 0 THEN NothingFound
        ELSE LET spec == candidates[n] \cap case.legal
             IN  IF spec = NoSpec THEN found[n - 1] ELSE Consider(found[n - 1], spec)
  IN  found[Len(candidates)]

\* The growing arm executes every candidate first.
ScoreCandidates(candidates) ==
  LET scored[n \in 0..Len(candidates)] ==
        IF n = 0 THEN <<>>
        ELSE LET spec == candidates[n] \cap case.legal
             IN  IF spec = NoSpec THEN scored[n - 1]
                 ELSE Append(scored[n - 1], [spec |-> spec, net |-> case.net[spec]])
  IN  scored[Len(candidates)]

\* The best of the scores that were looked at, the earliest of equals.
BestScore(scored, tried) ==
  LET gains == {n \in tried : scored[n].net # Timeout /\ scored[n].net > 0}
      best == {n \in gains : \A m \in gains :
                 \/ scored[n].net > scored[m].net
                 \/ scored[n].net = scored[m].net /\ n <= m}
  IN  IF best = {} THEN NothingFound
      ELSE [net |-> scored[Min(best)].net, spec |-> scored[Min(best)].spec]

\* Mistake: the best of all scores, also of those after the first that recovered.
ReplayAll(scored) == BestScore(scored, DOMAIN scored)

\* Then it goes through the scores as if it had stopped at the first that recovered.
ReplayEarlyStop(scored) ==
  LET Recovers(n) == scored[n].net # Timeout /\ scored[n].net >= trajectory_threshold
  IN  BestScore(scored, {n \in DOMAIN scored : \A m \in 1..(n - 1) : ~Recovers(m)})

RandomPool == FirstDistinct([n \in DOMAIN library |-> library[n].spec], Len(library))

\* Sequences without repetition of k places of s.
Draws(s, k) == {d \in [1..k -> DOMAIN s] : IsInjective(d)}

DiscoveryScan ==
  LET Better(found, spec) ==
        IF spec \subseteq case.legal /\ case.net[spec] # Timeout
           /\ case.net[spec] > found.net
        THEN [net |-> case.net[spec], spec |-> spec]
        ELSE found
      best[n \in 0..Len(ScanOrder)] ==
        IF n = 0 THEN [net |-> -1, spec |-> NoSpec] ELSE Better(best[n - 1], ScanOrder[n])
  IN  best[Len(ScanOrder)]

\* An accepted shape is added unless its fingerprint has it, whose gain then stays.
Accept(lib, found) ==
  IF \E i \in DOMAIN lib : lib[i].fp = case.fp /\ lib[i].spec = found.spec
  THEN lib
  ELSE Append(lib, [fp |-> case.fp, spec |-> found.spec, net |-> found.net])
-----------------------------------------------------------------------------
TrajectoryInit ==
  /\ stage = "library" /\ case_index = 0 /\ case = NoCase
  /\ library = <<>> /\ fixed_library = <<>>
  /\ live = NothingFound /\ fixed = NothingFound /\ ordered = NothingFound /\ random = FALSE

\* The identity timed out: no arm sees the case, which counts for the warm-up.
Exclude ==
  /\ stage = "library" /\ case = NoCase /\ case_index < MaxCases
  /\ case_index' = case_index + 1
  /\ UNCHANGED <<stage, case, library, fixed_library, live, fixed, ordered, random>>

StartCase ==
  /\ stage = "library" /\ case = NoCase /\ case_index < MaxCases
  /\ \E fp \in CaseFingerprints, legal \in LegalSteps :
       \E net \in [Shapes(legal) -> NetGains \union {Timeout}] :
         case' = [fp |-> fp, legal |-> legal, net |-> net]
  /\ UNCHANGED <<stage, case_index, library, fixed_library, live, fixed, ordered, random>>

\* The growing library first, then the controls.  No case comes twice, so the pool
\* of the random arm holds no shape of the case itself.
LibraryStages ==
  /\ stage = "library" /\ case # NoCase
  /\ fixed' = RunLibraryStage(RetrieveLibrary(fixed_library, case.fp))
  /\ \E scored \in {ScoreCandidates(RetrieveLibrary(library, case.fp))} :
       /\ live' = ReplayEarlyStop(scored)
       /\ \E d \in Draws(scored, Len(scored)) :
            ordered' = ReplayEarlyStop([n \in DOMAIN d |-> scored[d[n]]])
  /\ \E pool \in {RandomPool} :
       \E d \in Draws(pool, Min({topn, Len(pool)})) :
         random' = Hit(RunLibraryStage([n \in DOMAIN d |-> pool[d[n]]]))
  /\ stage' = "discovery"
  /\ UNCHANGED <<case_index, case, library, fixed_library>>

\* Mistake: the scan is only made when the growing arm missed.
LiveNeedsDiscovery == ~Hit(live)

\* One scan serves every arm that missed, and is made if one did.
NeedsDiscovery == ~Hit(live) \/ ~Hit(fixed) \/ ~random

Discover ==
  LET scan == IF NeedsDiscovery THEN DiscoveryScan ELSE NothingFound
      Fallback(found) == IF ~Hit(found) /\ Hit(scan) THEN scan ELSE found
  IN  /\ stage = "discovery"
      /\ live' = Fallback(live)
      /\ fixed' = Fallback(fixed)
      /\ random' = (random \/ Hit(scan))
      /\ stage' = "learn"
      /\ UNCHANGED <<case_index, case, library, fixed_library, ordered>>

Learn ==
  /\ stage = "learn"
  /\ library' = IF Hit(live) THEN Accept(library, live) ELSE library
  /\ fixed_library' = IF Hit(fixed) /\ case_index + 1 <= fixed_library_warmup
                      THEN Accept(fixed_library, fixed) ELSE fixed_library
  /\ case_index' = case_index + 1 /\ case' = NoCase /\ stage' = "library"
  /\ live' = NothingFound /\ fixed' = NothingFound /\ ordered' = NothingFound /\ random' = FALSE

TrajectoryNext ==
  Exclude \/ StartCase \/ LibraryStages \/ Discover \/ Learn

TrajectorySpec == TrajectoryInit /\ [][TrajectoryNext]_trajectoryVars
-----------------------------------------------------------------------------
\* The controls differ from the growing arm by growth alone: the frozen library is
\* what the growing one was, so the two implementations of the library stage agree
\* and neither arm has learned from the other.
FrozenLibraryIsThePast == IsPrefix(fixed_library, library)

\* Whatever each arm had in its library, all recover the same cases, because the
\* scan they share finds again each shape that a library can hold; and the order of
\* its candidates never decides whether the growing library recovers one.  The rate
\* of recovered cases, by which Gate 2 compares the arms, therefore cannot tell them
\* apart, unless parameterised shapes or an unsteady client do.
ArmsRecoverTheSameCases ==
  /\ stage = "discovery" => (Hit(ordered) <=> Hit(live))
  /\ stage = "learn" => (Hit(fixed) <=> Hit(live)) /\ (random <=> Hit(live))
=============================================================================
