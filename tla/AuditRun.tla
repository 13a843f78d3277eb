------------------------------ MODULE AuditRun ------------------------------
(***************************************************************************)
(* The online audit of cmd_audit/harness.py: run_cases takes a list of     *)
(* cases, one after the other, through the retrieval hook, the reuse of    *)
(* operators that recovered similar cases, the exhaustive single-point     *)
(* search and the iterated repair.  The cases share a failure memory in    *)
(* process and, if a repair is asked for, one adapter of an agent's store. *)
(*                                                                         *)
(* A rollout yields a score, Timeout (the NaN of search.py) or Failure (an *)
(* error or an empty answer).  There is one generation point, so an action *)
(* is a label.                                                             *)
(***************************************************************************)
EXTENDS Fingerprints

CONSTANTS
  N,              \* cases
  Configs,        \* what run_cases may be called with
  QueryWords,     \* per case, the keywords of its query
  MemoryWords,    \* per case, the content words of what was recalled
  Confidence,     \* per case, the hook's confidence in thousandths
  SafetyReviewed, \* cases that recalled an item which passed the safety filter
  StructuralGap,  \* per case, the label of its evidence gap, or None
  Assessment,     \* per case, of the replay of what it recalled
  Scores, Timeout, Failure, None,
  max_iterations,
  top_k           \* words of a fingerprint

ASSUME AuditRunAssumption ==
  /\ N \in Nat \ {0} /\ max_iterations \in Nat \ {0} /\ top_k \in Nat \ {0}
  /\ Scores \subseteq Nat /\ Timeout \notin Nat /\ Failure \notin Nat /\ Timeout # Failure
  /\ Configs \subseteq [agent : BOOLEAN, adapter : {"none", "mem0", "letta"},
                         llm : {"none", "optional", "required"}]
  /\ SafetyReviewed \subseteq {c \in 1..N : MemoryWords[c] # <<>>}
  /\ \A c \in 1..N : IsFiniteSet(QueryWords[c]) /\ MemoryWords[c] \in Seq(ToSet(MemoryWords[c]))

VARIABLES
  config,      \* what run_cases was called with
  case, phase,
  records,     \* FailureMemoryStore._records
  pending,     \* actions the search has still to score
  credits,     \* action_credits
  timed_out, unscored, truncated,
  attribution,
  to_try, attempts,
  adapter,     \* what repairs have done to the agent's store
  observed     \* every rollout of the case that was begun, and its outcome

search == <<pending, credits, timed_out, unscored, truncated, observed>>
repair == <<to_try, attempts, adapter>>
vars == <<config, case, phase, records, search, attribution, repair>>

-----------------------------------------------------------------------------
(* Rollouts.                                                               *)

Outcomes == Scores \cup {Timeout, Failure}

\* Mistake: what timed out is a score of zero.
Laundered(outcome) == IF outcome \in Scores THEN outcome ELSE 0

\* A failed rollout scores zero: the search does not tell it from a wrong answer.
Score(outcome) == IF outcome = Failure THEN 0 ELSE outcome

IsNaN(score) == score = Timeout

-----------------------------------------------------------------------------
(* Labels.                                                                 *)

\* The step actions in falling order of their names.
NamesDown == <<"safety_error", "retrieval_error", "injection_error", "granularity_error">>

StepActions == ToSet(NamesDown)

Legal(c) == IF c \in SafetyReviewed THEN StepActions ELSE StepActions \ {"safety_error"}

\* Records are written and read by the words of the memory; a case that recalled
\* nothing falls back on its query.
Key(c) ==
  IF MemoryWords[c] = <<>> THEN QueryWords[c] ELSE MostFrequent(MemoryWords[c], top_k)

\* A stored record recovered its case, so the prior of its label is 1 where the
\* memory is similar and 1/2 elsewhere.
Hinted(c, a) == \E i \in DOMAIN records : records[i].label = a /\ Related(records[i].key, Key(c))

Place(a) == FirstPlace(NamesDown, a)

\* The order in which the search scores the actions: by prior, then by name.
Before(a, b) ==
  \/ Hinted(case, a) /\ ~Hinted(case, b)
  \/ (Hinted(case, a) <=> Hinted(case, b)) /\ Place(a) < Place(b)

-----------------------------------------------------------------------------
(* The hook.                                                               *)

\* get_hook_confidence_bonus asks with the query, whatever the records' keys.
\* All that are similar recovered, so the bonus is all or nothing.
Bonus(c) ==
  IF \E i \in DOMAIN records : Related(records[i].key, QueryWords[c]) THEN 150 ELSE 0

NeedsFix(c) == Min({1000, Confidence[c] + Bonus(c)}) >= 500

-----------------------------------------------------------------------------
(* What follows an attribution.                                            *)

NoAttribution == [source |-> "none", label |-> None, ranking |-> <<>>, credit |-> <<>>]

\* Mistake: a label without gain is close enough.
AtLeast(credit) == credit >= 0

AboveThreshold(credit) == credit > 0

\* The predicted label first, then the others of the ranking that gain.
LabelsToTry(att) ==
  LET Tries(a) == a = att.label \/ AboveThreshold(att.credit[a])
  IN  AtPlaces(att.ranking, {i \in DOMAIN att.ranking : Tries(att.ranking[i])})

Conclude(att) ==
  /\ attribution' = att
  /\ IF config.adapter # "none" /\ att # NoAttribution
     THEN phase' = "repair" /\ to_try' = LabelsToTry(att)
     ELSE phase' = "report" /\ to_try' = to_try
  /\ UNCHANGED <<attempts, adapter>>

\* Without a measured gain, a gap that the trace itself shows.
GapAttribution(c) ==
  IF StructuralGap[c] = None THEN NoAttribution
  ELSE [source |-> "gap", label |-> StructuralGap[c], ranking |-> <<StructuralGap[c]>>,
        credit |-> [a \in {StructuralGap[c]} |-> 0]]

Hook ==
  /\ phase = "hook"
  /\ IF ~NeedsFix(case)
     THEN phase' = "report" /\ UNCHANGED <<attribution, repair>>
     ELSE IF config.agent
     THEN phase' = "reuse" /\ UNCHANGED <<attribution, repair>>
     ELSE Conclude(GapAttribution(case))
  /\ UNCHANGED <<config, case, records, search>>

-----------------------------------------------------------------------------
(* Reuse of operators that recovered similar cases.                        *)

\* retrieve_operator_specs with top_k = 2: the labels of up to six records.
ReusableOperators(c) ==
  LET near == MostSimilar([i \in DOMAIN records |-> records[i].key], Key(c), 6)
  IN  FirstDistinct([i \in DOMAIN near |-> records[near[i]].label], 2)

\* Mistake: a failed identity counts as zero, as it does in the search.
ImprovingOnFailure(tried) ==
  LET scored == {a \in DOMAIN tried \ {"identity"} : tried[a] \in Scores}
  IN  IF IsNaN(tried["identity"]) THEN {}
      ELSE {a \in scored : tried[a] > Score(tried["identity"])
                           /\ \A b \in scored : tried[b] <= tried[a]}

\* The first operator with the largest gain over identity, which must be positive.
Improving(tried) ==
  LET Gain(a) == tried[a] - tried["identity"]
      scored == {a \in DOMAIN tried \ {"identity"} : tried[a] \in Scores}
  IN  IF tried["identity"] \notin Scores THEN {}
      ELSE {a \in scored : Gain(a) > 0 /\ \A b \in scored : Gain(b) <= Gain(a)}

\* An operator that improves on identity ends the diagnosis, and is not recorded.
Reuse ==
  /\ phase = "reuse"
  /\ LET specs == ReusableOperators(case)
     IN  IF specs = <<>>
         THEN phase' = "search" /\ UNCHANGED <<observed, attribution, repair>>
         ELSE \E tried \in [ToSet(specs) \cup {"identity"} -> Outcomes] :
           IF Improving(tried) = {}
           THEN phase' = "search" /\ UNCHANGED <<observed, attribution, repair>>
           ELSE LET a == CHOOSE x \in Improving(tried) :
                           \A y \in Improving(tried) : FirstPlace(specs, x) <= FirstPlace(specs, y)
                IN  /\ observed' = tried
                    /\ Conclude([source |-> "skill", label |-> a, ranking |-> <<a>>,
                                 credit |-> [x \in {a} |-> tried[a] - Score(tried["identity"])]])
  /\ UNCHANGED <<config, case, records, pending, credits, timed_out, unscored, truncated>>

-----------------------------------------------------------------------------
(* The search.                                                             *)

\* The clock is read before anything is scored.
GiveUp ==
  /\ phase = "search"
  /\ truncated' = TRUE
  /\ phase' = "attribute"
  /\ UNCHANGED <<config, case, records, pending, credits, timed_out, unscored, observed,
                 attribution, repair>>

\* No credit can be given if the identity rollout timed out.
MeasureIdentity ==
  /\ phase = "search"
  /\ \E outcome \in Outcomes :
       /\ observed' = [x \in {"identity"} |-> outcome]
       /\ IF IsNaN(Score(outcome))
          THEN /\ timed_out' = {"identity"} /\ unscored' = Legal(case)
               /\ truncated' = TRUE
               /\ phase' = "attribute"
               /\ UNCHANGED <<pending, credits>>
          ELSE /\ pending' = Legal(case) /\ credits' = [x \in {"identity"} |-> 0]
               /\ phase' = "measure"
               /\ UNCHANGED <<timed_out, unscored, truncated>>
  /\ UNCHANGED <<config, case, records, attribution, repair>>

Begun == DOMAIN observed \ {"identity"}

MeasureNext ==
  /\ phase = "measure" /\ Cardinality(Begun) < max_iterations
  /\ \E a \in pending : \E outcome \in Outcomes :
       /\ \A b \in pending \ {a} : Before(a, b)
       /\ pending' = pending \ {a}
       /\ observed' = [x \in DOMAIN observed \cup {a} |->
                         IF x = a THEN outcome ELSE observed[x]]
       /\ IF IsNaN(Score(outcome))
          THEN timed_out' = timed_out \cup {a} /\ UNCHANGED credits
          ELSE /\ credits' = [x \in DOMAIN credits \cup {a} |->
                                IF x = a THEN Score(outcome) - Score(observed["identity"])
                                ELSE credits[x]]
               /\ UNCHANGED timed_out
  /\ UNCHANGED <<config, case, phase, records, unscored, truncated, attribution, repair>>

\* Out of time or of rollouts: what is left is reported as not scored.
Truncate ==
  /\ phase = "measure" /\ pending # {}
  /\ truncated' = TRUE
  /\ unscored' = pending /\ pending' = {}
  /\ phase' = "attribute"
  /\ UNCHANGED <<config, case, records, credits, timed_out, observed, attribution, repair>>

EndSearch ==
  /\ phase = "measure" /\ pending = {}
  /\ phase' = "attribute"
  /\ UNCHANGED <<config, case, records, search, attribution, repair>>

\* The credits in falling order, equals in the order of the search.
Ranking ==
  LET scored == DOMAIN credits \ {"identity"}
      better == {p \in scored \X scored :
                   \/ credits[p[1]] > credits[p[2]]
                   \/ credits[p[1]] = credits[p[2]] /\ Before(p[1], p[2])}
  IN  Ranked(scored, better)

\* The culprit is recorded, then attributed; without one the trace decides.
Attribute ==
  /\ phase = "attribute"
  /\ IF Ranking # <<>> /\ credits[Ranking[1]] > 0
     THEN /\ records' = Append(records, [case |-> case, key |-> Key(case), label |-> Ranking[1]])
          /\ Conclude([source |-> "search", label |-> Ranking[1], ranking |-> Ranking,
                       credit |-> credits])
     ELSE Conclude(GapAttribution(case)) /\ UNCHANGED records
  /\ UNCHANGED <<config, case, search>>

-----------------------------------------------------------------------------
(* The repair.                                                             *)

Supported ==
  IF config.adapter = "letta" THEN <<"append", "replace", "relocate", "update_routing">>
  ELSE <<"append", "replace">>

Preferred(label) ==
  CASE label = "retrieval_error" -> "update_routing"
    [] label = "safety_error" -> "update_template"
    [] OTHER -> "replace"

Heuristic(label) ==
  IF Preferred(label) \in ToSet(Supported) THEN Preferred(label) ELSE Supported[1]

\* A language model may choose any action the adapter supports.
Selectable(label) == IF config.llm = "none" THEN {Heuristic(label)} ELSE ToSet(Supported)

\* Stops at the first that recovered, or when nothing is left.
Attempted(assessment) ==
  /\ attempts' = Append(attempts, [label |-> Head(to_try), assessment |-> assessment])
  /\ to_try' = Tail(to_try)
  /\ phase' = IF assessment = "recovered" \/ Len(to_try) = 1 THEN "report" ELSE "repair"

\* The model is required to choose and its answer is not an action.
FailToSelect ==
  /\ phase = "repair" /\ config.llm = "required"
  /\ Attempted("action_selection_failed")
  /\ UNCHANGED <<config, case, records, search, attribution, adapter>>

\* The replay that assesses a repair reads what the case recalled, not the store.
Repair ==
  /\ phase = "repair"
  /\ \E type \in Selectable(Head(to_try)) \ {"replace"} :
       adapter' = IF type = "update_routing" THEN adapter ELSE adapter \cup {"added"}
  /\ Attempted(Assessment[case])
  /\ UNCHANGED <<config, case, records, search, attribution>>

\* replace wants an item to replace, and if it finds one its own checksum, which
\* does not cover the items, tells it that nothing was repaired.
RepairRaises ==
  /\ phase = "repair" /\ "replace" \in Selectable(Head(to_try))
  /\ \/ UNCHANGED adapter
     \/ config.llm # "none" /\ adapter' = adapter \cup {"overwritten"}
  /\ phase' = "raised"
  /\ UNCHANGED <<config, case, records, search, attribution, to_try, attempts>>

-----------------------------------------------------------------------------

\* The result of the case is complete; the next case starts afresh.
Report ==
  /\ phase = "report"
  /\ IF case = N THEN phase' = "done" /\ UNCHANGED <<case, search, attribution, to_try, attempts>>
     ELSE /\ phase' = "hook" /\ case' = case + 1
          /\ pending' = {} /\ credits' = <<>> /\ timed_out' = {} /\ unscored' = {}
          /\ truncated' = FALSE /\ observed' = <<>>
          /\ attribution' = NoAttribution /\ to_try' = <<>> /\ attempts' = <<>>
  /\ UNCHANGED <<config, records, adapter>>

Init ==
  /\ config \in Configs
  /\ case = 1 /\ phase = "hook" /\ records = <<>>
  /\ pending = {} /\ credits = <<>> /\ timed_out = {} /\ unscored = {}
  /\ truncated = FALSE /\ observed = <<>>
  /\ attribution = NoAttribution /\ to_try = <<>> /\ attempts = <<>>
  /\ adapter = {}

Next ==
  \/ Hook \/ Reuse
  \/ GiveUp \/ MeasureIdentity \/ MeasureNext \/ Truncate \/ EndSearch \/ Attribute
  \/ FailToSelect \/ Repair \/ RepairRaises
  \/ Report

Spec == Init /\ [][Next]_vars
-----------------------------------------------------------------------------
Settled == {"attribute", "repair", "report", "done", "raised"}

\* The report of a search is honest: what timed out is reported as timed out and
\* is neither scored nor left over, what was begun has a credit or timed out, what
\* was not begun is reported as such, and only a truncated search leaves any out.
\* It is said of searches that measured something: one that gives up before its
\* first rollout (search.py:125-128) returns an empty report that is marked as
\* truncated and does not list what it left out.
EveryActionIsAccounted ==
  /\ phase = "measure" =>
       /\ pending \cap Begun = {} /\ pending \cup Begun = Legal(case)
       /\ unscored = {} /\ ~truncated
  /\ attribution.source # "skill" /\ observed # <<>> =>
       /\ timed_out = {a \in DOMAIN observed : observed[a] = Timeout}
       /\ DOMAIN credits = DOMAIN observed \ timed_out
  /\ phase \in Settled /\ attribution.source # "skill" /\ observed # <<>> =>
       /\ unscored = Legal(case) \ Begun
       /\ unscored # {} <=> truncated
       /\ "identity" \in timed_out => Begun = {}

\* A label is attributed for what was measured: by the search because no rollout
\* did better and it did better than identity, in which case it is what the
\* memory has just learned; by reuse because an earlier case with a similar memory
\* taught it and it did better than identity here.  A rollout that failed or timed
\* out convicts nothing.
AttributionIsFounded ==
  LET label == attribution.label
      Measured(a) == observed[a] \in Scores
  IN  /\ attribution.source = "search" =>
           /\ Measured(label) /\ observed[label] > Score(observed["identity"])
           /\ \A a \in Begun : Measured(a) => observed[a] <= observed[label]
           /\ Last(records) = [case |-> case, key |-> Key(case), label |-> label]
      /\ attribution.source = "skill" =>
           /\ Measured(label) /\ Measured("identity")
           /\ observed[label] > observed["identity"]
           /\ \E i \in DOMAIN records :
                records[i].label = label /\ records[i].case < case
                /\ Related(records[i].key, Key(case))
      /\ attribution.source = "gap" =>
           \A a \in Begun : Measured(a) => observed[a] <= Score(observed["identity"])

\* The repair tries the attributed label first and then each other label that did
\* better than identity, the better first, none twice; it leaves one of them out
\* only because it recovered the case or because a repair raised.
RepairsFollowTheCredits ==
  LET tried == [i \in DOMAIN attempts |-> attempts[i].label]
      order == tried \o to_try
  IN  phase \in {"repair", "report"} /\ attribution # NoAttribution /\ config.adapter # "none" =>
        /\ order[1] = attribution.label /\ IsInjective(order)
        /\ \A i, j \in DOMAIN order : i < j =>
             attribution.credit[order[i]] >= attribution.credit[order[j]]
        /\ attribution.source = "search" =>
             ToSet(order) = {a \in Begun : observed[a] \in Scores
                                            /\ observed[a] > Score(observed["identity"])}
        /\ \A i \in DOMAIN attempts : attempts[i].assessment = "recovered" =>
             i = Len(attempts) /\ phase = "report"
        /\ phase = "report" => to_try = <<>> \/ Last(attempts).assessment = "recovered"

\* The iterated repair stops at the first that recovered or exhausts its labels.
RepairStopsOrExhausts == phase # "raised"
=============================================================================
