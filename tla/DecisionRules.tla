--------------------------- MODULE DecisionRules ---------------------------
(***************************************************************************)
(* What the rules of EvolutionRules promise their callers, over everything *)
(* that a caller can hand them: a revision that succeeds on case after     *)
(* case, whose history is the families of those cases, and two queues of   *)
(* any two sizes, as retrieval has sorted them: an entry is its queue and  *)
(* its place there.                                                        *)
(***************************************************************************)
EXTENDS EvolutionRules

CONSTANTS
  CaseFamilies,  \* what a success's recurrent_family_id_audit_only can be
  MaxSuccesses,
  MaxQueue

\* Every runner writes str(...) of the case's family, which is never None.
ASSUME RulesConstants == NoFamily \notin CaseFamilies

VARIABLES
  history,
  stableQueue, provisionalQueue  \* ranked queues of revisions

rulesVars == <<history, stableQueue, provisionalQueue>>

RulesInit == history = <<>> /\ stableQueue = <<>> /\ provisionalQueue = <<>>

Succeed ==
  /\ Len(history) < MaxSuccesses
  /\ \E f \in CaseFamilies : history' = Append(history, f)
  /\ UNCHANGED <<stableQueue, provisionalQueue>>

Fresh == [queue |-> "provisional", rank |-> Len(provisionalQueue) + 1]

Deposit ==
  /\ Len(provisionalQueue) < MaxQueue
  /\ provisionalQueue' = Append(provisionalQueue, Fresh)
  /\ UNCHANGED <<history, stableQueue>>

Stabilise ==
  /\ provisionalQueue # <<>> /\ Len(stableQueue) < MaxQueue
  /\ provisionalQueue' = Front(provisionalQueue)
  /\ stableQueue' = Append(stableQueue, [queue |-> "stable", rank |-> Len(stableQueue) + 1])
  /\ UNCHANGED history

RulesNext == Succeed \/ Deposit \/ Stabilise

RulesSpec == RulesInit /\ [][RulesNext]_rulesVars

-----------------------------------------------------------------------------
Successes == DOMAIN history

ValidationTriples ==
  {T \in SUBSET Successes : IsValidationTriple(T, Successes, history)}

\* A history that is promotable selects one triple, any other none, and the
\* prefix search with its first-three shortcut finds the triple that a scan of
\* the whole history for the earliest cross-family one finds.
ShortcutFindsEarliestTriple ==
  /\ Cardinality(ValidationTriples) = IF Promotable(Successes, history) THEN 1 ELSE 0
  /\ \A T \in ValidationTriples : IsEarliestCrossFamilyThree(T, Successes, history)

-----------------------------------------------------------------------------
Selected == FillQuota(stableQueue, provisionalQueue)

Taken(queue) == {i \in DOMAIN Selected : Selected[i].queue = queue}

\* No attempt is wasted while a candidate waits and none is made twice; backfill
\* never takes a slot that the other queue can use, and each queue is served from
\* its front.
QuotaIsFair ==
  /\ Len(Selected) = Min({MAX_SKILL_ATTEMPTS, Len(stableQueue) + Len(provisionalQueue)})
  /\ IsInjective(Selected)
  /\ Cardinality(Taken("stable")) >= Min({EXPLOITATION_SLOTS, Len(stableQueue)})
  /\ Cardinality(Taken("provisional")) >= Min({EXPLORATION_SLOTS, Len(provisionalQueue)})
  /\ \A i \in DOMAIN Selected :
       Selected[i].rank <= Cardinality(Taken(Selected[i].queue))
=============================================================================
