------------------------------ MODULE ItemGate ------------------------------
(***************************************************************************)
(* cmd_audit/item_gate: the scan that run_item_gate_for_recall_set makes   *)
(* over what a query recalled, one target after the other, until a target  *)
(* does not pass, and the hints that its result puts on the evidence.  An  *)
(* item is its place in the recall set and its timestamp, in half days;    *)
(* what the judge says of two texts is chosen for every target anew, and   *)
(* so is what a reconstruction says of the target.  has_timestamp_conflicts *)
(* and the costs, which nothing reads, are left out.                       *)
(***************************************************************************)
EXTENDS Rankings, SequencesExt, FiniteSetsExt

CONSTANTS
  Stamps,                    \* timestamps of items, in half days from 1
  MaxRecall,
  timestamp_tolerance_days

ASSUME GateConstants ==
  /\ Stamps \subseteq Nat \ {0}
  /\ MaxRecall \in Nat /\ timestamp_tolerance_days \in Nat

NoStamp == 0   \* a store field that is not a timestamp ending in Z

VARIABLES
  client,        \* whether the caller has a language model
  recall,        \* the recall set: the timestamp of each item
  targets,       \* places still to be judged, in the order of experience
  status,        \* of the last target: an ItemGateStatus, or "unjudged"
  collisions,    \* collision_results of the last target: pairs of places
  loo_label      \* the last target, when its reconstruction labelled it

gateVars == <<client, recall, targets, status, collisions, loo_label>>

Places == DOMAIN recall

\* (dt_a - dt_b).days rounds down, so a gap between two items depends on which
\* of them comes first.
GapDays(a, b) == (recall[a] - recall[b]) \div 2

\* Mistake: the absolute value is dropped.
SignedDirection(a, b) ==
  IF NoStamp \in {recall[a], recall[b]} THEN "no_reliable_timestamp"
  ELSE IF GapDays(a, b) <= timestamp_tolerance_days THEN "same_period"
  ELSE IF recall[a] > recall[b] THEN "a_newer" ELSE "b_newer"

Direction(a, b) ==
  LET far == Max({GapDays(a, b), -GapDays(a, b)}) > timestamp_tolerance_days
  IN  IF NoStamp \in {recall[a], recall[b]} THEN "no_reliable_timestamp"
      ELSE IF ~far THEN "same_period"
      ELSE IF recall[a] > recall[b] THEN "a_newer" ELSE "b_newer"

IsStale(pair) == Direction(pair[1], pair[2]) \in {"a_newer", "b_newer"}

Pairs == {p \in Places \X Places : p[1] < p[2]}

\* The two loops find pairs in this order.
InLoopOrder(found) ==
  Ranked(found, {o \in found \X found :
                   \/ o[1][1] < o[2][1]
                   \/ o[1][1] = o[2][1] /\ o[1][2] < o[2][2]})

Involves(target, found) ==
  AtPlaces(found, {n \in DOMAIN found : target \in {found[n][1], found[n][2]}})

GateInit ==
  /\ status = "unjudged" /\ targets = <<>> /\ recall = <<>>
  /\ client = TRUE /\ collisions = <<>> /\ loo_label = {}

\* A query recalls items.  Experience may put any of them first, and drops none.
Recall ==
  /\ status = "unjudged" /\ recall = <<>>
  /\ client' \in BOOLEAN
  /\ \E n \in 1..MaxRecall :
       /\ recall' \in [1..n -> Stamps \union {NoStamp}]
       /\ targets' \in {order \in [1..n -> 1..n] : IsInjective(order)}
  /\ UNCHANGED <<status, collisions, loo_label>>

CanJudge == targets # <<>> /\ status \in {"unjudged", "pass"}

\* Without a client the first target fails, and the scan stops on it.
FailWithoutClient ==
  /\ CanJudge /\ ~client
  /\ status' = "processing_failed"
  /\ collisions' = <<>> /\ loo_label' = {}
  /\ UNCHANGED <<client, recall, targets>>

\* The judge finds pairs that do not entail each other, a call that fails being
\* no entailment.  The first pair that involves the target decides.
Collide ==
  /\ CanJudge /\ client
  /\ \E found \in SUBSET Pairs :
       LET hits == InLoopOrder(found)
           mine == Involves(Head(targets), hits)
       IN  /\ mine # <<>>
           /\ collisions' = hits
           /\ status' = IF IsStale(Head(mine)) THEN "item_stale" ELSE "item_conflict"
  /\ loo_label' = {}
  /\ UNCHANGED <<client, recall, targets>>

\* No pair involves the target, and it is reconstructed from the other items, if
\* there are any.  A collision of other items stays in the result.
Reconstruct ==
  /\ CanJudge /\ client
  /\ \E found \in SUBSET Pairs :
       /\ collisions' = InLoopOrder(found)
       /\ Involves(Head(targets), collisions') = <<>>
  /\ \E label \in {"pass", "item_wrong", "item_compression_distorted"} :
       /\ Len(recall) = 1 => label = "pass"
       /\ status' = label
       /\ loo_label' = IF label = "pass" THEN {} ELSE {Head(targets)}
       /\ targets' = IF label = "pass" THEN Tail(targets) ELSE targets
  /\ UNCHANGED <<client, recall>>

GateNext == Recall \/ FailWithoutClient \/ Collide \/ Reconstruct

GateSpec == GateInit /\ [][GateNext]_gateVars
-----------------------------------------------------------------------------
(* item_signal_hints_from_result and _order_items_by_signal.  A hint is in  *)
(* halves: 2, -1 and -2 stand for 1.0, -0.5 and -1.0.                        *)

Scanned == status \notin {"unjudged", "pass"}

AtLeast(h, i, x) == [h EXCEPT ![i] = Max({@, x})]
AtMost(h, i, x) == [h EXCEPT ![i] = Min({@, x})]

\* One collision after another changes the hints of its two items.
HintPair(h, pair) ==
  LET a == pair[1]  b == pair[2]
  IN  CASE Direction(a, b) = "a_newer" -> AtMost(AtLeast(h, a, 2), b, -2)
        [] Direction(a, b) = "b_newer" -> AtMost(AtLeast(h, b, 2), a, -2)
        [] OTHER -> AtMost(AtMost(h, a, -1), b, -1)

CollisionHints ==
  LET hints[n \in 0..Len(collisions)] ==
        IF n = 0 THEN [i \in Places |-> 0] ELSE HintPair(hints[n - 1], collisions[n])
  IN  hints[Len(collisions)]

Target == Head(targets)

Hints ==
  LET labelled == [i \in Places |->
        IF i \in loo_label THEN Min({CollisionHints[i], -2}) ELSE CollisionHints[i]]
  IN  IF ~Scanned THEN [i \in Places |-> 0]
      ELSE IF collisions = <<>> /\ loo_label = {} THEN AtMost(labelled, Target, -2)
      ELSE labelled

\* The evidence in the order of its hints, equal ones as they were recalled.
Evidence ==
  LET hints == Hints
  IN  Ranked(Places, {p \in Places \X Places :
                        \/ hints[p[1]] > hints[p[2]]
                        \/ hints[p[1]] = hints[p[2]] /\ p[1] < p[2]})

Rank(i) == CHOOSE n \in DOMAIN Evidence : Evidence[n] = i
-----------------------------------------------------------------------------
Contradicts(i, j) == {<<i, j>>, <<j, i>>} \cap ToSet(collisions) # {}

\* i and j collide, and i is newer by at least a day more than the tolerance, so
\* that rounding cannot hide it.
Supersedes(i, j) ==
  /\ Contradicts(i, j) /\ NoStamp \notin {recall[i], recall[j]}
  /\ recall[i] - recall[j] >= 2 * (timestamp_tolerance_days + 1)

\* However the scan was ordered and wherever it stopped, evidence is promoted only
\* over an older fact that it contradicts.  A fact newer than all it contradicts
\* comes before one that is older than all it contradicts.  A scan that stops
\* demotes something, and a fact without a fault stays ahead of what is demoted.
HintsFollowFreshness ==
  Scanned =>
    /\ \A i \in Places :
         Hints[i] > 0 =>
           \E j \in Places :
             /\ Contradicts(i, j) /\ recall[j] # NoStamp
             /\ recall[i] - recall[j] > 2 * timestamp_tolerance_days
    /\ \A i, j \in Places :
         /\ Contradicts(i, j)
         /\ \A k \in Places : Contradicts(i, k) => Supersedes(i, k)
         /\ \A k \in Places : Contradicts(j, k) => Supersedes(k, j)
         => Rank(i) < Rank(j)
    /\ \E i \in Places : Hints[i] < 0
    /\ \A i, j \in Places :
         /\ Involves(i, collisions) = <<>> /\ i # Target
         /\ Hints[j] < 0
         => Rank(i) < Rank(j)
=============================================================================
