------------------------------ MODULE MCArena ------------------------------
(***************************************************************************)
(* A small stream for ScopedArena.  Seeds b and c end in the same family,  *)
(* so a may chain with either in both orders.  The first three cases       *)
(* collect the chain evidence, one case is a "fill" case, and the others   *)
(* decide the life of the composites or of the ecology after a removal.    *)
(***************************************************************************)
EXTENDS ScopedArena, Combinatorics

CONSTANTS a, b, c, fam1, fam2

Case(family, failure, branch, indications) ==
  [family |-> family, failure |-> failure, branch |-> branch, indications |-> indications]

Fix(family, failure) == Case(family, failure, "fix", <<>>)
Fill == Case(fam1, "storage", "fill", <<>>)
Signalled == Case(fam1, "storage", "fix", <<[signal |-> "collision", action |-> "conflict"]>>)

SmallStream ==
  <<Fix(fam1, "storage"), Fix(fam2, "retrieval"), Fix(fam1, "retrieval"), Fill,
    Signalled, Fix(fam2, "storage"), Fix(fam1, "storage"), Fix(fam2, "retrieval")>>

SeedOrder == <<a, b, c>>
SeedFamily == [s \in {a, b, c} |-> IF s = a THEN "write" ELSE "read"]
SeedActions == [s \in {a, b, c} |-> IF s = b THEN {"conflict"} ELSE {"other"}]

\* Seeds may fail or recover before the removal; afterwards a composite too.
Gains(n, k) ==
  IF n <= 2 THEN {1}
  ELSE IF n = 3 THEN IF k = c THEN {-1} ELSE {-1, 1}
  ELSE IF n = 5 /\ k = b THEN {NoGain, 2}
  ELSE IF n = 7 /\ k \in {a, c} THEN {NoGain}
  ELSE IF k = c THEN {1} ELSE IF k = b THEN {-1, 2} ELSE IF k = a THEN {1} ELSE {NoGain, 2}
Returns == [n \in DOMAIN SmallStream |-> [k \in Skills |-> Gains(n, k)]]

TwoDomains == {<<"collision", "arena">>, <<"collision", "other">>}
Batch(valid, gain, sound) == [fires |-> 2, valid |-> valid, gain |-> gain, sound |-> sound]
SmallBatches ==
  {Batch(2, 1, TRUE), Batch(2, -1, TRUE), Batch(1, 1, TRUE), Batch(0, -1, TRUE),
   Batch(2, 1, FALSE)}

\* The chains of a case all gain, all lose, or gain in one order only; with
\* either b or c the other way round, or not measured.
Order(forward, backward, other) ==
  [p \in Composites |-> IF p[1] = a THEN IF p[2] = b THEN forward ELSE other
                        ELSE IF p[1] = b THEN backward ELSE -1]
Benefits ==
  {[p \in Composites |-> x] : x \in {-1, 1}}
    \cup {Order(x, -x, y) : x \in {-1, 1}, y \in {1, NoGain}}

ReplayGains == {-1, 2}

\* AtLeast is the sum of binomial coefficients that the code computes.
ASSUME HeadsAreBinomial ==
  \A n \in 0..6 : /\ AtLeast(n)[0] = 2 ^ n
                  /\ \A k \in 0..n : AtLeast(n)[k] = MapThenSumSet(LAMBDA i : choose(n, i), k..n)

DepositThenRemove == {<<3, 0, 18>>, <<0, 4, 1>>, <<3, 5, 14>>}
=============================================================================
