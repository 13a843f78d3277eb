-------------------------- MODULE MCSkillEvolution --------------------------
(***************************************************************************)
(* Small instances of SkillEvolution for TLC: two specs of one shape that  *)
(* compete through the life of a revision in both updating arms, and one   *)
(* spec that is discovered on a case that matches no pattern.              *)
(***************************************************************************)
EXTENDS SkillEvolution

CONSTANTS spec1, spec2, pattern, otherPattern, shape, familyA, familyB

\* Thousandths of operator_weight(s, f), computed by evolution.py.
WeightRows == <<
  <<50, 25, 17, 13, 10, 9, 7, 6>>,
  <<224, 135, 98, 76, 63, 53, 46, 41>>,
  <<368, 249, 189, 153, 129, 111, 98, 87>>,
  <<473, 343, 271, 225, 193, 169, 150, 135>>,
  <<549, 418, 341, 289, 251, 222, 200, 181>>,
  <<607, 479, 400, 345, 304, 271, 245, 224>>,
  <<652, 529, 450, 393, 350, 315, 287, 264>>,
  <<688, 571, 493, 436, 391, 355, 325, 300>>>>

Weights == [s, f \in 0..7 |-> WeightRows[s + 1][f + 1]]

OneShape == [s \in Specs |-> shape]

\* Families alternate in pairs, so three successes may or may not span two.
PairedFamilies == [c \in 1..N |-> IF (c \div 2) % 2 = 0 THEN familyA ELSE familyB]

\* After the first case only the unkeyed arm retrieves what it produced, and the
\* last case matches nothing.
FirstAndNotLast ==
  [c \in 1..N |-> IF c = 1 THEN <<pattern>> ELSE IF c = N THEN <<>> ELSE <<otherPattern>>]

\* Both specs at the start, and one again when its fate is known.
BothFirstOneLast ==
  [c \in 1..N |-> IF c = 1 THEN Specs ELSE IF c = N THEN {spec1} ELSE {}]

PrequentialTargets == EveryEighth(N)

DiscoveredTwiceAndLast == [c \in 1..N |-> IF c \in {1, 2, N} THEN Specs ELSE {}]
=============================================================================
