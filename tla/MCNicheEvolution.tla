-------------------------- MODULE MCNicheEvolution --------------------------
(***************************************************************************)
(* A small stream for AuditedNiches.  One operator is proposed on case 1   *)
(* and its rival on case 2, and the families let the rival become the      *)
(* elite of their niche first.  Case 3 is a "fill" case, case 4 may return *)
(* no gain or one that is not finite, and the last case is of a niche that *)
(* knows the first only through an edge of the graph.  The graph links     *)
(* three niches in both directions.                                        *)
(***************************************************************************)
EXTENDS AuditedNiches

CONSTANTS opA, opB, niche1, niche2, niche3, revB, revC, familyA, familyB

LastElsewhere == [c \in 1..N |-> IF c = N THEN niche2 ELSE niche1]

\* Cases 7 to 9 are of the second family.
LateFamily == [c \in 1..N |-> IF c \in 7..9 THEN familyB ELSE familyA]

\* Ids are hashes, so either operator's revisions may come first.
Rank(first) ==
  [x \in Operators \X (1..N) |-> x[2] + (IF x[1] = first THEN 0 ELSE N)]

EldersFirst == Rank(opA)

EldersLast == Rank(opB)

BothSeeds == [c \in 1..N |-> <<opA, opB>>]

\* The revisions of the second and third niche come from another stream.
Delegate(n) ==
  IF n = niche1 THEN [niche |-> niche1, op |-> opA, case |-> 1]
  ELSE IF n = niche2 THEN revB ELSE revC

Between(kind, n, m) ==
  [kind |-> kind, from |-> n, to |-> m, source |-> Delegate(n), target |-> Delegate(m)]

ThreeNiches == {niche1, niche2, niche3}

\* The first niche composes with the second, the others transfer; one audit names
\* the composition's revisions with the third niche.
BothWays ==
  LET first == Between("composition", niche1, niche2)
  IN  {first, [first EXCEPT !.to = niche3]}
        \cup {Between("transfer", n, m) : n \in {niche2, niche3}, m \in ThreeNiches}
        \cup {Between("transfer", niche1, niche3)}

NoAudits == {}

Good ==
  [rows |-> 3, families |-> 2, regression |-> FALSE, strong |-> TRUE,
   executed |-> TRUE, affordable |-> TRUE, positive |-> TRUE]

\* Concatenation without an executed intermediate, and too little support.
SomeEvidence == {Good, [Good EXCEPT !.executed = FALSE], [Good EXCEPT !.rows = 2]}

AllButThird == 1..N \ {3}

Returns(gains) == [gain : gains, cost : {1}]

\* One outcome: the gain and cost of opA and of opB.
Pair(gainA, costA, gainB, costB) ==
  [o \in Operators |-> IF o = opA THEN [gain |-> gainA, cost |-> costA]
                       ELSE [gain |-> gainB, cost |-> costB]]

\* Only opA recovers case 1, and opB recovers case 2 at lower cost.
Rivals ==
  [c \in 1..N |->
     CASE c = 1 -> {Pair(1, 1, 0, 1)}
       [] c = 2 -> {Pair(1, 2, 1, 1)}
       [] c = 4 -> [Operators -> Returns({0, 1})]
                     \cup {Pair(NoGain, 1, 1, 1), Pair(0, 1, NotFinite, 1)}
       [] c = N -> {Pair(1, 1, 0, 1)}
       [] OTHER -> [Operators -> Returns({0, 1})]]

\* The same stream where every execution returns a finite gain.
FiniteRivals == [Rivals EXCEPT ![4] = [Operators -> Returns({0, 1})]]
=============================================================================
