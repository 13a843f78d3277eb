------------------------ MODULE SkillEvolutionProofs ------------------------
(***************************************************************************)
(* Theorems about SkillEvolution for every update stream, set of specs and *)
(* callback behaviour: its own invariants, and that each of its steps is a *)
(* step of the SkillLifecycle contract or none.                            *)
(***************************************************************************)
EXTENDS SkillEvolution, DecisionRules, FiniteSetTheorems, SequenceTheorems, WellFoundedInduction,
        TLAPS

-----------------------------------------------------------------------------
(* What the helpers of retrieval return.                                   *)

\* The lesser of two integers, as the slot counts of retrieval use it.
LEMMA MinOfTwo ==
  ASSUME NEW a \in Int, NEW b \in Int
  PROVE  /\ Min({a, b}) \in {a, b}
         /\ Min({a, b}) <= a
         /\ Min({a, b}) <= b
PROOF
  <1>1. \E x \in {a, b} : \A y \in {a, b} : x =< y
    BY SMT
  <1>2. /\ Min({a, b}) \in {a, b}
        /\ \A y \in {a, b} : Min({a, b}) =< y
    BY <1>1, Zenon DEF Min
  <1>3. QED
    BY <1>2

\* The greater of two integers, as the slot counts of retrieval use it.
LEMMA MaxOfTwo ==
  ASSUME NEW a \in Int, NEW b \in Int
  PROVE  /\ Max({a, b}) \in {a, b}
         /\ Max({a, b}) >= a
         /\ Max({a, b}) >= b
PROOF
  <1>1. \E x \in {a, b} : \A y \in {a, b} : x >= y
    BY SMT
  <1>2. /\ Max({a, b}) \in {a, b}
        /\ \A y \in {a, b} : Max({a, b}) >= y
    BY <1>1, Zenon DEF Max
  <1>3. QED
    BY <1>2

\* A set of naturals has a least element.
LEMMA MinOfNaturals ==
  ASSUME NEW S \in SUBSET Nat, S # {}
  PROVE  Min(S) \in S /\ \A y \in S : Min(S) <= y
PROOF
  <1> DEFINE less == {ss \in Nat \X Nat : ss[1] < ss[2]}
  <1>1. IsWellFoundedOn(less, Nat)
    BY NatLessThanWellFounded DEF OpToRel
  <1>2. \E x \in S : \A y \in S : ~(<<y, x>> \in less)
    <2> HIDE DEF less
    <2>1. QED
      BY <1>1, WFMin
  <1>3. \E x \in S : \A y \in S : x =< y
    <2>1. PICK x \in S : \A y \in S : ~(<<y, x>> \in less)
      BY <1>2
    <2>2. ASSUME NEW y \in S PROVE x =< y
      <3>1. x \in Nat /\ y \in Nat /\ ~(<<y, x>> \in less)
        BY <2>1
      <3>2. ~(y < x)
        BY <3>1
      <3>3. QED
        BY <3>1, <3>2
    <2>3. QED
      BY <2>2
  <1>4. QED
    BY <1>3, Zenon DEF Min

\* A slice of a sequence is a sequence over the same elements.
LEMMA SliceType ==
  ASSUME NEW S, NEW q \in Seq(S), NEW from \in Nat, NEW k \in Nat
  PROVE  Slice(q, from, k) \in Seq(S) /\ First(q, k) \in Seq(S)
PROOF
  <1>1. Len(q) \in Nat
    BY LenProperties
  <1>2. /\ Min({from + k, Len(q)}) \in Int /\ Min({from + k, Len(q)}) <= Len(q)
        /\ Min({k, Len(q)}) \in Int /\ Min({k, Len(q)}) <= Len(q)
    <2>1. from + k \in Int /\ Len(q) \in Int /\ k \in Int
      BY <1>1
    <2>2. ASSUME NEW n \in Int
          PROVE  Min({n, Len(q)}) \in Int /\ Min({n, Len(q)}) <= Len(q)
      BY <2>1, MinOfTwo
    <2>3. QED
      BY <2>1, <2>2
  <1>3. ASSUME NEW n \in Int, n <= Len(q), NEW m \in Nat \ {0}
        PROVE  SubSeq(q, m, n) \in Seq(S)
    <2>1. \A i \in m..n : q[i] \in S
      BY <1>1, <1>3, ElementOfSeq, SMT
    <2>2. QED
      BY <2>1, SubSeqProperties
  <1>4. from + 1 \in Nat \ {0} /\ 1 \in Nat \ {0}
    OBVIOUS
  <1>5. SubSeq(q, from + 1, Min({from + k, Len(q)})) \in Seq(S)
    BY <1>2, <1>3, <1>4
  <1>6. SubSeq(q, 1, Min({k, Len(q)})) \in Seq(S)
    BY <1>2, <1>3, <1>4
  <1>7. QED
    BY <1>5, <1>6 DEF Slice, First

\* Where the entries of the two kinds of slices come from.
LEMMA SlicePositions ==
  ASSUME NEW S, NEW q \in Seq(S), NEW from \in Nat, NEW k \in Nat
  PROVE  /\ \A i \in 1..Len(First(q, k)) :
              i \in 1..Len(q) /\ i <= k /\ First(q, k)[i] = q[i]
         /\ \A i \in 1..Len(Slice(q, from, k)) :
              from + i \in 1..Len(q) /\ Slice(q, from, k)[i] = q[from + i]
PROOF
  <1>1. Len(q) \in Nat
    BY LenProperties
  <1>2. /\ Min({k, Len(q)}) \in Int /\ Min({k, Len(q)}) <= Len(q) /\ Min({k, Len(q)}) <= k
        /\ Min({from + k, Len(q)}) \in Int /\ Min({from + k, Len(q)}) <= Len(q)
    <2>1. k \in Int /\ from + k \in Int /\ Len(q) \in Int
      BY <1>1
    <2>2. \A n \in Int : /\ Min({n, Len(q)}) \in {n, Len(q)}
                         /\ Min({n, Len(q)}) <= n /\ Min({n, Len(q)}) <= Len(q)
      BY <2>1, MinOfTwo
    <2>3. QED
      BY <2>1, <2>2
  <1>3. ASSUME NEW n \in Int, n <= Len(q), NEW m \in Nat \ {0}
        PROVE  /\ Len(SubSeq(q, m, n)) = IF m <= n THEN n - m + 1 ELSE 0
               /\ \A i \in 1..(n - m + 1) : SubSeq(q, m, n)[i] = q[m + i - 1]
    <2>1. \A i \in m..n : q[i] \in S
      BY <1>1, <1>3, ElementOfSeq, SMT
    <2>2. QED
      BY <2>1, SubSeqProperties
  <1>4. \A i \in 1..Len(First(q, k)) :
              i \in 1..Len(q) /\ i <= k /\ First(q, k)[i] = q[i]
    <2> DEFINE n == Min({k, Len(q)})
    <2>1. n \in Int /\ n <= Len(q) /\ n <= k
      BY <1>2
    <2>2. First(q, k) = SubSeq(q, 1, n)
      BY DEF First
    <2> HIDE DEF n
    <2>3. /\ Len(SubSeq(q, 1, n)) = IF 1 <= n THEN n - 1 + 1 ELSE 0
          /\ \A i \in 1..(n - 1 + 1) : SubSeq(q, 1, n)[i] = q[1 + i - 1]
      BY <1>3, <2>1
    <2>4. QED
      BY <1>1, <2>1, <2>2, <2>3
  <1>5. \A i \in 1..Len(Slice(q, from, k)) :
              from + i \in 1..Len(q) /\ Slice(q, from, k)[i] = q[from + i]
    <2> DEFINE n == Min({from + k, Len(q)})
    <2>1. n \in Int /\ n <= Len(q)
      BY <1>2
    <2>2. Slice(q, from, k) = SubSeq(q, from + 1, n)
      BY DEF Slice
    <2> HIDE DEF n
    <2>3. /\ Len(SubSeq(q, from + 1, n)) = IF from + 1 <= n THEN n - (from + 1) + 1 ELSE 0
          /\ \A i \in 1..(n - (from + 1) + 1) :
               SubSeq(q, from + 1, n)[i] = q[(from + 1) + i - 1]
      BY <1>3, <2>1
    <2>4. QED
      BY <1>1, <2>1, <2>2, <2>3
  <1>6. QED
    BY <1>4, <1>5

\* How long the two kinds of slices are.
LEMMA SliceSizes ==
  ASSUME NEW S, NEW q \in Seq(S), NEW from \in Nat, NEW k \in Nat
  PROVE  /\ Len(First(q, k)) = IF k <= Len(q) THEN k ELSE Len(q)
         /\ Len(Slice(q, from, k)) = IF Len(q) <= from THEN 0
                                     ELSE IF Len(q) - from <= k THEN Len(q) - from ELSE k
PROOF
  <1> DEFINE l == Len(q)
  <1>1. l \in Nat /\ \A i \in 1..l : q[i] \in S
    BY LenProperties, ElementOfSeq
  <1>2. ASSUME NEW n \in Int, n <= l, NEW m \in Nat \ {0}
        PROVE  Len(SubSeq(q, m, n)) = IF m <= n THEN n - m + 1 ELSE 0
    <2>1. \A i \in m..n : q[i] \in S
      BY <1>1, <1>2
    <2> HIDE DEF l
    <2>2. m \in Int
      OBVIOUS
    <2>3. QED
      BY <1>2, <2>1, <2>2, SubSeqProperties
  <1>3. /\ Min({k, l}) \in {k, l} /\ Min({k, l}) <= k /\ Min({k, l}) <= l
        /\ Min({from + k, l}) \in {from + k, l}
        /\ Min({from + k, l}) <= from + k /\ Min({from + k, l}) <= l
    <2>1. k \in Int /\ from + k \in Int /\ l \in Int
      BY <1>1
    <2> HIDE DEF l
    <2>2. QED
      BY <2>1, MinOfTwo
  <1>4. Len(First(q, k)) = IF k <= l THEN k ELSE l
    <2> DEFINE n == Min({k, l})
    <2>1. n \in {k, l} /\ n <= k /\ n <= l
      BY <1>3
    <2>2. First(q, k) = SubSeq(q, 1, n)
      BY DEF First
    <2> HIDE DEF n, l
    <2>3. n \in Int /\ n <= l /\ 1 \in Nat \ {0}
      BY <1>1, <2>1
    <2>4. Len(First(q, k)) = IF 1 <= n THEN n - 1 + 1 ELSE 0
      BY <1>2, <2>2, <2>3, Zenon
    <2>5. QED
      BY <1>1, <2>1, <2>4
  <1>5. Len(Slice(q, from, k)) = IF l <= from THEN 0
                                 ELSE IF l - from <= k THEN l - from ELSE k
    <2> DEFINE n == Min({from + k, l})
    <2>1. n \in {from + k, l} /\ n <= from + k /\ n <= l
      BY <1>3
    <2>2. Slice(q, from, k) = SubSeq(q, from + 1, n)
      BY DEF Slice
    <2> HIDE DEF n, l
    <2>3. n \in Int /\ n <= l /\ from + 1 \in Nat \ {0}
      BY <1>1, <2>1
    <2>4. Len(Slice(q, from, k)) = IF from + 1 <= n THEN n - (from + 1) + 1 ELSE 0
      BY <1>2, <2>2, <2>3, Zenon
    <2>5. QED
      BY <1>1, <2>1, <2>4
  <1>6. QED
    BY <1>4, <1>5

\* How many entries each part of the quota has: the first stable ones, the
\* provisional ones, and the stable ones after the third.
HeadSize(n) == IF n <= 3 THEN n ELSE 3
TrialSize(n, m) == IF m <= 5 - HeadSize(n) THEN m ELSE 5 - HeadSize(n)
BackfillSize(n, m) ==
  IF n <= 3 \/ m >= 2 THEN 0 ELSE IF n - 3 <= 2 - m THEN n - 3 ELSE 2 - m

QuotaSize(n, m) == HeadSize(n) + TrialSize(n, m) + BackfillSize(n, m)

\* The i-th entry of the quota.
QuotaEntry(stable, provisional, i) ==
  LET a == HeadSize(Len(stable))
      b == TrialSize(Len(stable), Len(provisional))
  IN  IF i <= a THEN stable[i]
      ELSE IF i <= a + b THEN provisional[i - a]
      ELSE stable[3 + (i - a - b)]

\* What the quota holds, entry by entry.
LEMMA QuotaParts ==
  ASSUME NEW S, NEW stable \in Seq(S), NEW provisional \in Seq(S)
  PROVE  /\ FillQuota(stable, provisional) \in Seq(S)
         /\ Len(FillQuota(stable, provisional)) = QuotaSize(Len(stable), Len(provisional))
         /\ \A i \in 1..QuotaSize(Len(stable), Len(provisional)) :
              FillQuota(stable, provisional)[i] = QuotaEntry(stable, provisional, i)
PROOF
  <1> DEFINE spareStable == Max({0, EXPLOITATION_SLOTS - Len(stable)})
             spareProvisional == Max({0, EXPLORATION_SLOTS - Len(provisional)})
             A == First(stable, EXPLOITATION_SLOTS)
             B == First(provisional, EXPLORATION_SLOTS + spareStable)
             C == Slice(stable, EXPLOITATION_SLOTS, spareProvisional)
             n == Len(stable)
             m == Len(provisional)
             a == HeadSize(n)
             b == TrialSize(n, m)
             c == BackfillSize(n, m)
  <1>1. EXPLOITATION_SLOTS = 3 /\ EXPLORATION_SLOTS = 2
    BY DEF EXPLOITATION_SLOTS, EXPLORATION_SLOTS
  <1>2. n \in Nat /\ m \in Nat
    BY LenProperties
  <1>3. /\ spareStable = IF n <= 3 THEN 3 - n ELSE 0
        /\ spareProvisional = IF m <= 2 THEN 2 - m ELSE 0
    <2>1. ASSUME NEW x \in Int PROVE Max({0, x}) = IF x <= 0 THEN 0 ELSE x
      <3> DEFINE y == Max({0, x})
      <3>1. 0 \in Int
        OBVIOUS
      <3>2. y \in {0, x} /\ y >= 0 /\ y >= x
        BY <3>1, MaxOfTwo
      <3> HIDE DEF y
      <3>3. y = IF x <= 0 THEN 0 ELSE x
        BY <3>2
      <3>4. QED
        BY <3>3 DEF y
    <2> HIDE DEF n, m
    <2>2. 3 - n \in Int /\ 2 - m \in Int
      BY <1>2
    <2>3. /\ Max({0, 3 - n}) = IF 3 - n <= 0 THEN 0 ELSE 3 - n
          /\ Max({0, 2 - m}) = IF 2 - m <= 0 THEN 0 ELSE 2 - m
      BY <2>1, <2>2, Zenon
    <2>4. spareStable = Max({0, 3 - n}) /\ spareProvisional = Max({0, 2 - m})
      BY <1>1 DEF n, m
    <2> HIDE DEF spareStable, spareProvisional
    <2>5. QED
      BY <1>2, <2>3, <2>4
  <1>4. FillQuota(stable, provisional) = (A \o B) \o C
    BY DEF FillQuota
  <1> HIDE DEF spareStable, spareProvisional
  <1>5. /\ 3 \in Nat /\ 2 + spareStable \in Nat /\ spareProvisional \in Nat
        /\ A = First(stable, 3) /\ B = First(provisional, 2 + spareStable)
        /\ C = Slice(stable, 3, spareProvisional)
    BY <1>1, <1>2, <1>3
  <1> HIDE DEF A, B, C
  <1>6. A \in Seq(S) /\ B \in Seq(S) /\ C \in Seq(S)
    BY <1>5, SliceType
  <1>7. Len(A) = a /\ Len(B) = b /\ Len(C) = c
    <2>1. /\ Len(A) = IF 3 <= n THEN 3 ELSE n
          /\ Len(C) = IF n <= 3 THEN 0
                      ELSE IF n - 3 <= spareProvisional THEN n - 3 ELSE spareProvisional
      BY <1>5, SliceSizes, Zenon
    <2>2. Len(B) = IF 2 + spareStable <= m THEN 2 + spareStable ELSE m
      BY <1>5, SliceSizes, Zenon
    <2> HIDE DEF n, m
    <2>3. QED
      BY <1>2, <1>3, <2>1, <2>2 DEF HeadSize, TrialSize, BackfillSize
  <1> HIDE DEF a, b, c
  <1>8. /\ \A i \in 1..a : A[i] = stable[i]
        /\ \A i \in 1..b : B[i] = provisional[i]
        /\ \A i \in 1..c : C[i] = stable[3 + i]
    <2>1. /\ \A i \in 1..Len(A) : A[i] = stable[i]
          /\ \A i \in 1..Len(C) : C[i] = stable[3 + i]
      BY <1>5, SlicePositions, Zenon
    <2>2. \A i \in 1..Len(B) : B[i] = provisional[i]
      BY <1>5, SlicePositions, Zenon
    <2>3. QED
      BY <1>7, <2>1, <2>2
  <1> HIDE DEF n, m
  <1>10. a \in Nat /\ b \in Nat /\ c \in Nat
    BY <1>6, <1>7, LenProperties
  <1>11. /\ A \o B \in Seq(S) /\ Len(A \o B) = a + b
         /\ \A i \in 1..(a + b) : (A \o B)[i] = IF i <= a THEN A[i] ELSE B[i - a]
    <2>1. /\ A \o B \in Seq(S) /\ Len(A \o B) = Len(A) + Len(B)
          /\ \A i \in 1..(Len(A) + Len(B)) :
               (A \o B)[i] = IF i <= Len(A) THEN A[i] ELSE B[i - Len(A)]
      BY <1>6, ConcatProperties
    <2>2. QED
      BY <1>7, <2>1
  <1> DEFINE AB == A \o B
  <1>12. AB \in Seq(S) /\ Len(AB) = a + b
    BY <1>11
  <1> HIDE DEF AB
  <1>13. /\ AB \o C \in Seq(S) /\ Len(AB \o C) = a + b + c
         /\ \A i \in 1..(a + b + c) :
              (AB \o C)[i] = IF i <= a + b THEN AB[i] ELSE C[i - (a + b)]
    <2>1. /\ AB \o C \in Seq(S) /\ Len(AB \o C) = Len(AB) + Len(C)
          /\ \A i \in 1..(Len(AB) + Len(C)) :
               (AB \o C)[i] = IF i <= Len(AB) THEN AB[i] ELSE C[i - Len(AB)]
      BY <1>6, <1>12, ConcatProperties
    <2>2. QED
      BY <1>7, <1>12, <2>1
  <1>14. ASSUME NEW i \in 1..(a + b + c)
         PROVE  (AB \o C)[i] = IF i <= a THEN stable[i]
                               ELSE IF i <= a + b THEN provisional[i - a]
                               ELSE stable[3 + (i - a - b)]
    <2>1. (AB \o C)[i] = IF i <= a + b THEN AB[i] ELSE C[i - (a + b)]
      BY <1>13
    <2>2. CASE i <= a
      <3>1. i \in 1..(a + b) /\ i \in 1..a /\ i <= a + b
        BY <1>10, <2>2
      <3>2. AB[i] = A[i]
        BY <1>11, <2>2, <3>1 DEF AB
      <3>3. QED
        BY <1>8, <2>1, <2>2, <3>1, <3>2
    <2>3. CASE ~(i <= a) /\ i <= a + b
      <3>1. i \in 1..(a + b) /\ i - a \in 1..b
        BY <1>10, <2>3
      <3>2. AB[i] = B[i - a]
        BY <1>11, <2>3, <3>1 DEF AB
      <3>3. QED
        BY <1>8, <2>1, <2>3, <3>1, <3>2
    <2>4. CASE ~(i <= a + b)
      <3>1. i - (a + b) \in 1..c /\ ~(i <= a) /\ i - (a + b) = i - a - b
        BY <1>10, <2>4
      <3>2. QED
        BY <1>8, <2>1, <2>4, <3>1
    <2>5. QED
      BY <2>2, <2>3, <2>4
  <1>15. QuotaSize(Len(stable), Len(provisional)) = a + b + c
    BY DEF QuotaSize, a, b, c, n, m
  <1>16. ASSUME NEW i \in 1..(a + b + c)
         PROVE  (AB \o C)[i] = QuotaEntry(stable, provisional, i)
    BY <1>14 DEF QuotaEntry, a, b, n, m
  <1>17. QED
    BY <1>4, <1>13, <1>15, <1>16 DEF AB

\* An enumeration of a finite set is a sequence over it.
LEMMA EnumerationType ==
  ASSUME NEW S, IsFiniteSet(S), NEW q \in SetToSeqs(S)
  PROVE  q \in Seq(S)
PROOF
  <1>1. Cardinality(S) \in Nat
    BY FS_CardinalityType
  <1>2. q \in [1..Cardinality(S) -> S]
    BY DEF SetToSeqs
  <1>3. QED
    BY <1>1, <1>2

\* Retrieval offers only candidates.
LEMMA RetrievedType ==
  ASSUME NEW a \in Arms, NEW c, IsFiniteSet(Candidates(a, c)),
         NEW queue \in RetrieveRevisions(a, c)
  PROVE  queue \in Seq(Candidates(a, c))
PROOF
  <1>1. CASE a = "no_update"
    <2>1. queue = <<>>
      BY <1>1 DEF RetrieveRevisions
    <2>2. QED
      BY <2>1
  <1>2. CASE a # "no_update"
    <2> DEFINE stable == Candidates(a, c) \cap HeadVersion(a).stable
               rest == Candidates(a, c) \ stable
    <2>1. PICK x \in SetToSeqs(stable), p \in SetToSeqs(rest) : queue = FillQuota(x, p)
      BY <1>2 DEF RetrieveRevisions, RankedQueues
    <2>2. IsFiniteSet(stable) /\ IsFiniteSet(rest)
      BY FS_Subset
    <2>3. x \in Seq(stable) /\ p \in Seq(rest)
      BY <2>1, <2>2, EnumerationType
    <2>4. x \in Seq(Candidates(a, c)) /\ p \in Seq(Candidates(a, c))
      <3>1. stable \subseteq Candidates(a, c) /\ rest \subseteq Candidates(a, c)
        OBVIOUS
      <3>2. QED
        BY <2>3, <3>1, SeqMonotonic
    <2>5. QED
      BY <2>1, <2>4, QuotaParts
  <1>3. QED
    BY <1>1, <1>2

\* A run attempts retrieved revisions only.
LEMMA RunType ==
  ASSUME NEW S \in SUBSET Specs, NEW queue \in Seq(S), NEW run \in Executions(queue)
  PROVE  /\ run \in Seq(Attempts)
         /\ \A i \in DOMAIN run : run[i].spec \in S
PROOF
  <1>1. Len(queue) \in Nat /\ DOMAIN queue = 1..Len(queue)
    BY LenProperties
  <1>2. PICK m \in 0..Len(queue) : run \in [1..m -> Attempts]
    BY <1>1 DEF Executions, BoundedSeq, SeqOf
  <1>3. run \in Seq(Attempts)
    BY <1>1, <1>2
  <1>4. \A i \in DOMAIN run : i \in 1..Len(queue) /\ run[i].spec = queue[i]
    <2>1. \A i \in DOMAIN run : run[i].spec = queue[i]
      BY DEF Executions
    <2>2. DOMAIN run = 1..m
      BY <1>2
    <2>3. 1..m \subseteq 1..Len(queue)
      BY <1>1
    <2>4. QED
      BY <2>1, <2>2, <2>3
  <1>5. \A i \in 1..Len(queue) : queue[i] \in S
    BY ElementOfSeq
  <1>6. QED
    BY <1>3, <1>4, <1>5

-----------------------------------------------------------------------------
(* How the store grows.                                                    *)

\* Every arm has a head version, and it is a version.
LEMMA HeadType ==
  ASSUME TypeOK, NEW a \in Arms
  PROVE  /\ Len(versions[a]) \in Nat \ {0}
         /\ DOMAIN versions[a] = 1..Len(versions[a])
         /\ \A k \in DOMAIN versions[a] : versions[a][k] \in Versions
         /\ HeadVersion(a) \in Versions
PROOF
  <1>1. versions[a] \in Seq(Versions) /\ versions[a] # <<>>
    BY DEF TypeOK
  <1>2. Len(versions[a]) \in Nat \ {0} /\ DOMAIN versions[a] = 1..Len(versions[a])
    BY <1>1, LenProperties, EmptySeq
  <1>3. \A k \in DOMAIN versions[a] : versions[a][k] \in Versions
    BY <1>1, <1>2, ElementOfSeq
  <1>4. QED
    BY <1>2, <1>3 DEF HeadVersion

\* Committing a version appends it to one arm and leaves the others.
LEMMA CommitVersionType ==
  ASSUME TypeOK, NEW a \in Arms, NEW v \in Versions, CommitVersion(a, v)
  PROVE  /\ versions' \in [Arms -> Seq(Versions)]
         /\ \A x \in Arms : versions'[x] # <<>>
         /\ versions'[a] = Append(versions[a], v)
         /\ \A x \in Arms \ {a} : versions'[x] = versions[x]
PROOF
  <1>1. versions \in [Arms -> Seq(Versions)] /\ \A x \in Arms : versions[x] # <<>>
    BY DEF TypeOK
  <1>2. versions' = [versions EXCEPT ![a] = Append(@, v)]
    BY DEF CommitVersion
  <1>3. Append(versions[a], v) \in Seq(Versions) /\ Append(versions[a], v) # <<>>
    BY <1>1, AppendProperties
  <1>4. QED
    BY <1>1, <1>2, <1>3

\* Every version that a step adds to an arm follows the current case and holds
\* revisions with a producing case.
VersionsExtend ==
  \A x \in Arms :
    \/ versions'[x] = versions[x]
    \/ \E v \in Versions : /\ v.after = case_index
                           /\ \A s \in v.active : 0 < born'[x][s]
                           /\ versions'[x] = Append(versions[x], v)

BornKept ==
  \A x \in Arms, s \in Specs : born[x][s] # 0 => born'[x][s] = born[x][s]

\* A row that names the head its case read keeps doing so.
LEMMA RowKept ==
  ASSUME TypeOK, VersionsExtend, BornKept,
         NEW e \in EvidenceEvents, ReadBeforeCase(e), e.case <= case_index
  PROVE  ReadBeforeCase(e)'
PROOF
  <1> DEFINE chain == versions[e.arm]
  <1>1. e.arm \in Arms /\ e.spec \in Specs /\ e.case \in Nat /\ e.version \in Nat
    BY DEF EvidenceEvents
  <1>2. /\ chain \in Seq(Versions)
        /\ Len(chain) \in Nat
        /\ DOMAIN chain = 1..Len(chain)
    BY <1>1, HeadType DEF TypeOK
  <1>3. 0 < born'[e.arm][e.spec] /\ born'[e.arm][e.spec] < e.case
    <2>1. born[e.arm][e.spec] # 0
      BY <1>1 DEF ReadBeforeCase
    <2>2. QED
      BY <1>1, <2>1 DEF BornKept, ReadBeforeCase
  <1>4. CASE versions'[e.arm] = chain
    BY <1>3, <1>4 DEF ReadBeforeCase
  <1>5. ASSUME NEW v \in Versions, v.after = case_index, versions'[e.arm] = Append(chain, v)
        PROVE  ReadBeforeCase(e)'
    <2>1. /\ DOMAIN versions'[e.arm] = 1..(Len(chain) + 1)
          /\ \A k \in 1..Len(chain) : versions'[e.arm][k] = chain[k]
          /\ versions'[e.arm][Len(chain) + 1] = v
      BY <1>2, <1>5, AppendProperties, LenProperties
    <2>2. e.version \in 1..Len(chain)
      BY <1>2 DEF ReadBeforeCase
    <2>3. /\ e.version \in DOMAIN versions'[e.arm]
          /\ e.spec \in versions'[e.arm][e.version].active
          /\ versions'[e.arm][e.version].after < e.case
      BY <1>2, <2>1, <2>2 DEF ReadBeforeCase
    <2>4. ASSUME NEW k \in DOMAIN versions'[e.arm], k > e.version
          PROVE  versions'[e.arm][k].after >= e.case
      <3>1. CASE k \in 1..Len(chain)
        BY <1>2, <2>1, <2>4, <3>1 DEF ReadBeforeCase
      <3>2. CASE k = Len(chain) + 1
        <4>1. case_index \in Nat
          BY LenProperties DEF TypeOK, case_index
        <4>2. QED
          BY <1>1, <1>5, <2>1, <3>2, <4>1
      <3>3. QED
        BY <1>2, <2>1, <3>1, <3>2
    <2>5. QED
      BY <1>3, <2>3, <2>4 DEF ReadBeforeCase
  <1>6. QED
    BY <1>1, <1>4, <1>5 DEF VersionsExtend

-----------------------------------------------------------------------------
(* The inductive invariant holds initially.                                *)

\* The inductive invariant holds before the first case.
LEMMA InductiveInit == Init => Inductive
PROOF
  <1> SUFFICES ASSUME Init PROVE Inductive
    OBVIOUS
  <1> USE DEF Init
  <1>1. N \in Nat /\ case_index = 0
    BY ConstantsAssumption DEF case_index
  <1>2. EmptyVersion \in Versions
    BY DEF EmptyVersion, Versions, Prior, Counts
  <1>3. TypeOK
    <2>1. phase \in Phases /\ arm \in 1..3
      BY DEF NextCase, Phases
    <2>2. outcome \in [Arms -> [version : Nat, run : Seq(Attempts)]]
      <3>1. <<>> \in Seq(Attempts)
        OBVIOUS
      <3>2. QED
        BY <3>1 DEF NoOutcome
    <2>3. tapes \in Seq(Seq(Specs)) /\ case_index <= N
      BY <1>1
    <2>4. /\ born \in [Arms -> [Specs -> Nat]]
          /\ regressions \in [Arms -> [Specs -> Nat]]
          /\ evidence \subseteq EvidenceEvents
          /\ lifecycle \subseteq LifecycleEvents
          /\ auditing \subseteq UpdatingArms \X Specs
      OBVIOUS
    <2>5. versions \in [Arms -> Seq(Versions)] /\ \A a \in Arms : versions[a] # <<>>
      BY <1>2
    <2>6. anchors \in [Arms -> [Specs -> [cases : SUBSET Nat, version : Nat]]]
      BY DEF NoAnchors
    <2>7. QED
      BY <2>1, <2>2, <2>3, <2>4, <2>5, <2>6 DEF TypeOK
  <1>4. IsFiniteSet(evidence) /\ EvaluateBeforeUpdate
    BY FS_EmptySet DEF EvaluateBeforeUpdate
  <1>5. phase = "evaluate" => case_index < N
    BY <1>1 DEF NextCase
  <1>6. NothingFromTheFuture
    <2>1. \A a \in Arms, s \in Specs : born[a][s] = 0 /\ anchors[a][s].cases = {}
      BY DEF NoAnchors
    <2>2. \A a \in Arms : \A k \in DOMAIN versions[a] :
            versions[a][k].after = 0 /\ versions[a][k].active = {}
      BY DEF EmptyVersion
    <2>3. QED
      BY <1>1, <2>1, <2>2 DEF NothingFromTheFuture
  <1>7. PendingReadHead
    BY DEF PendingReadHead, NextCase
  <1>8. QED
    BY <1>3, <1>4, <1>5, <1>6, <1>7 DEF Inductive

-----------------------------------------------------------------------------
(* What every step keeps.                                                  *)

\* The case under way is one of the N, and every case so far has a tape.
LEMMA CaseIndexType ==
  ASSUME TypeOK
  PROVE  /\ case_index \in Nat /\ case_index <= N /\ N \in Nat
         /\ \A c \in 1..case_index : tapes[c] \in Seq(Specs)
PROOF
  <1>1. tapes \in Seq(Seq(Specs)) /\ case_index <= N
    BY DEF TypeOK
  <1>2. Len(tapes) \in Nat /\ \A c \in 1..Len(tapes) : tapes[c] \in Seq(Specs)
    BY <1>1, LenProperties, ElementOfSeq
  <1>3. QED
    BY <1>1, <1>2, ConstantsAssumption DEF case_index

\* Revisions were born, and anchored, by the current case.
LEMMA BornByNow ==
  ASSUME TypeOK, NothingFromTheFuture
  PROVE  \A x \in Arms, t \in Specs :
           /\ born[x][t] \in Nat
           /\ born[x][t] <= case_index
           /\ \A d \in anchors[x][t].cases : d <= case_index
PROOF
  <1>1. \A x \in Arms, t \in Specs : born[x][t] \in Nat
    <2>1. born \in [Arms -> [Specs -> Nat]]
      BY DEF TypeOK
    <2>2. QED
      BY <2>1
  <1>2. \A x \in Arms, t \in Specs :
           /\ born[x][t] <= case_index
           /\ \A d \in anchors[x][t].cases : d <= case_index
    BY DEF NothingFromTheFuture
  <1>3. QED
    BY <1>1, <1>2

\* A step that extends chains, keeps producing cases and adds rows that read
\* before their case keeps the two store invariants.
LEMMA StoreKept ==
  ASSUME Inductive, VersionsExtend, BornKept,
         case_index' \in Nat, case_index <= case_index',
         \A x \in Arms, s \in Specs :
            /\ born'[x][s] \in Nat
            /\ born'[x][s] <= case_index'
            /\ \A c \in anchors'[x][s].cases : c <= case_index',
         evidence' \subseteq EvidenceEvents,
         \A e \in evidence' \ evidence :
            /\ e.case <= case_index
            /\ e.kind = "runtime_execution" => ReadBeforeCase(e)
  PROVE  NothingFromTheFuture' /\ EvaluateBeforeUpdate'
PROOF
  <1>1. TypeOK /\ NothingFromTheFuture /\ EvaluateBeforeUpdate
    BY DEF Inductive
  <1>2. case_index \in Nat
    BY <1>1, CaseIndexType
  <1>3. ASSUME NEW e \in evidence'
        PROVE  /\ e.case <= case_index
               /\ e.case <= case_index'
               /\ e.kind = "runtime_execution" => ReadBeforeCase(e)'
    <2>1. e \in EvidenceEvents /\ e.case \in Nat
      BY DEF EvidenceEvents
    <2>2. e.case <= case_index /\ (e.kind = "runtime_execution" => ReadBeforeCase(e))
      BY <1>1, <1>3 DEF NothingFromTheFuture, EvaluateBeforeUpdate
    <2>3. e.kind = "runtime_execution" => ReadBeforeCase(e)'
      BY <1>1, <2>1, <2>2, RowKept
    <2>4. QED
      BY <1>2, <2>1, <2>2, <2>3
  <1>4. EvaluateBeforeUpdate'
    BY <1>3 DEF EvaluateBeforeUpdate
  <1>5. ASSUME NEW x \in Arms, NEW k \in DOMAIN versions'[x]
        PROVE  /\ versions'[x][k].after <= case_index'
               /\ \A s \in versions'[x][k].active : 0 < born'[x][s]
    <2>1. /\ versions[x] \in Seq(Versions)
          /\ Len(versions[x]) \in Nat
          /\ DOMAIN versions[x] = 1..Len(versions[x])
      BY <1>1, HeadType DEF TypeOK
    <2>2. ASSUME NEW j \in DOMAIN versions[x]
          PROVE  /\ versions[x][j].after <= case_index'
                 /\ \A s \in versions[x][j].active : 0 < born'[x][s]
      <3>1. versions[x][j].after \in Nat /\ versions[x][j].active \subseteq Specs
        BY <1>1, HeadType DEF Versions
      <3>2. versions[x][j].after <= case_index
        BY <1>1 DEF NothingFromTheFuture
      <3>3. \A s \in versions[x][j].active : born[x][s] # 0
        BY <1>1 DEF NothingFromTheFuture
      <3>4. \A s \in versions[x][j].active : 0 < born'[x][s]
        <4>1. \A s \in versions[x][j].active :
                born'[x][s] = born[x][s] /\ born'[x][s] \in Nat
          BY <3>1, <3>3 DEF BornKept
        <4>2. QED
          BY <3>3, <4>1
      <3>5. QED
        BY <1>2, <3>1, <3>2, <3>4
    <2>3. CASE versions'[x] = versions[x]
      BY <2>2, <2>3
    <2>4. ASSUME NEW v \in Versions, v.after = case_index,
                 \A s \in v.active : 0 < born'[x][s],
                 versions'[x] = Append(versions[x], v)
          PROVE  /\ versions'[x][k].after <= case_index'
                 /\ \A s \in versions'[x][k].active : 0 < born'[x][s]
      <3>1. /\ DOMAIN versions'[x] = 1..(Len(versions[x]) + 1)
            /\ \A j \in 1..Len(versions[x]) : versions'[x][j] = versions[x][j]
            /\ versions'[x][Len(versions[x]) + 1] = v
        BY <2>1, <2>4, AppendProperties, LenProperties
      <3>2. k \in 1..Len(versions[x]) \/ k = Len(versions[x]) + 1
        BY <2>1, <3>1
      <3>3. CASE k \in 1..Len(versions[x])
        BY <2>1, <2>2, <3>1, <3>3
      <3>4. CASE k = Len(versions[x]) + 1
        BY <2>4, <3>1, <3>4
      <3>5. QED
        BY <3>2, <3>3, <3>4
    <2>5. QED
      BY <2>3, <2>4 DEF VersionsExtend
  <1>6. NothingFromTheFuture'
    BY <1>3, <1>5 DEF NothingFromTheFuture
  <1>7. QED
    BY <1>4, <1>6

-----------------------------------------------------------------------------
(* The actions, one lemma each.                                            *)

\* Evaluation reads the heads: what it leaves to commit was active there.
LEMMA EvaluateCaseInductive ==
  ASSUME Inductive, EvaluateCase
  PROVE  Inductive'
PROOF
  <1>1. TypeOK /\ NothingFromTheFuture
    BY DEF Inductive
  <1> DEFINE c == case_index + 1
  <1>2. PICK p \in Runs("patterned", c), u \in Runs("unkeyed_global", c),
             n \in Runs("no_update", c), tape \in TapeSelections(c) :
          /\ outcome' = [a \in Arms |->
               [version |-> Len(versions[a]),
                run |-> IF a = "patterned" THEN p
                        ELSE IF a = "unkeyed_global" THEN u ELSE n]]
          /\ tapes' = Append(tapes, tape)
    BY DEF EvaluateCase
  <1>3. /\ phase = "evaluate" /\ phase' = "commit" /\ arm' = 1
        /\ born' = born /\ evidence' = evidence /\ versions' = versions
        /\ lifecycle' = lifecycle /\ anchors' = anchors
        /\ regressions' = regressions /\ auditing' = auditing
    BY DEF EvaluateCase, ledger
  <1>4. /\ case_index \in Nat /\ case_index < N /\ N \in Nat
        /\ c \in 1..N
    BY <1>1, <1>3, CaseIndexType DEF Inductive
  <1>5. tape \in Seq(Specs)
    <2>1. Discoverable[c] \subseteq Specs /\ IsFiniteSet(Specs)
      BY <1>4, ConstantsAssumption
    <2>2. PICK D \in SUBSET Discoverable[c] : tape \in SetToSeqs(D)
      BY <1>2 DEF TapeSelections
    <2>3. D \subseteq Specs /\ IsFiniteSet(D)
      BY <2>1, FS_Subset
    <2>4. tape \in Seq(D)
      BY <2>2, <2>3, EnumerationType
    <2>5. QED
      BY <2>3, <2>4, SeqMonotonic
  <1>6. /\ tapes' \in Seq(Seq(Specs))
        /\ case_index' = c
    <2>1. tapes \in Seq(Seq(Specs))
      BY <1>1 DEF TypeOK
    <2>2. QED
      BY <1>2, <1>5, <2>1, AppendProperties DEF case_index
  <1>7. ASSUME NEW a \in Arms
        PROVE  /\ outcome'[a].run \in Seq(Attempts)
               /\ \A i \in DOMAIN outcome'[a].run :
                    outcome'[a].run[i].spec \in HeadVersion(a).active
    <2> DEFINE S == Candidates(a, c)
    <2>1. HeadVersion(a).active \subseteq Specs
      BY <1>1, HeadType DEF Versions
    <2>2. S \subseteq HeadVersion(a).active /\ S \in SUBSET Specs /\ IsFiniteSet(S)
      <3>1. S \subseteq HeadVersion(a).active
        BY DEF Candidates
      <3>2. IsFiniteSet(Specs)
        BY ConstantsAssumption
      <3>3. QED
        BY <2>1, <3>1, <3>2, FS_Subset
    <2>3. outcome'[a].run \in Runs(a, c)
      BY <1>2 DEF Arms
    <2>4. PICK queue \in RetrieveRevisions(a, c) : outcome'[a].run \in Executions(queue)
      BY <2>3 DEF Runs
    <2>5. queue \in Seq(S)
      BY <2>2, RetrievedType
    <2>6. /\ outcome'[a].run \in Seq(Attempts)
          /\ \A i \in DOMAIN outcome'[a].run : outcome'[a].run[i].spec \in S
      <3> HIDE DEF S
      <3>1. QED
        BY <2>2, <2>4, <2>5, RunType
    <2>7. QED
      BY <2>2, <2>6
  <1>8. TypeOK'
    <2>1. \A a \in Arms : Len(versions[a]) \in Nat
      BY <1>1, HeadType
    <2>2. outcome' \in [Arms -> [version : Nat, run : Seq(Attempts)]]
      <3>1. \A a \in Arms : outcome'[a] =
              [version |-> Len(versions[a]), run |-> outcome'[a].run]
        BY <1>2
      <3>2. outcome' = [a \in Arms |-> outcome'[a]]
        BY <1>2
      <3>3. ASSUME NEW a \in Arms
            PROVE  outcome'[a] \in [version : Nat, run : Seq(Attempts)]
        <4>1. \A k \in Nat, run \in Seq(Attempts) :
                [version |-> k, run |-> run] \in [version : Nat, run : Seq(Attempts)]
          OBVIOUS
        <4>2. Len(versions[a]) \in Nat /\ outcome'[a].run \in Seq(Attempts)
          BY <1>7, <2>1
        <4>3. [version |-> Len(versions[a]), run |-> outcome'[a].run]
                \in [version : Nat, run : Seq(Attempts)]
          BY <4>1, <4>2
        <4>4. QED
          BY <3>1, <4>3
      <3>4. QED
        BY <3>2, <3>3
    <2>3. QED
      BY <1>1, <1>3, <1>4, <1>6, <2>2 DEF TypeOK, Phases
  <1>9. VersionsExtend /\ BornKept
    BY <1>3 DEF VersionsExtend, BornKept
  <1>10. NothingFromTheFuture' /\ EvaluateBeforeUpdate'
    <2>1. \A x \in Arms, s \in Specs :
            /\ born'[x][s] \in Nat
            /\ born'[x][s] <= case_index
            /\ \A d \in anchors'[x][s].cases : d \in Nat /\ d <= case_index
      <3>1. \A x \in Arms, s \in Specs :
              born[x][s] \in Nat /\ anchors[x][s].cases \subseteq Nat
        BY <1>1 DEF TypeOK
      <3>2. QED
        BY <1>1, <1>3, <3>1 DEF NothingFromTheFuture
    <2>2. case_index' \in Nat /\ case_index <= case_index'
      BY <1>4, <1>6
    <2>3. \A x \in Arms, s \in Specs :
            /\ born'[x][s] <= case_index'
            /\ \A d \in anchors'[x][s].cases : d <= case_index'
      BY <1>4, <1>6, <2>1
    <2>4. evidence' \subseteq EvidenceEvents
      BY <1>8 DEF TypeOK
    <2>5. QED
      BY <1>3, <1>9, <2>1, <2>2, <2>3, <2>4, StoreKept
  <1>11. PendingReadHead'
    <2>1. ASSUME NEW a \in Arms
          PROVE  /\ HeadVersion(a)' = HeadVersion(a)
                 /\ HeadVersion(a).after < case_index'
                 /\ \A s \in Specs : born'[a][s] < case_index'
      <3>1. HeadVersion(a)' = HeadVersion(a)
        BY <1>3 DEF HeadVersion
      <3>2. HeadVersion(a).after <= case_index /\ HeadVersion(a).after \in Nat
        BY <1>1, HeadType DEF NothingFromTheFuture, HeadVersion, Versions
      <3>3. \A s \in Specs : born'[a][s] <= case_index /\ born'[a][s] \in Nat
        BY <1>1, <1>3, BornByNow
      <3>4. QED
        BY <1>4, <1>6, <3>1, <3>2, <3>3
    <2>2. PendingArms' \subseteq Arms
      BY DEF PendingArms
    <2>3. QED
      BY <1>7, <2>1, <2>2 DEF PendingReadHead
  <1>12. QED
    BY <1>3, <1>8, <1>10, <1>11 DEF Inductive

\* A run or a tape of k entries leaves finitely many rows.
LEMMA RowsFinite ==
  ASSUME NEW a \in Arms, NEW c, NEW k \in Nat
  PROVE  IsFiniteSet(RunRows(a, c, k)) /\ IsFiniteSet(TapeRows(a, c, k))
PROOF
  <1>1. IsFiniteSet(1..k)
    BY FS_Interval
  <1> DEFINE f == [i \in 1..k |->
               EvidenceRow(a, outcome[a].run[i].spec, c, "runtime_execution",
                           outcome[a].run[i].result = "hit")]
             g == [i \in 1..k |->
               EvidenceRow(a, tapes[c][i], c,
                 IF born[a][tapes[c][i]] = 0 THEN "producing" ELSE "shadow_verification",
                 TRUE)]
  <1>2. f \in Surjection(1..k, RunRows(a, c, k))
    BY DEF Surjection, RunRows
  <1>3. g \in Surjection(1..k, TapeRows(a, c, k))
    BY DEF Surjection, TapeRows
  <1>4. QED
    BY <1>1, <1>2, <1>3, FS_Surjection

\* The arm at its turn is pending, so a case is open and its head is older.
LEMMA TurnPending ==
  ASSUME Inductive, phase = "commit", NEW a \in Arms, a = EVOLUTION_ARMS[arm]
  PROVE  /\ a \in PendingArms
         /\ HeadVersion(a).after < case_index
         /\ \A s \in Specs : born[a][s] < case_index
         /\ \A i \in DOMAIN outcome[a].run :
               outcome[a].run[i].spec \in HeadVersion(a).active
         /\ case_index \in 1..N /\ case_index \in Nat
PROOF
  <1>1. TypeOK /\ PendingReadHead
    BY DEF Inductive
  <1>2. a \in PendingArms
    <2>1. arm \in 1..3 /\ arm \in arm..3
      BY <1>1 DEF TypeOK
    <2>2. QED
      BY <2>1 DEF PendingArms
  <1>3. /\ HeadVersion(a).after < case_index
        /\ \A s \in Specs : born[a][s] < case_index
        /\ \A i \in DOMAIN outcome[a].run :
               outcome[a].run[i].spec \in HeadVersion(a).active
    BY <1>1, <1>2 DEF PendingReadHead
  <1>4. HeadVersion(a).after \in Nat
    BY <1>1, HeadType DEF Versions
  <1>5. case_index \in Nat /\ case_index <= N /\ N \in Nat
    BY <1>1, CaseIndexType
  <1>6. QED
    BY <1>2, <1>3, <1>4, <1>5

\* What a row built for the arm at its turn names is the head its case read.
LEMMA RunRowsRead ==
  ASSUME Inductive, phase = "commit", NEW a \in Arms, a = EVOLUTION_ARMS[arm],
         NEW k \in Nat, k <= Len(outcome[a].run)
  PROVE  /\ RunRows(a, case_index, k) \subseteq EvidenceEvents
         /\ \A e \in RunRows(a, case_index, k) : e.case = case_index /\ ReadBeforeCase(e)
PROOF
  <1> SUFFICES ASSUME NEW i \in 1..k
               PROVE  LET e == EvidenceRow(a, outcome[a].run[i].spec, case_index,
                                 "runtime_execution", outcome[a].run[i].result = "hit")
                      IN  e \in EvidenceEvents /\ e.case = case_index /\ ReadBeforeCase(e)
    BY DEF RunRows
  <1> DEFINE s == outcome[a].run[i].spec
             e == EvidenceRow(a, s, case_index, "runtime_execution",
                              outcome[a].run[i].result = "hit")
  <1>1. TypeOK /\ NothingFromTheFuture
    BY DEF Inductive
  <1>2. /\ outcome[a].run \in Seq(Attempts)
        /\ i \in DOMAIN outcome[a].run
    <2>1. outcome[a].run \in Seq(Attempts)
      BY <1>1 DEF TypeOK
    <2>2. QED
      BY <2>1, LenProperties
  <1>3. s \in HeadVersion(a).active
    BY <1>2, TurnPending
  <1>4. /\ Len(versions[a]) \in Nat \ {0}
        /\ DOMAIN versions[a] = 1..Len(versions[a])
        /\ HeadVersion(a).active \subseteq Specs
    BY <1>1, HeadType DEF Versions
  <1>5. s \in Specs /\ case_index \in Nat
    BY <1>3, <1>4, TurnPending
  <1>6. /\ e.arm = a /\ e.spec = s /\ e.case = case_index
        /\ e.version = Len(versions[a])
    BY DEF EvidenceRow
  <1>7. e \in EvidenceEvents
    <2>1. (outcome[a].run[i].result = "hit") \in BOOLEAN
      OBVIOUS
    <2>2. \A b \in BOOLEAN :
            EvidenceRow(a, s, case_index, "runtime_execution", b) \in EvidenceEvents
      <3> HIDE DEF s
      <3>1. QED
        BY <1>4, <1>5 DEF EvidenceRow, EvidenceEvents, EvidenceKinds
    <2>3. QED
      BY <2>1, <2>2
  <1>8. 0 < born[a][s] /\ born[a][s] < case_index
    <2>1. Len(versions[a]) \in DOMAIN versions[a]
      BY <1>4
    <2>2. 0 < born[a][s]
      BY <1>1, <1>3, <2>1 DEF NothingFromTheFuture, HeadVersion
    <2>3. QED
      BY <1>5, <2>2, TurnPending
  <1>9. ReadBeforeCase(e)
    <2> HIDE DEF s, e
    <2>1. /\ e.version \in DOMAIN versions[e.arm]
          /\ \A j \in DOMAIN versions[e.arm] : ~(j > e.version)
      BY <1>4, <1>6
    <2>2. versions[e.arm][e.version] = HeadVersion(a)
      BY <1>6 DEF HeadVersion
    <2>3. HeadVersion(a).after < e.case
      BY <1>6, TurnPending
    <2>4. QED
      BY <1>3, <1>6, <1>8, <2>1, <2>2, <2>3 DEF ReadBeforeCase
  <1>10. QED
    BY <1>6, <1>7, <1>9

\* A tape adds no runtime row.
LEMMA TapeRowsKind ==
  ASSUME TypeOK, NEW a \in Arms, case_index \in 1..N,
         NEW k \in Nat, k <= Len(tapes[case_index])
  PROVE  /\ TapeRows(a, case_index, k) \subseteq EvidenceEvents
         /\ \A e \in TapeRows(a, case_index, k) :
              e.case = case_index /\ e.kind # "runtime_execution"
PROOF
  <1>1. case_index \in Nat /\ tapes[case_index] \in Seq(Specs)
    BY CaseIndexType
  <1>2. \A i \in 1..k : tapes[case_index][i] \in Specs
    BY <1>1, ElementOfSeq, LenProperties
  <1>3. Len(versions[a]) \in Nat
    BY HeadType
  <1>4. \A s \in Specs, kind \in {"producing", "shadow_verification"} :
          LET e == EvidenceRow(a, s, case_index, kind, TRUE)
          IN  e \in EvidenceEvents /\ e.case = case_index /\ e.kind # "runtime_execution"
    BY <1>1, <1>3 DEF EvidenceRow, EvidenceEvents, EvidenceKinds
  <1>5. QED
    BY <1>2, <1>4 DEF TapeRows

\* A posterior counts cases.
LEMMA PosteriorType ==
  ASSUME NEW E, IsFiniteSet(E), NEW a, NEW s
  PROVE  Posterior(E, a, s) \in Counts
PROOF
  <1> DEFINE won == {r \in RuntimeRows(E, a, s) : r.success}
             lost == {r \in RuntimeRows(E, a, s) : ~r.success}
             f == [r \in won |-> r.case]
             g == [r \in lost |-> r.case]
  <1>1. IsFiniteSet(won) /\ IsFiniteSet(lost)
    <2>1. won \subseteq E /\ lost \subseteq E
      BY DEF RuntimeRows
    <2>2. QED
      BY <2>1, FS_Subset
  <1>2. f \in Surjection(won, Won(E, a, s)) /\ g \in Surjection(lost, Lost(E, a, s))
    BY DEF Surjection, Won, Lost
  <1>3. IsFiniteSet(Won(E, a, s)) /\ IsFiniteSet(Lost(E, a, s))
    <2> HIDE DEF f, g, won, lost
    <2>1. QED
      BY <1>1, <1>2, FS_Surjection
  <1>4. Cardinality(Won(E, a, s)) \in Nat /\ Cardinality(Lost(E, a, s)) \in Nat
    BY <1>3, FS_CardinalityType
  <1>5. QED
    BY <1>4 DEF Posterior, Counts

\* Two of the three rejections stop between two arms of a commit: what they
\* leave in the ledger is a prefix of the rows, and nothing else has changed.
LEMMA RejectionInductive ==
  ASSUME Inductive, NEW rows, IsFiniteSet(rows), rows \subseteq EvidenceEvents,
         \A e \in rows : /\ e.case <= case_index
                         /\ e.kind = "runtime_execution" => ReadBeforeCase(e),
         evidence' = evidence \cup rows, phase' = "aborted",
         UNCHANGED <<arm, outcome, tapes, born, versions, lifecycle, anchors,
                     regressions, auditing>>
  PROVE  Inductive'
PROOF
  <1>1. TypeOK /\ NothingFromTheFuture /\ IsFiniteSet(evidence)
    BY DEF Inductive
  <1>2. TypeOK'
    BY <1>1 DEF TypeOK, Phases, case_index
  <1>3. case_index' = case_index /\ case_index \in Nat
    BY <1>1, CaseIndexType DEF case_index
  <1>4. IsFiniteSet(evidence')
    BY <1>1, FS_Union
  <1>5. VersionsExtend /\ BornKept
    BY DEF VersionsExtend, BornKept
  <1>6. NothingFromTheFuture' /\ EvaluateBeforeUpdate'
    <2>1. \A x \in Arms, s \in Specs :
            /\ born'[x][s] \in Nat
            /\ born'[x][s] <= case_index'
            /\ \A c \in anchors'[x][s].cases : c <= case_index'
      BY <1>1, <1>3, BornByNow
    <2>2. evidence' \subseteq EvidenceEvents /\ case_index <= case_index'
      BY <1>2, <1>3 DEF TypeOK
    <2>3. QED
      BY <1>3, <1>5, <2>1, <2>2, StoreKept
  <1>7. PendingReadHead' /\ ~(phase' = "evaluate")
    BY DEF PendingReadHead
  <1>8. QED
    BY <1>2, <1>4, <1>6, <1>7 DEF Inductive

\* An arm whose run timed out leaves the rows before the timeout, and
\* commits nothing.
LEMMA RejectEvidenceInductive ==
  ASSUME Inductive, NEW a \in Arms, RejectEvidence(a)
  PROVE  Inductive'
PROOF
  <1> DEFINE k == Min(TimedOut(a)) - 1
             rows == RunRows(a, case_index, k)
  <1>1. /\ phase = "commit" /\ a = EVOLUTION_ARMS[arm] /\ TimedOut(a) # {}
        /\ evidence' = evidence \cup rows /\ phase' = "aborted"
        /\ UNCHANGED <<arm, outcome, tapes, born, versions, lifecycle, anchors,
                       regressions, auditing>>
    BY DEF RejectEvidence
  <1>2. k \in Nat /\ k <= Len(outcome[a].run)
    <2>1. outcome[a].run \in Seq(Attempts)
      BY DEF Inductive, TypeOK
    <2>2. DOMAIN outcome[a].run = 1..Len(outcome[a].run) /\ Len(outcome[a].run) \in Nat
      BY <2>1, LenProperties
    <2>3. TimedOut(a) \subseteq 1..Len(outcome[a].run)
      BY <2>2 DEF TimedOut
    <2>4. Min(TimedOut(a)) \in TimedOut(a)
      <3>1. TimedOut(a) \in SUBSET Nat
        BY <2>2, <2>3
      <3>2. QED
        BY <1>1, <3>1, MinOfNaturals
    <2>5. Min(TimedOut(a)) \in 1..Len(outcome[a].run)
      BY <2>3, <2>4
    <2>6. QED
      BY <2>2, <2>5
  <1>3. case_index \in Nat
    BY <1>1, TurnPending
  <1>4. /\ IsFiniteSet(rows)
        /\ rows \subseteq EvidenceEvents
        /\ \A e \in rows : e.case = case_index /\ ReadBeforeCase(e)
    <2> HIDE DEF k
    <2>1. QED
      BY <1>1, <1>2, RowsFinite, RunRowsRead
  <1>5. \A e \in rows : /\ e.case <= case_index
                        /\ e.kind = "runtime_execution" => ReadBeforeCase(e)
    BY <1>3, <1>4
  <1>6. QED
    <2> HIDE DEF rows
    <2>1. QED
      BY <1>1, <1>4, <1>5, RejectionInductive

\* The tape of the case has as many rows as an updating arm may write.
LEMMA TapeSizeType ==
  ASSUME TypeOK, NEW a \in Arms, case_index \in 1..N
  PROVE  /\ TapeSize(a, case_index) \in Nat
         /\ TapeSize(a, case_index) <= Len(tapes[case_index])
         /\ \A i \in 1..TapeSize(a, case_index) : tapes[case_index][i] \in Specs
PROOF
  <1>1. case_index \in Nat /\ tapes[case_index] \in Seq(Specs)
    BY CaseIndexType
  <1>2. Len(tapes[case_index]) \in Nat
    BY <1>1, LenProperties
  <1>3. /\ TapeSize(a, case_index) \in Nat
        /\ TapeSize(a, case_index) <= Len(tapes[case_index])
    BY <1>2 DEF TapeSize
  <1>4. \A i \in 1..Len(tapes[case_index]) : tapes[case_index][i] \in Specs
    BY <1>1, ElementOfSeq
  <1>5. QED
    BY <1>2, <1>3, <1>4

\* A tape entry without an evidence key stops the tape after the entries
\* before it, and commits nothing.
LEMMA RejectTapeInductive ==
  ASSUME Inductive, NEW a \in Arms, RejectTape(a)
  PROVE  Inductive'
PROOF
  <1> DEFINE n == Len(outcome[a].run)
             k == Min(Unkeyable(a, case_index)) - 1
             ran == RunRows(a, case_index, n)
             shown == TapeRows(a, case_index, k)
             rows == ran \cup shown
  <1>1. /\ phase = "commit" /\ a = EVOLUTION_ARMS[arm] /\ Unkeyable(a, case_index) # {}
        /\ evidence' = evidence \cup rows /\ phase' = "aborted"
        /\ UNCHANGED <<arm, outcome, tapes, born, versions, lifecycle, anchors,
                       regressions, auditing>>
    BY DEF RejectTape
  <1>2. TypeOK /\ case_index \in 1..N /\ case_index \in Nat
    BY <1>1, TurnPending DEF Inductive
  <1>3. n \in Nat /\ n <= Len(outcome[a].run)
    <2>1. outcome[a].run \in Seq(Attempts)
      BY <1>2 DEF TypeOK
    <2>2. QED
      BY <2>1, LenProperties
  <1>4. k \in Nat /\ k <= Len(tapes[case_index])
    <2>1. Unkeyable(a, case_index) \subseteq 1..TapeSize(a, case_index)
      BY DEF Unkeyable
    <2>2. TapeSize(a, case_index) \in Nat /\ TapeSize(a, case_index) <= Len(tapes[case_index])
      BY <1>2, TapeSizeType
    <2>3. Len(tapes[case_index]) \in Nat
      BY <1>2, CaseIndexType, LenProperties
    <2>4. Unkeyable(a, case_index) \in SUBSET Nat
      BY <2>1, <2>2
    <2>5. Min(Unkeyable(a, case_index)) \in Unkeyable(a, case_index)
      BY <1>1, <2>4, MinOfNaturals
    <2>6. Min(Unkeyable(a, case_index)) \in 1..TapeSize(a, case_index)
      BY <2>1, <2>5
    <2>7. QED
      BY <2>2, <2>3, <2>6
  <1>5. /\ IsFiniteSet(ran) /\ ran \subseteq EvidenceEvents
        /\ \A e \in ran : e.case = case_index /\ ReadBeforeCase(e)
    <2> HIDE DEF n
    <2>1. QED
      BY <1>1, <1>3, RowsFinite, RunRowsRead
  <1>6. /\ IsFiniteSet(shown) /\ shown \subseteq EvidenceEvents
        /\ \A e \in shown : e.case = case_index /\ e.kind # "runtime_execution"
    <2> HIDE DEF k
    <2>1. QED
      BY <1>2, <1>4, RowsFinite, TapeRowsKind
  <1>7. /\ IsFiniteSet(rows) /\ rows \subseteq EvidenceEvents
        /\ \A e \in rows : /\ e.case <= case_index
                           /\ e.kind = "runtime_execution" => ReadBeforeCase(e)
    <2> HIDE DEF ran, shown
    <2>1. IsFiniteSet(rows)
      BY <1>5, <1>6, FS_Union
    <2>2. QED
      BY <1>2, <1>5, <1>6, <2>1
  <1>8. QED
    <2> HIDE DEF rows
    <2>1. QED
      BY <1>1, <1>7, RejectionInductive

\* A committed case moves the arm's head past the case and leaves the arms that
\* are still pending as they were.
LEMMA CommitArmInductive ==
  ASSUME Inductive, NEW a \in Arms, CommitArm(a)
  PROVE  Inductive'
PROOF
  <1> DEFINE c == case_index
             v == HeadVersion(a)
             next == Len(versions[a]) + 1
             ran == RunRows(a, c, Len(outcome[a].run))
             shown == TapeRows(a, c, TapeSize(a, c))
             rows == evidence \cup ran \cup shown
             novel == Novel(a, c)
             failing == {s \in (v.active \cup novel) \ v.stable :
                           ShouldRetireProvisional(Won(rows, a, s), Lost(rows, a, s))}
             active == (v.active \cup novel) \ failing
             head == [active |-> active,
                      stable |-> v.stable,
                      retired |-> v.retired \cup failing,
                      weights |-> [s \in Specs |->
                        IF s \in active THEN Posterior(rows, a, s) ELSE Prior],
                      after |-> c,
                      cause |-> "case"]
  <1>1. /\ phase = "commit" /\ a = EVOLUTION_ARMS[arm]
        /\ evidence' = rows
        /\ born' = [born EXCEPT ![a] = [s \in Specs |-> IF s \in novel THEN c ELSE @[s]]]
        /\ CommitVersion(a, head)
        /\ lifecycle' = lifecycle
             \cup {Event(a, s, "candidate", "provisional_active", next) : s \in novel}
             \cup {Event(a, s, "provisional_active", "retired", next) : s \in failing}
        /\ IF arm < Len(EVOLUTION_ARMS)
           THEN arm' = arm + 1 /\ phase' = phase
           ELSE arm' = 1 /\ phase' = "promote"
        /\ UNCHANGED <<outcome, tapes, anchors, regressions, auditing>>
    BY DEF CommitArm
  <1>2. /\ TypeOK /\ NothingFromTheFuture /\ IsFiniteSet(evidence)
        /\ c \in 1..N /\ c \in Nat /\ arm \in 1..3
    BY <1>1, TurnPending DEF Inductive, TypeOK
  <1>3. /\ v \in Versions /\ next \in Nat
        /\ v.active \subseteq Specs /\ v.stable \subseteq Specs /\ v.retired \subseteq Specs
    BY <1>2, HeadType DEF Versions
  <1>4. /\ IsFiniteSet(ran) /\ ran \subseteq EvidenceEvents
        /\ \A e \in ran : e.case = c /\ ReadBeforeCase(e)
    <2>1. outcome[a].run \in Seq(Attempts)
      BY <1>2 DEF TypeOK
    <2>2. Len(outcome[a].run) \in Nat /\ Len(outcome[a].run) <= Len(outcome[a].run)
      BY <2>1, LenProperties
    <2>3. QED
      BY <1>1, <2>2, RowsFinite, RunRowsRead
  <1>5. /\ IsFiniteSet(shown) /\ shown \subseteq EvidenceEvents
        /\ \A e \in shown : e.case = c /\ e.kind # "runtime_execution"
    BY <1>2, TapeSizeType, RowsFinite, TapeRowsKind
  <1>6. IsFiniteSet(rows) /\ rows \subseteq EvidenceEvents
    <2> HIDE DEF ran, shown
    <2>1. IsFiniteSet(rows)
      BY <1>2, <1>4, <1>5, FS_Union
    <2>2. QED
      BY <1>2, <1>4, <1>5, <2>1 DEF TypeOK
  <1>7. novel \subseteq Specs /\ \A s \in novel : born[a][s] = 0
    BY <1>2, TapeSizeType DEF Novel
  <1> HIDE DEF ran, shown, novel
  <1>8. failing \subseteq Specs /\ active \subseteq Specs
    BY <1>3, <1>7
  <1>9. head \in Versions
    <2>1. \A s \in Specs : Posterior(rows, a, s) \in Counts
      BY <1>6, PosteriorType
    <2>2. Prior \in Counts
      BY DEF Prior, Counts
    <2>3. [s \in Specs |-> IF s \in active THEN Posterior(rows, a, s) ELSE Prior]
            \in [Specs -> Counts]
      <3> HIDE DEF rows, active
      <3>1. QED
        BY <2>1, <2>2
    <2>4. v.retired \cup failing \in SUBSET Specs
      BY <1>3, <1>8
    <2>5. QED
      <3> HIDE DEF rows, active, failing
      <3>1. QED
        BY <1>2, <1>3, <1>8, <2>3, <2>4 DEF Versions
  <1> HIDE DEF rows, failing
  <1>10. /\ versions' \in [Arms -> Seq(Versions)]
         /\ \A x \in Arms : versions'[x] # <<>>
         /\ versions'[a] = Append(versions[a], head)
         /\ \A x \in Arms \ {a} : versions'[x] = versions[x]
    <2> HIDE DEF head
    <2>1. QED
      BY <1>1, <1>2, <1>9, CommitVersionType
  <1>11. /\ born' \in [Arms -> [Specs -> Nat]]
         /\ \A s \in novel : born'[a][s] = c
         /\ \A s \in Specs \ novel : born'[a][s] = born[a][s]
         /\ \A x \in Arms \ {a} : born'[x] = born[x]
    <2>1. born \in [Arms -> [Specs -> Nat]]
      BY <1>2 DEF TypeOK
    <2>2. QED
      BY <1>1, <1>2, <1>7, <2>1
  <1>12. lifecycle' \subseteq LifecycleEvents
    <2>1. \A s \in Specs :
            /\ Event(a, s, "candidate", "provisional_active", next) \in LifecycleEvents
            /\ Event(a, s, "provisional_active", "retired", next) \in LifecycleEvents
      BY <1>3 DEF Event, LifecycleEvents, LIFECYCLE_STATES
    <2>2. lifecycle \subseteq LifecycleEvents
      BY <1>2 DEF TypeOK
    <2> HIDE DEF next
    <2>3. QED
      BY <1>1, <1>7, <1>8, <2>1, <2>2
  <1>13. case_index' = c
    BY <1>1 DEF case_index
  <1>14. /\ arm' \in 1..3 /\ phase' \in {"commit", "promote"}
         /\ phase' = "commit" => arm' = arm + 1
    BY <1>1, <1>2 DEF EVOLUTION_ARMS
  <1>15. TypeOK'
    <2>1. /\ outcome' \in [Arms -> [version : Nat, run : Seq(Attempts)]]
          /\ tapes' \in Seq(Seq(Specs)) /\ case_index' <= N
          /\ anchors' \in [Arms -> [Specs -> [cases : SUBSET Nat, version : Nat]]]
          /\ regressions' \in [Arms -> [Specs -> Nat]]
          /\ auditing' \subseteq UpdatingArms \X Specs
      BY <1>1, <1>2, <1>13 DEF TypeOK
    <2>2. evidence' \subseteq EvidenceEvents
      BY <1>1, <1>6
    <2>3. QED
      BY <1>10, <1>11, <1>12, <1>14, <2>1, <2>2 DEF TypeOK, Phases
  <1>16. BornKept
    BY <1>7, <1>11 DEF BornKept
  <1>17. VersionsExtend
    <2>1. \A s \in active : 0 < born'[a][s]
      <3>1. ASSUME NEW s \in active PROVE 0 < born'[a][s]
        <4>1. CASE s \in novel
          BY <1>2, <1>11, <4>1
        <4>2. CASE s \notin novel
          <5>1. s \in v.active /\ s \in Specs
            BY <1>8, <4>2
          <5>2. Len(versions[a]) \in DOMAIN versions[a]
            BY <1>2, HeadType
          <5>3. 0 < born[a][s]
            BY <1>2, <5>1, <5>2 DEF NothingFromTheFuture, HeadVersion
          <5>4. QED
            BY <1>11, <4>2, <5>1, <5>3
        <4>3. QED
          BY <4>1, <4>2
      <3>2. QED
        BY <3>1
    <2>2. head.after = case_index /\ head.active = active
      OBVIOUS
    <2>3. QED
      <3> HIDE DEF head, active
      <3>1. QED
        BY <1>9, <1>10, <2>1, <2>2 DEF VersionsExtend
  <1>18. NothingFromTheFuture' /\ EvaluateBeforeUpdate'
    <2>1. \A x \in Arms, s \in Specs :
            /\ born'[x][s] \in Nat
            /\ born'[x][s] <= case_index'
            /\ \A d \in anchors'[x][s].cases : d <= case_index'
      <3>1. \A x \in Arms, s \in Specs :
              born[x][s] <= c /\ \A d \in anchors[x][s].cases : d <= c
        BY <1>2 DEF NothingFromTheFuture
      <3>2. \A x \in Arms, s \in Specs : born'[x][s] = born[x][s] \/ born'[x][s] = c
        BY <1>11
      <3>3. anchors' = anchors
        BY <1>1
      <3>4. QED
        BY <1>2, <1>11, <1>13, <3>1, <3>2, <3>3
    <2>2. \A e \in evidence' \ evidence :
            /\ e.case <= case_index
            /\ e.kind = "runtime_execution" => ReadBeforeCase(e)
      BY <1>1, <1>2, <1>4, <1>5 DEF rows
    <2>3. case_index' \in Nat /\ case_index <= case_index' /\ evidence' \subseteq EvidenceEvents
      BY <1>1, <1>2, <1>6, <1>13
    <2>4. QED
      BY <1>16, <1>17, <2>1, <2>2, <2>3, StoreKept
  <1>19. PendingReadHead'
    <2> SUFFICES ASSUME phase' = "commit", NEW x \in PendingArms'
                 PROVE  /\ HeadVersion(x)'.after < case_index'
                        /\ \A s \in Specs : born'[x][s] < case_index'
                        /\ \A i \in DOMAIN outcome'[x].run :
                              outcome'[x].run[i].spec \in HeadVersion(x)'.active
      BY DEF PendingReadHead
    <2>1. x \in PendingArms \ {a} /\ x \in Arms
      <3>1. arm' = arm + 1
        BY <1>14
      <3>2. PICK i \in arm'..3 : EVOLUTION_ARMS[i] = x
        BY DEF PendingArms
      <3>3. i \in arm..3 /\ i # arm /\ i \in 1..3
        BY <1>2, <3>1, <3>2
      <3>4. x # a
        BY <1>1, <1>2, <3>2, <3>3 DEF EVOLUTION_ARMS
      <3>5. x \in Arms
        BY DEF PendingArms
      <3>6. QED
        BY <3>2, <3>3, <3>4, <3>5 DEF PendingArms
    <2>2. HeadVersion(x)' = HeadVersion(x) /\ born'[x] = born[x] /\ outcome' = outcome
      BY <1>1, <1>10, <1>11, <2>1 DEF HeadVersion
    <2>3. PendingReadHead
      BY DEF Inductive
    <2>4. QED
      BY <1>1, <1>13, <2>1, <2>2, <2>3 DEF PendingReadHead
  <1>20. QED
    BY <1>1, <1>6, <1>14, <1>15, <1>18, <1>19 DEF Inductive

\* The validation triple is made of successes.
LEMMA TripleAmongSuccesses ==
  ASSUME NEW T, NEW S, NEW family, IsValidationTriple(T, S, family)
  PROVE  T \subseteq S
PROOF
  <1>1. CASE T = Earliest(S, 3)
    BY <1>1 DEF Earliest
  <1>2. CASE IsEarliestCrossFamilyThree(T, ValidationPrefix(S, family), family)
    <2>1. T \subseteq ValidationPrefix(S, family)
      BY <1>2 DEF IsEarliestCrossFamilyThree, CrossFamilyTriples
    <2>2. ValidationPrefix(S, family) \subseteq S
      BY DEF ValidationPrefix
    <2>3. QED
      BY <2>1, <2>2
  <1>3. QED
    BY <1>1, <1>2 DEF IsValidationTriple

\* A promotion extends one chain by the same active set and adds an anchor set
\* of cases that are in the ledger.
LEMMA PromoteInductive ==
  ASSUME Inductive, NEW a \in UpdatingArms, NEW s \in Specs, Promote(a, s)
  PROVE  Inductive'
PROOF
  <1> DEFINE v == HeadVersion(a)
             next == Len(versions[a]) + 1
             head == [v EXCEPT !.stable = @ \cup {s},
                               !.after = case_index,
                               !.cause = "promotion"]
  <1>1. /\ phase = "promote" /\ CommitVersion(a, head)
        /\ lifecycle' = lifecycle \cup {Event(a, s, "provisional_active", "stable", next)}
        /\ UNCHANGED <<phase, arm, outcome, tapes, born, evidence, regressions, auditing>>
    BY DEF Promote
  <1>2. PICK T : /\ IsValidationTriple(T, Won(evidence, a, s), RecurrenceFamily)
                 /\ anchors' = [anchors EXCEPT ![a][s] = [cases |-> T, version |-> next]]
    BY DEF Promote
  <1>3. /\ TypeOK /\ NothingFromTheFuture /\ IsFiniteSet(evidence) /\ a \in Arms
        /\ case_index \in Nat
    BY CaseIndexType DEF Inductive, UpdatingArms
  <1>4. v \in Versions /\ next \in Nat
    BY <1>3, HeadType
  <1>5. T \subseteq Nat /\ \A d \in T : d <= case_index
    <2>1. T \subseteq Won(evidence, a, s)
      BY <1>2, TripleAmongSuccesses
    <2>2. \A e \in evidence : e.case \in Nat /\ e.case <= case_index
      BY <1>3 DEF TypeOK, EvidenceEvents, NothingFromTheFuture
    <2>3. QED
      BY <2>1, <2>2 DEF Won, RuntimeRows
  <1>6. head \in Versions /\ head.after = case_index /\ head.active = v.active
    BY <1>3, <1>4 DEF Versions
  <1> HIDE DEF head
  <1>7. /\ versions' \in [Arms -> Seq(Versions)]
        /\ \A x \in Arms : versions'[x] # <<>>
        /\ versions'[a] = Append(versions[a], head)
        /\ \A x \in Arms \ {a} : versions'[x] = versions[x]
    BY <1>1, <1>3, <1>6, CommitVersionType
  <1>8. /\ anchors' \in [Arms -> [Specs -> [cases : SUBSET Nat, version : Nat]]]
        /\ \A x \in Arms, t \in Specs :
              anchors'[x][t].cases = anchors[x][t].cases \/ anchors'[x][t].cases = T
    <2>1. anchors \in [Arms -> [Specs -> [cases : SUBSET Nat, version : Nat]]]
      BY <1>3 DEF TypeOK
    <2>2. [cases |-> T, version |-> next] \in [cases : SUBSET Nat, version : Nat]
      BY <1>4, <1>5
    <2> HIDE DEF next
    <2>3. QED
      BY <1>2, <1>3, <2>1, <2>2
  <1>9. lifecycle' \subseteq LifecycleEvents
    <2>1. Event(a, s, "provisional_active", "stable", next) \in LifecycleEvents
      BY <1>3, <1>4 DEF Event, LifecycleEvents, LIFECYCLE_STATES
    <2>2. lifecycle \subseteq LifecycleEvents
      BY <1>3 DEF TypeOK
    <2>3. QED
      BY <1>1, <2>1, <2>2
  <1>10. case_index' = case_index
    BY <1>1 DEF case_index
  <1>11. TypeOK'
    BY <1>1, <1>3, <1>7, <1>8, <1>9, <1>10 DEF TypeOK
  <1>12. BornKept
    BY <1>1 DEF BornKept
  <1>13. VersionsExtend
    <2>1. \A t \in head.active : 0 < born'[a][t]
      <3>1. Len(versions[a]) \in DOMAIN versions[a]
        BY <1>3, HeadType
      <3>2. QED
        BY <1>1, <1>3, <1>6, <3>1 DEF NothingFromTheFuture, HeadVersion
    <2>2. QED
      BY <1>6, <1>7, <2>1 DEF VersionsExtend
  <1>14. NothingFromTheFuture' /\ EvaluateBeforeUpdate'
    <2>1. \A x \in Arms, t \in Specs :
            /\ born'[x][t] \in Nat
            /\ born'[x][t] <= case_index'
            /\ \A d \in anchors'[x][t].cases : d <= case_index'
      <3>1. \A x \in Arms, t \in Specs :
              /\ born[x][t] \in Nat /\ born[x][t] <= case_index
              /\ \A d \in anchors[x][t].cases : d <= case_index
        BY <1>3, BornByNow
      <3>2. QED
        BY <1>1, <1>5, <1>8, <1>10, <3>1
    <2>2. evidence' = evidence /\ evidence' \subseteq EvidenceEvents
      BY <1>1, <1>11 DEF TypeOK
    <2>3. QED
      BY <1>3, <1>10, <1>12, <1>13, <2>1, <2>2, StoreKept
  <1>15. PendingReadHead' /\ ~(phase' = "evaluate")
    BY <1>1 DEF PendingReadHead
  <1>16. IsFiniteSet(evidence')
    BY <1>1, <1>3
  <1>17. QED
    BY <1>11, <1>14, <1>15, <1>16 DEF Inductive

\* The runner goes on only while cases are left.
LEMMA NextCaseType ==
  ASSUME TypeOK
  PROVE  NextCase \in {"done", "evaluate"} /\ (NextCase = "evaluate" => case_index < N)
BY CaseIndexType DEF NextCase

\* Ending promotion touches neither the ledger nor the versions.
LEMMA EndPromotionInductive ==
  ASSUME Inductive, NEW a \in UpdatingArms, EndPromotion(a)
  PROVE  Inductive'
PROOF
  <1>1. /\ phase = "promote"
        /\ UNCHANGED <<outcome, tapes, born, evidence, versions, lifecycle, anchors,
                       regressions>>
    BY DEF EndPromotion, ledger
  <1>2. TypeOK /\ NothingFromTheFuture /\ EvaluateBeforeUpdate /\ IsFiniteSet(evidence)
    BY DEF Inductive
  <1>3. /\ arm' \in 1..3 /\ phase' \in {"promote", "audit", NextCase}
        /\ auditing' \in {auditing, {}, StableRevisions}
    BY <1>1 DEF EndPromotion
  <1>4. /\ phase' \in {"promote", "audit", "done", "evaluate"}
        /\ phase' = "evaluate" => case_index' < N
    BY <1>1, <1>2, <1>3, NextCaseType DEF case_index
  <1>5. auditing' \subseteq UpdatingArms \X Specs
    BY <1>2, <1>3 DEF TypeOK, StableRevisions
  <1>6. TypeOK'
    BY <1>1, <1>2, <1>3, <1>4, <1>5 DEF TypeOK, Phases, case_index
  <1>7. NothingFromTheFuture' /\ EvaluateBeforeUpdate' /\ IsFiniteSet(evidence')
    BY <1>1, <1>2 DEF NothingFromTheFuture, EvaluateBeforeUpdate, ReadBeforeCase, case_index
  <1>8. PendingReadHead'
    BY <1>4 DEF PendingReadHead
  <1>9. QED
    BY <1>4, <1>6, <1>7, <1>8 DEF Inductive

\* Replay writes anchor rows of past cases, one per audited anchor.
LEMMA ReplayRowsKind ==
  ASSUME Inductive, NEW a \in Arms, NEW s \in Specs, NEW replay,
         NEW audited \in SUBSET AnchorCases(a, s)
  PROVE  /\ IsFiniteSet(ReplayRows(a, s, replay, audited))
         /\ ReplayRows(a, s, replay, audited) \subseteq EvidenceEvents
         /\ \A e \in ReplayRows(a, s, replay, audited) :
              e.case <= case_index /\ e.kind # "runtime_execution"
PROOF
  <1>1. TypeOK /\ NothingFromTheFuture /\ case_index \in Nat
    BY CaseIndexType DEF Inductive
  <1>2. audited \in SUBSET Nat /\ \A c \in audited : c <= case_index
    <2>1. /\ born[a][s] \in Nat /\ born[a][s] <= case_index
          /\ anchors[a][s].cases \subseteq Nat
          /\ \A c \in anchors[a][s].cases : c <= case_index
      BY <1>1 DEF TypeOK, NothingFromTheFuture
    <2>2. QED
      BY <2>1 DEF AnchorCases
  <1>3. IsFiniteSet(audited)
    BY <1>1, <1>2, FS_BoundedSetOfNaturals
  <1> DEFINE f == [c \in audited |->
               EvidenceRow(a, s, c, "anchor_replay", replay[c] = "hit")]
  <1>4. f \in Surjection(audited, ReplayRows(a, s, replay, audited))
    BY DEF Surjection, ReplayRows
  <1>5. IsFiniteSet(ReplayRows(a, s, replay, audited))
    BY <1>3, <1>4, FS_Surjection
  <1>6. Len(versions[a]) \in Nat
    BY <1>1, HeadType
  <1>7. \A c \in Nat, b \in BOOLEAN :
          LET e == EvidenceRow(a, s, c, "anchor_replay", b)
          IN  e \in EvidenceEvents /\ e.case = c /\ e.kind # "runtime_execution"
    BY <1>6 DEF EvidenceRow, EvidenceEvents, EvidenceKinds
  <1>8. \A c \in audited : (replay[c] = "hit") \in BOOLEAN
    OBVIOUS
  <1>9. ASSUME NEW e \in ReplayRows(a, s, replay, audited)
        PROVE  e \in EvidenceEvents /\ e.case <= case_index /\ e.kind # "runtime_execution"
    <2>1. PICK c \in audited :
            e = EvidenceRow(a, s, c, "anchor_replay", replay[c] = "hit")
      BY DEF ReplayRows
    <2>2. PICK b \in BOOLEAN : e = EvidenceRow(a, s, c, "anchor_replay", b)
      BY <1>8, <2>1
    <2>3. c \in Nat /\ c <= case_index
      BY <1>2
    <2>4. QED
      BY <1>7, <2>2, <2>3
  <1>10. QED
    BY <1>5, <1>9

\* An audit adds replay rows and may retire the revision it audits.
LEMMA AuditRevisionInductive ==
  ASSUME Inductive, NEW a \in UpdatingArms, NEW s \in Specs, AuditRevision(a, s)
  PROVE  Inductive'
PROOF
  <1> DEFINE v == HeadVersion(a)
             head == [v EXCEPT !.active = @ \ {s},
                               !.stable = @ \ {s},
                               !.retired = @ \cup {s},
                               !.after = case_index,
                               !.cause = "checkpoint"]
  <1>1. /\ phase = "audit" /\ auditing' = auditing \ {<<a, s>>}
        /\ phase' \in {NextCase, phase}
        /\ UNCHANGED <<arm, outcome, tapes, born, anchors>>
    BY DEF AuditRevision
  <1>2. PICK replay \in Replays(a, s) :
          LET regressed == \E c \in AnchorCases(a, s) : replay[c] = "miss"
              consecutive == NextRegressions(regressions[a][s], regressed)
          IN  /\ evidence' = evidence \cup ReplayRows(a, s, replay, AnchorCases(a, s))
              /\ regressions' = [regressions EXCEPT ![a][s] = consecutive]
              /\ IF RetiresOnRegressions(consecutive)
                 THEN Retire(a, s)
                 ELSE UNCHANGED <<versions, lifecycle>>
    BY DEF AuditRevision
  <1>3. /\ TypeOK /\ NothingFromTheFuture /\ IsFiniteSet(evidence) /\ a \in Arms
        /\ case_index \in Nat
    BY CaseIndexType DEF Inductive, UpdatingArms
  <1> DEFINE rows == ReplayRows(a, s, replay, AnchorCases(a, s))
  <1>4. /\ IsFiniteSet(rows) /\ rows \subseteq EvidenceEvents
        /\ \A e \in rows : e.case <= case_index /\ e.kind # "runtime_execution"
    BY <1>3, ReplayRowsKind
  <1>5. evidence' = evidence \cup rows
    BY <1>2
  <1> HIDE DEF rows
  <1>6. regressions' \in [Arms -> [Specs -> Nat]]
    <2>1. regressions \in [Arms -> [Specs -> Nat]]
      BY <1>3 DEF TypeOK
    <2>2. PICK n : n \in {0, regressions[a][s] + 1}
                   /\ regressions' = [regressions EXCEPT ![a][s] = n]
      BY <1>2 DEF NextRegressions
    <2>3. n \in Nat
      BY <1>3, <2>1, <2>2
    <2>4. QED
      BY <1>3, <2>1, <2>2, <2>3
  <1>7. \/ UNCHANGED <<versions, lifecycle>>
        \/ /\ CommitVersion(a, head)
           /\ lifecycle' = lifecycle
                \cup {Event(a, s, "stable", "retired", Len(versions[a]) + 1)}
    BY <1>2 DEF Retire
  <1>8. v \in Versions /\ Len(versions[a]) + 1 \in Nat
    BY <1>3, HeadType
  <1>9. head \in Versions /\ head.after = case_index /\ head.active \subseteq v.active
    BY <1>3, <1>8 DEF Versions
  <1> HIDE DEF head
  <1>10. /\ versions' \in [Arms -> Seq(Versions)]
         /\ \A x \in Arms : versions'[x] # <<>>
         /\ \/ versions' = versions
            \/ /\ versions'[a] = Append(versions[a], head)
               /\ \A x \in Arms \ {a} : versions'[x] = versions[x]
    <2>1. CASE UNCHANGED <<versions, lifecycle>>
      BY <1>3, <2>1 DEF TypeOK
    <2>2. CASE CommitVersion(a, head)
      BY <1>3, <1>9, <2>2, CommitVersionType
    <2>3. QED
      BY <1>7, <2>1, <2>2
  <1>11. lifecycle' \subseteq LifecycleEvents
    <2>1. Event(a, s, "stable", "retired", Len(versions[a]) + 1) \in LifecycleEvents
      BY <1>3, <1>8 DEF Event, LifecycleEvents, LIFECYCLE_STATES
    <2>2. lifecycle \subseteq LifecycleEvents
      BY <1>3 DEF TypeOK
    <2>3. QED
      BY <1>7, <2>1, <2>2
  <1>12. /\ case_index' = case_index
         /\ phase' \in {"done", "evaluate", "audit"}
         /\ phase' = "evaluate" => case_index' < N
    <2>1. case_index' = case_index
      BY <1>1 DEF case_index
    <2>2. QED
      BY <1>1, <1>3, <2>1, NextCaseType
  <1>13. evidence' \subseteq EvidenceEvents /\ IsFiniteSet(evidence')
    <2>1. IsFiniteSet(evidence')
      BY <1>3, <1>4, <1>5, FS_Union
    <2>2. QED
      BY <1>3, <1>4, <1>5, <2>1 DEF TypeOK
  <1>14. TypeOK'
    BY <1>1, <1>3, <1>6, <1>10, <1>11, <1>12, <1>13 DEF TypeOK, Phases
  <1>15. BornKept
    BY <1>1 DEF BornKept
  <1>16. VersionsExtend
    <2>1. \A t \in head.active : 0 < born'[a][t]
      <3>1. Len(versions[a]) \in DOMAIN versions[a]
        BY <1>3, HeadType
      <3>2. QED
        BY <1>1, <1>3, <1>9, <3>1 DEF NothingFromTheFuture, HeadVersion
    <2>2. QED
      BY <1>9, <1>10, <2>1 DEF VersionsExtend
  <1>17. NothingFromTheFuture' /\ EvaluateBeforeUpdate'
    <2>1. \A x \in Arms, t \in Specs :
            /\ born'[x][t] \in Nat
            /\ born'[x][t] <= case_index'
            /\ \A d \in anchors'[x][t].cases : d <= case_index'
      <3>1. born' = born /\ anchors' = anchors /\ case_index' = case_index
        BY <1>1, <1>12
      <3>2. QED
        BY <1>3, <3>1, BornByNow
    <2>2. \A e \in evidence' \ evidence :
            /\ e.case <= case_index
            /\ e.kind = "runtime_execution" => ReadBeforeCase(e)
      BY <1>4, <1>5
    <2>3. case_index' \in Nat /\ case_index <= case_index'
      BY <1>3, <1>12
    <2>4. QED
      BY <1>13, <1>15, <1>16, <2>1, <2>2, <2>3, StoreKept
  <1>18. PendingReadHead'
    BY <1>12 DEF PendingReadHead
  <1>19. QED
    BY <1>12, <1>13, <1>14, <1>17, <1>18 DEF Inductive

\* A late anchor replay leaves the replay rows before it, and commits
\* nothing.
LEMMA RejectReplayInductive ==
  ASSUME Inductive, NEW a \in UpdatingArms, NEW s \in Specs, RejectReplay(a, s)
  PROVE  Inductive'
PROOF
  <1>1. PICK replay \in Replays(a, s), audited \in SUBSET AnchorCases(a, s) :
          /\ evidence' = evidence \cup ReplayRows(a, s, replay, audited)
          /\ phase' = "aborted"
          /\ UNCHANGED <<arm, outcome, tapes, born, versions, lifecycle, anchors,
                         regressions, auditing>>
    <2>1. PICK replay \in Replays(a, s) : \E late :
            evidence' = evidence \cup
              ReplayRows(a, s, replay, {c \in AnchorCases(a, s) : c < Min(late)})
      BY DEF RejectReplay
    <2>2. PICK late : evidence' = evidence \cup
            ReplayRows(a, s, replay, {c \in AnchorCases(a, s) : c < Min(late)})
      BY <2>1
    <2>3. {c \in AnchorCases(a, s) : c < Min(late)} \in SUBSET AnchorCases(a, s)
      OBVIOUS
    <2>4. QED
      BY <2>2, <2>3 DEF RejectReplay
  <1> DEFINE rows == ReplayRows(a, s, replay, audited)
  <1>2. /\ IsFiniteSet(rows) /\ rows \subseteq EvidenceEvents
        /\ \A e \in rows : e.case <= case_index /\ e.kind # "runtime_execution"
    BY ReplayRowsKind DEF UpdatingArms
  <1>3. QED
    <2> HIDE DEF rows
    <2>1. evidence' = evidence \cup rows
      BY <1>1 DEF rows
    <2>2. QED
      BY <1>1, <1>2, <2>1, RejectionInductive

-----------------------------------------------------------------------------
(* The theorems.                                                           *)

\* Every step keeps the inductive invariant.
LEMMA InductiveStep == Inductive /\ [Next]_vars => Inductive'
PROOF
  <1> SUFFICES ASSUME Inductive, [Next]_vars PROVE Inductive'
    OBVIOUS
  <1>1. CASE EvaluateCase
    BY <1>1, EvaluateCaseInductive
  <1>2. CASE \E a \in Arms : CommitArm(a) \/ RejectEvidence(a) \/ RejectTape(a)
    BY <1>2, CommitArmInductive, RejectEvidenceInductive, RejectTapeInductive
  <1>3. CASE \E a \in UpdatingArms : EndPromotion(a)
    BY <1>3, EndPromotionInductive
  <1>4. CASE \E a \in UpdatingArms, s \in Specs :
               Promote(a, s) \/ AuditRevision(a, s) \/ RejectReplay(a, s)
    BY <1>4, PromoteInductive, AuditRevisionInductive, RejectReplayInductive
  <1>5. CASE UNCHANGED vars
    BY <1>5 DEF vars, Inductive, TypeOK, NothingFromTheFuture, PendingReadHead,
                PendingArms, EvaluateBeforeUpdate, ReadBeforeCase, HeadVersion, case_index
  <1>6. QED
    BY <1>1, <1>2, <1>3, <1>4, <1>5 DEF Next, Step, Finished

\* Every behaviour of the loop keeps the inductive invariant.
THEOREM InductiveHolds == Spec => []Inductive
BY InductiveInit, InductiveStep, PTL DEF Spec

\* Type correctness, for every stream of cases, set of specs, discovery and
\* rollout behaviour.
THEOREM TypeCorrect == Spec => []TypeOK
PROOF
  <1>1. Inductive => TypeOK
    BY DEF Inductive
  <1>2. QED
    BY InductiveHolds, <1>1, PTL

\* Evaluate before update: in every reachable state, also after an exception in
\* the middle of a commit, no runtime row of the ledger comes from a library
\* version that its own or a later case had changed.
THEOREM LeakFree == Spec => []EvaluateBeforeUpdate
PROOF
  <1>1. Inductive => EvaluateBeforeUpdate
    BY DEF Inductive
  <1>2. QED
    BY InductiveHolds, <1>1, PTL

-----------------------------------------------------------------------------
(* The store only grows.                                                   *)

\* A revision with an anchor set is past its promotion for good, a retired one
\* is not active, and whatever a head or a pending audit holds has a producing
\* case.
Settled ==
  \A a \in Arms : \A s \in Specs :
    /\ anchors[a][s].cases # {} =>
         s \in HeadVersion(a).stable \cup HeadVersion(a).retired
    /\ s \in HeadVersion(a).retired => s \notin HeadVersion(a).active
    /\ \/ s \in HeadVersion(a).active
       \/ s \in HeadVersion(a).stable
       \/ s \in HeadVersion(a).retired
       \/ <<a, s>> \in auditing
       => born[a][s] # 0

\* What AppendOnly says of one step.
Grows ==
  /\ evidence \subseteq evidence' /\ lifecycle \subseteq lifecycle'
  /\ \A a \in Arms : /\ IsPrefix(versions[a], versions'[a])
                     /\ HeadVersion(a).retired \subseteq HeadVersion(a)'.retired
  /\ \A a \in Arms, s \in Specs :
       /\ born[a][s] # 0 => born'[a][s] = born[a][s]
       /\ anchors[a][s].cases # {} => anchors'[a][s] = anchors[a][s]

\* A commit gives its arm a new head and leaves every chain a prefix.
LEMMA CommitHead ==
  ASSUME TypeOK, NEW a \in Arms, NEW v, CommitVersion(a, v)
  PROVE  /\ HeadVersion(a)' = v
         /\ \A x \in Arms \ {a} : HeadVersion(x)' = HeadVersion(x)
         /\ \A x \in Arms : IsPrefix(versions[x], versions'[x])
PROOF
  <1> DEFINE S == Versions \cup {v}
  <1>1. /\ versions \in [Arms -> Seq(Versions)]
        /\ versions[a] \in Seq(S) /\ v \in S
    BY SeqMonotonic DEF TypeOK
  <1>2. /\ versions'[a] = Append(versions[a], v)
        /\ \A x \in Arms \ {a} : versions'[x] = versions[x]
    BY <1>1 DEF CommitVersion
  <1> HIDE DEF S
  <1>3. /\ Len(versions[a]) \in Nat
        /\ versions'[a] \in Seq(S) /\ Len(versions'[a]) = Len(versions[a]) + 1
        /\ \A k \in 1..Len(versions[a]) : versions'[a][k] = versions[a][k]
        /\ versions'[a][Len(versions[a]) + 1] = v
    BY <1>1, <1>2, AppendProperties, LenProperties
  <1>4. IsPrefix(versions[a], versions'[a])
    <2>1. versions[a] = SubSeq(versions[a], 1, Len(versions[a]))
      BY <1>1, SubSeqFull
    <2>2. SubSeq(versions'[a], 1, Len(versions[a])) = versions[a]
      <3>1. /\ SubSeq(versions'[a], 1, Len(versions[a])) \in Seq(S)
            /\ Len(SubSeq(versions'[a], 1, Len(versions[a]))) = Len(versions[a])
            /\ \A k \in 1..Len(versions[a]) :
                 SubSeq(versions'[a], 1, Len(versions[a]))[k] = versions'[a][k]
        <4>1. \A k \in 1..Len(versions[a]) : versions'[a][k] \in S
          BY <1>3, ElementOfSeq
        <4>2. QED
          BY <1>3, <4>1, SubSeqProperties
      <3>2. QED
        BY <1>1, <1>3, <3>1, SeqEqual
    <2>3. QED
      BY <1>3, <2>1, <2>2 DEF IsPrefix
  <1>5. \A x \in Arms \ {a} : Len(versions[x]) \in Nat
    BY HeadType
  <1>6. \A x \in Arms \ {a} : IsPrefix(versions[x], versions'[x])
    BY <1>2, <1>5 DEF IsPrefix
  <1>7. HeadVersion(a)' = v
    BY <1>3 DEF HeadVersion
  <1>8. \A x \in Arms \ {a} : HeadVersion(x)' = HeadVersion(x)
    BY <1>2 DEF HeadVersion
  <1>9. QED
    BY <1>4, <1>6, <1>7, <1>8

\* Steps that at most add rows of evidence, or take up the stable revisions.
LEMMA OnlyRows ==
  ASSUME TypeOK, Settled, evidence \subseteq evidence',
         auditing' \subseteq auditing \cup StableRevisions,
         UNCHANGED <<born, versions, lifecycle, anchors>>
  PROVE  Settled' /\ Grows
PROOF
  <1>1. \A x \in Arms : HeadVersion(x)' = HeadVersion(x)
    BY DEF HeadVersion
  <1>2. \A x \in Arms : Len(versions[x]) \in Nat
    BY HeadType
  <1>3. \A x \in Arms : IsPrefix(versions[x], versions'[x])
    BY <1>2 DEF IsPrefix
  <1>4. Grows
    BY <1>1, <1>3 DEF Grows
  <1>5. \A x \in Arms, s \in Specs :
          <<x, s>> \in auditing' => <<x, s>> \in auditing \/ s \in HeadVersion(x).stable
    BY DEF StableRevisions
  <1>6. Settled'
    BY <1>1, <1>5 DEF Settled
  <1>7. QED
    BY <1>4, <1>6

\* Steps that give one arm a new head.
LEMMA OneHeadSettles ==
  ASSUME Settled, NEW a \in Arms, NEW head, HeadVersion(a)' = head,
         \A x \in Arms \ {a} : /\ HeadVersion(x)' = HeadVersion(x)
                               /\ born'[x] = born[x] /\ anchors'[x] = anchors[x],
         auditing' \subseteq auditing,
         \A t \in Specs :
           /\ anchors'[a][t].cases # {} => t \in head.stable \cup head.retired
           /\ t \in head.retired => t \notin head.active
           /\ \/ t \in head.active \/ t \in head.stable \/ t \in head.retired
              \/ <<a, t>> \in auditing
              => born'[a][t] # 0
  PROVE  Settled'
PROOF
  <1> SUFFICES ASSUME NEW x \in Arms, NEW t \in Specs
               PROVE  /\ anchors'[x][t].cases # {} =>
                           t \in HeadVersion(x)'.stable \cup HeadVersion(x)'.retired
                      /\ t \in HeadVersion(x)'.retired => t \notin HeadVersion(x)'.active
                      /\ \/ t \in HeadVersion(x)'.active
                         \/ t \in HeadVersion(x)'.stable
                         \/ t \in HeadVersion(x)'.retired
                         \/ <<x, t>> \in auditing'
                         => born'[x][t] # 0
    BY DEF Settled
  <1>1. CASE x = a
    BY <1>1
  <1>2. CASE x # a
    <2>1. /\ HeadVersion(x)' = HeadVersion(x)
          /\ born'[x] = born[x] /\ anchors'[x] = anchors[x]
      BY <1>2
    <2>2. /\ anchors[x][t].cases # {} => t \in HeadVersion(x).stable \cup HeadVersion(x).retired
          /\ t \in HeadVersion(x).retired => t \notin HeadVersion(x).active
          /\ \/ t \in HeadVersion(x).active
             \/ t \in HeadVersion(x).stable
             \/ t \in HeadVersion(x).retired
             \/ <<x, t>> \in auditing
             => born[x][t] # 0
      BY DEF Settled
    <2>3. QED
      BY <2>1, <2>2
  <1>3. QED
    BY <1>1, <1>2

\* New revisions had no producing case, so they are not retired ones; the
\* stable ones are never failing.
LEMMA CommitArmGrows ==
  ASSUME Inductive, Settled, NEW a \in Arms, CommitArm(a)
  PROVE  Settled' /\ Grows
PROOF
  <1> DEFINE c == case_index
             v == HeadVersion(a)
             next == Len(versions[a]) + 1
             rows == evidence \cup RunRows(a, c, Len(outcome[a].run))
                              \cup TapeRows(a, c, TapeSize(a, c))
             novel == Novel(a, c)
             failing == {s \in (v.active \cup novel) \ v.stable :
                           ShouldRetireProvisional(Won(rows, a, s), Lost(rows, a, s))}
             active == (v.active \cup novel) \ failing
             weights == [s \in Specs |->
                           IF s \in active THEN Posterior(rows, a, s) ELSE Prior]
             head == [active |-> active, stable |-> v.stable,
                      retired |-> v.retired \cup failing, weights |-> weights,
                      after |-> c, cause |-> "case"]
  <1>1. /\ phase = "commit" /\ a = EVOLUTION_ARMS[arm]
        /\ evidence' = rows
        /\ born' = [born EXCEPT ![a] = [s \in Specs |-> IF s \in novel THEN c ELSE @[s]]]
        /\ CommitVersion(a, head)
        /\ lifecycle \subseteq lifecycle'
        /\ UNCHANGED <<anchors, auditing>>
    BY DEF CommitArm
  <1>2. TypeOK /\ c \in 1..N
    BY <1>1, TurnPending DEF Inductive
  <1>3. \A s \in novel : born[a][s] = 0
    BY DEF Novel
  <1>4. /\ failing \subseteq (v.active \cup novel) \ v.stable
        /\ evidence \subseteq rows
    OBVIOUS
  <1> HIDE DEF rows, novel, failing, weights
  <1>5. /\ head.active = active /\ head.stable = v.stable
        /\ head.retired = v.retired \cup failing
    OBVIOUS
  <1> HIDE DEF head
  <1>6. /\ HeadVersion(a)' = head
        /\ \A x \in Arms \ {a} : HeadVersion(x)' = HeadVersion(x)
        /\ \A x \in Arms : IsPrefix(versions[x], versions'[x])
    BY <1>1, <1>2, CommitHead
  <1>7. /\ \A s \in Specs : born'[a][s] = IF s \in novel THEN c ELSE born[a][s]
        /\ \A x \in Arms \ {a} : born'[x] = born[x]
    BY <1>1, <1>2 DEF TypeOK
  <1>8. Grows
    BY <1>1, <1>3, <1>4, <1>5, <1>6, <1>7 DEF Grows
  <1>9. ASSUME NEW s \in Specs
        PROVE  /\ anchors[a][s].cases # {} => s \in head.stable \cup head.retired
               /\ s \in head.retired => s \notin head.active
               /\ \/ s \in head.active \/ s \in head.stable \/ s \in head.retired
                  \/ <<a, s>> \in auditing
                  => born'[a][s] # 0
    <2>1. /\ anchors[a][s].cases # {} => s \in v.stable \cup v.retired
          /\ s \in v.retired => s \notin v.active
          /\ \/ s \in v.active \/ s \in v.stable \/ s \in v.retired
             \/ <<a, s>> \in auditing
             => born[a][s] # 0
      BY DEF Settled
    <2> HIDE DEF v
    <2>2. s \in head.retired => s \notin head.active
      BY <1>3, <1>5, <2>1
    <2>3. s \in head.active \/ s \in head.stable \/ s \in head.retired
          => s \in v.active \/ s \in v.stable \/ s \in v.retired \/ s \in novel
      BY <1>4, <1>5
    <2>4. s \in novel => born'[a][s] # 0
      BY <1>2, <1>7
    <2>5. s \notin novel => born'[a][s] = born[a][s]
      BY <1>7
    <2>6. QED
      BY <1>5, <2>1, <2>2, <2>3, <2>4, <2>5
  <1>10. Settled'
    BY <1>1, <1>6, <1>7, <1>9, OneHeadSettles
  <1>11. QED
    BY <1>8, <1>10

\* An eligible revision is active and provisional, so it has no anchor set yet.
LEMMA PromoteGrows ==
  ASSUME Inductive, Settled, NEW a \in UpdatingArms, NEW s \in Specs, Promote(a, s)
  PROVE  Settled' /\ Grows
PROOF
  <1> DEFINE v == HeadVersion(a)
             head == [v EXCEPT !.stable = @ \cup {s}, !.after = case_index,
                               !.cause = "promotion"]
  <1>1. /\ CommitVersion(a, head) /\ lifecycle \subseteq lifecycle'
        /\ \E set : anchors' = [anchors EXCEPT ![a][s] = set]
        /\ s \in v.active \ v.stable
        /\ UNCHANGED <<born, evidence, auditing>>
    BY DEF Promote, Eligible
  <1>2. TypeOK /\ a \in Arms /\ v \in Versions
    BY HeadType DEF Inductive, UpdatingArms
  <1>3. /\ head.active = v.active /\ head.stable = v.stable \cup {s}
        /\ head.retired = v.retired
    BY <1>2 DEF Versions
  <1> HIDE DEF head
  <1>4. /\ HeadVersion(a)' = head
        /\ \A x \in Arms \ {a} : HeadVersion(x)' = HeadVersion(x)
        /\ \A x \in Arms : IsPrefix(versions[x], versions'[x])
    BY <1>1, <1>2, CommitHead
  <1>5. \A x \in Arms, t \in Specs : <<x, t>> # <<a, s>> => anchors'[x][t] = anchors[x][t]
    BY <1>1, <1>2 DEF TypeOK
  <1>6. anchors[a][s].cases = {} /\ born[a][s] # 0 /\ s \notin v.retired
    BY <1>1, <1>2 DEF Settled
  <1>7. Grows
    BY <1>1, <1>3, <1>4, <1>5, <1>6 DEF Grows
  <1>8. ASSUME NEW t \in Specs
        PROVE  /\ anchors'[a][t].cases # {} => t \in head.stable \cup head.retired
               /\ t \in head.retired => t \notin head.active
               /\ \/ t \in head.active \/ t \in head.stable \/ t \in head.retired
                  \/ <<a, t>> \in auditing
                  => born[a][t] # 0
    <2>1. /\ anchors[a][t].cases # {} => t \in v.stable \cup v.retired
          /\ t \in v.retired => t \notin v.active
          /\ \/ t \in v.active \/ t \in v.stable \/ t \in v.retired
             \/ <<a, t>> \in auditing
             => born[a][t] # 0
      BY <1>2 DEF Settled
    <2> HIDE DEF v
    <2>2. CASE t = s
      BY <1>3, <1>6, <2>1, <2>2
    <2>3. CASE t # s
      BY <1>2, <1>3, <1>5, <2>1, <2>3
    <2>4. QED
      BY <2>2, <2>3
  <1>9. Settled'
    <2>1. \A x \in Arms \ {a} : anchors'[x] = anchors[x]
      BY <1>1, <1>2 DEF TypeOK
    <2>2. QED
      BY <1>1, <1>2, <1>4, <1>8, <2>1, OneHeadSettles
  <1>10. QED
    BY <1>7, <1>9

\* A retirement moves a revision out of the active set into the retired one.
LEMMA AuditGrows ==
  ASSUME Inductive, Settled, NEW a \in UpdatingArms, NEW s \in Specs, AuditRevision(a, s)
  PROVE  Settled' /\ Grows
PROOF
  <1>1. /\ evidence \subseteq evidence' /\ UNCHANGED <<born, anchors>>
        /\ Retire(a, s) \/ UNCHANGED <<versions, lifecycle>>
        /\ <<a, s>> \in auditing /\ auditing' \subseteq auditing
    BY DEF AuditRevision, NextToAudit
  <1>2. TypeOK /\ a \in Arms /\ HeadVersion(a) \in Versions
    BY HeadType DEF Inductive, UpdatingArms
  <1>3. CASE UNCHANGED <<versions, lifecycle>>
    BY <1>1, <1>2, <1>3, OnlyRows
  <1>4. CASE Retire(a, s)
    <2> DEFINE v == HeadVersion(a)
               head == [v EXCEPT !.active = @ \ {s}, !.stable = @ \ {s},
                                 !.retired = @ \cup {s}, !.after = case_index,
                                 !.cause = "checkpoint"]
    <2>1. CommitVersion(a, head) /\ lifecycle \subseteq lifecycle'
      BY <1>4 DEF Retire
    <2>2. /\ head.active = v.active \ {s} /\ head.stable = v.stable \ {s}
          /\ head.retired = v.retired \cup {s}
      BY <1>2 DEF Versions
    <2> HIDE DEF head
    <2>3. /\ HeadVersion(a)' = head
          /\ \A x \in Arms \ {a} : HeadVersion(x)' = HeadVersion(x)
          /\ \A x \in Arms : IsPrefix(versions[x], versions'[x])
      BY <1>2, <2>1, CommitHead
    <2>4. Grows
      BY <1>1, <2>1, <2>2, <2>3 DEF Grows
    <2>5. ASSUME NEW t \in Specs
          PROVE  /\ anchors[a][t].cases # {} => t \in head.stable \cup head.retired
                 /\ t \in head.retired => t \notin head.active
                 /\ \/ t \in head.active \/ t \in head.stable \/ t \in head.retired
                    \/ <<a, t>> \in auditing
                    => born[a][t] # 0
      <3>1. /\ anchors[a][t].cases # {} => t \in v.stable \cup v.retired
            /\ t \in v.retired => t \notin v.active
            /\ \/ t \in v.active \/ t \in v.stable \/ t \in v.retired
               \/ <<a, t>> \in auditing
               => born[a][t] # 0
        BY <1>2 DEF Settled
      <3> HIDE DEF v
      <3>2. QED
        BY <1>1, <2>2, <3>1
    <2>6. Settled'
      BY <1>1, <1>2, <2>3, <2>5, OneHeadSettles
    <2>7. QED
      BY <2>4, <2>6
  <1>5. QED
    BY <1>1, <1>3, <1>4

LEMMA SettledInit == Init => Settled
BY DEF Init, Settled, HeadVersion, EmptyVersion, NoAnchors

LEMMA SettledStep == Inductive /\ Settled /\ [Next]_vars => Settled' /\ Grows
PROOF
  <1> SUFFICES ASSUME Inductive, Settled, [Next]_vars PROVE Settled' /\ Grows
    OBVIOUS
  <1>0. TypeOK
    BY DEF Inductive
  <1>1. CASE EvaluateCase
    BY <1>0, <1>1, OnlyRows DEF EvaluateCase, ledger
  <1>2. ASSUME NEW a \in Arms, CommitArm(a) \/ RejectEvidence(a) \/ RejectTape(a)
        PROVE  Settled' /\ Grows
    <2>1. CASE CommitArm(a)
      BY <2>1, CommitArmGrows
    <2>2. CASE RejectEvidence(a)
      BY <1>0, <2>2, OnlyRows DEF RejectEvidence
    <2>3. CASE RejectTape(a)
      BY <1>0, <2>3, OnlyRows DEF RejectTape
    <2>4. QED
      BY <1>2, <2>1, <2>2, <2>3
  <1>3. ASSUME NEW a \in UpdatingArms, EndPromotion(a) PROVE Settled' /\ Grows
    BY <1>0, <1>3, OnlyRows DEF EndPromotion, ledger
  <1>4. ASSUME NEW a \in UpdatingArms, NEW s \in Specs,
               Promote(a, s) \/ AuditRevision(a, s) \/ RejectReplay(a, s)
        PROVE  Settled' /\ Grows
    <2>1. CASE RejectReplay(a, s)
      BY <1>0, <2>1, OnlyRows DEF RejectReplay
    <2>2. QED
      BY <1>4, <2>1, PromoteGrows, AuditGrows
  <1>5. CASE UNCHANGED vars
    BY <1>0, <1>5, OnlyRows DEF vars
  <1>6. QED
    BY <1>1, <1>2, <1>3, <1>4, <1>5 DEF Next, Step, Finished

\* No step of the loop, not even one that an exception cuts short, rewrites what
\* the store holds: versions, rows and events are only appended, a producing case
\* and an anchor set are fixed for good, and no revision leaves retirement.
THEOREM StoreIsAppendOnly == Spec => AppendOnly
PROOF
  <1>1. Inductive /\ Settled /\ [Next]_vars => [Grows]_vars
    BY SettledStep
  <1>2. Grows =>
          /\ evidence \subseteq evidence' /\ lifecycle \subseteq lifecycle'
          /\ \A a \in Arms : /\ IsPrefix(versions[a], versions'[a])
                             /\ HeadVersion(a).retired \subseteq HeadVersion(a)'.retired
          /\ \A a \in Arms, s \in Specs :
               /\ born[a][s] # 0 => born'[a][s] = born[a][s]
               /\ anchors[a][s].cases # {} => anchors'[a][s] = anchors[a][s]
    BY DEF Grows
  <1>3. QED
    BY <1>1, <1>2, SettledInit, SettledStep, InductiveHolds, PTL DEF Spec, AppendOnly

-----------------------------------------------------------------------------
(* Every posterior is a replay of the ledger.                              *)

\* The ledger as it stood after case c.
Upto(E, c) == {e \in E : e.case <= c}

\* A version's posteriors count the ledger up to the version's case.
Replayed(E, a, v) ==
  \A s \in v.active : v.weights[s] = Posterior(Upto(E, v.after), a, s)

\* Chains follow the cases, and an arm that has committed the current case has a
\* head of that case: a row still to come is of a later case than any version.
Tallied ==
  /\ \A a \in Arms : \A k \in DOMAIN versions[a] : Replayed(evidence, a, versions[a][k])
  /\ \A a \in Arms : \A k \in DOMAIN versions[a] :
       versions[a][k].after <= HeadVersion(a).after
  /\ phase \in {"promote", "audit"} => \A a \in Arms : HeadVersion(a).after = case_index
  /\ phase = "commit" => \A a \in Arms \ PendingArms : HeadVersion(a).after = case_index

\* New rows that are no runs, or runs of a later case, leave an earlier count.
LEMMA LaterRowsKeep ==
  ASSUME NEW E, NEW F, E \subseteq F, NEW a, NEW v,
         \A e \in F : \/ e \in E \/ e.arm # a \/ e.kind # "runtime_execution"
                      \/ ~(e.case <= v.after),
         Replayed(E, a, v)
  PROVE  Replayed(F, a, v)
PROOF
  <1>1. ASSUME NEW s
        PROVE  Posterior(Upto(F, v.after), a, s) = Posterior(Upto(E, v.after), a, s)
    <2>1. RuntimeRows(Upto(F, v.after), a, s) = RuntimeRows(Upto(E, v.after), a, s)
      BY DEF RuntimeRows, Upto
    <2>2. QED
      BY <2>1 DEF Posterior, Won, Lost
  <1>2. QED
    BY <1>1 DEF Replayed

\* What a step does to the chains and the ledger, as the counts need it.
LEMMA CountsKept ==
  ASSUME TypeOK, Tallied, evidence \subseteq evidence',
         \A e \in evidence' :
           \/ e \in evidence \/ e.kind # "runtime_execution"
           \/ \A k \in DOMAIN versions[e.arm] : ~(e.case <= versions[e.arm][k].after),
         \A x \in Arms :
           \/ versions'[x] = versions[x]
           \/ \E w \in Versions : /\ versions'[x] = Append(versions[x], w)
                                  /\ w.after = case_index
                                  /\ Replayed(evidence', x, w),
         NothingFromTheFuture
  PROVE  /\ \A a \in Arms : \A k \in DOMAIN versions'[a] :
              Replayed(evidence', a, versions'[a][k])
         /\ \A a \in Arms : \A k \in DOMAIN versions'[a] :
              versions'[a][k].after <= HeadVersion(a)'.after
PROOF
  <1> SUFFICES ASSUME NEW a \in Arms, NEW k \in DOMAIN versions'[a]
               PROVE  /\ Replayed(evidence', a, versions'[a][k])
                      /\ versions'[a][k].after <= HeadVersion(a)'.after
    OBVIOUS
  <1>1. \A j \in DOMAIN versions[a] : Replayed(evidence', a, versions[a][j])
    <2>1. ASSUME NEW j \in DOMAIN versions[a] PROVE Replayed(evidence', a, versions[a][j])
      <3>1. \A e \in evidence' :
              \/ e \in evidence \/ e.arm # a \/ e.kind # "runtime_execution"
              \/ ~(e.case <= versions[a][j].after)
        OBVIOUS
      <3>2. Replayed(evidence, a, versions[a][j])
        BY DEF Tallied
      <3>3. QED
        BY <3>1, <3>2, LaterRowsKeep
    <2>2. QED
      BY <2>1
  <1>2. CASE versions'[a] = versions[a]
    BY <1>1, <1>2 DEF Tallied, HeadVersion
  <1>3. ASSUME NEW w \in Versions, versions'[a] = Append(versions[a], w),
               w.after = case_index, Replayed(evidence', a, w)
        PROVE  /\ Replayed(evidence', a, versions'[a][k])
               /\ versions'[a][k].after <= HeadVersion(a)'.after
    <2>1. /\ versions[a] \in Seq(Versions) /\ Len(versions[a]) \in Nat
          /\ DOMAIN versions[a] = 1..Len(versions[a])
      BY HeadType DEF TypeOK
    <2>2. /\ DOMAIN versions'[a] = 1..(Len(versions[a]) + 1)
          /\ Len(versions'[a]) = Len(versions[a]) + 1
          /\ \A j \in 1..Len(versions[a]) : versions'[a][j] = versions[a][j]
          /\ versions'[a][Len(versions[a]) + 1] = w
      BY <1>3, <2>1, AppendProperties, LenProperties
    <2>3. HeadVersion(a)' = w
      BY <2>2 DEF HeadVersion
    <2>4. CASE k \in 1..Len(versions[a])
      <3>1. versions[a][k].after <= case_index
        BY <2>1, <2>4 DEF NothingFromTheFuture
      <3>2. QED
        BY <1>1, <1>3, <2>1, <2>2, <2>3, <2>4, <3>1
    <2>5. CASE k = Len(versions[a]) + 1
      <3>1. case_index \in Nat
        BY CaseIndexType
      <3>2. QED
        BY <1>3, <2>2, <2>3, <2>5, <3>1
    <2>6. QED
      BY <2>1, <2>2, <2>4, <2>5
  <1>4. QED
    BY <1>2, <1>3

\* The rows of the arm at its turn are of a later case than all its versions.
LEMMA TurnIsLater ==
  ASSUME Inductive, Tallied, phase = "commit", NEW a \in Arms, a = EVOLUTION_ARMS[arm]
  PROVE  \A k \in DOMAIN versions[a] : ~(case_index <= versions[a][k].after)
PROOF
  <1>1. HeadVersion(a).after < case_index /\ case_index \in Nat
    BY TurnPending
  <1>2. \A k \in DOMAIN versions[a] : versions[a][k].after <= HeadVersion(a).after
    BY DEF Tallied
  <1>3. /\ HeadVersion(a).after \in Nat
        /\ \A k \in DOMAIN versions[a] : versions[a][k].after \in Nat
    BY HeadType DEF Inductive, Versions
  <1>4. QED
    BY <1>1, <1>2, <1>3

LEMMA InitTallied == Init => Tallied
PROOF
  <1> SUFFICES ASSUME Init PROVE Tallied
    OBVIOUS
  <1>1. \A a \in Arms : versions[a] = <<EmptyVersion>>
    BY DEF Init
  <1>2. \A a \in Arms : /\ DOMAIN versions[a] = 1..1 /\ versions[a][1] = EmptyVersion
                        /\ HeadVersion(a) = EmptyVersion
    BY <1>1 DEF HeadVersion
  <1>3. EmptyVersion.active = {} /\ EmptyVersion.after = 0
    BY DEF EmptyVersion
  <1>4. phase \in {"evaluate", "done"}
    BY DEF Init, NextCase
  <1>5. QED
    BY <1>2, <1>3, <1>4 DEF Tallied, Replayed

\* Steps that leave the chains alone and at most add rows.
LEMMA RowsTallied ==
  ASSUME TypeOK, NothingFromTheFuture, Tallied, UNCHANGED versions,
         evidence \subseteq evidence',
         \A e \in evidence' :
           \/ e \in evidence \/ e.kind # "runtime_execution"
           \/ \A k \in DOMAIN versions[e.arm] : ~(e.case <= versions[e.arm][k].after),
         \/ phase' \notin {"promote", "audit", "commit"}
         \/ /\ phase \in {"promote", "audit"} /\ phase' \in {"promote", "audit"}
            /\ tapes' = tapes
  PROVE  Tallied'
PROOF
  <1>1. /\ \A a \in Arms : \A k \in DOMAIN versions'[a] :
              Replayed(evidence', a, versions'[a][k])
        /\ \A a \in Arms : \A k \in DOMAIN versions'[a] :
              versions'[a][k].after <= HeadVersion(a)'.after
    BY CountsKept
  <1>2. \A a : HeadVersion(a)' = HeadVersion(a)
    BY DEF HeadVersion
  <1>3. phase' \in {"promote", "audit"} => \A a \in Arms : HeadVersion(a)'.after = case_index'
    BY <1>2 DEF Tallied, case_index
  <1>4. phase' # "commit"
    OBVIOUS
  <1>5. QED
    BY <1>1, <1>3, <1>4 DEF Tallied

LEMMA EvaluateTallied == ASSUME Inductive, Tallied, EvaluateCase PROVE Tallied'
PROOF
  <1>1. /\ UNCHANGED <<versions, evidence>> /\ phase' = "commit" /\ arm' = 1
    BY DEF EvaluateCase, ledger
  <1>2. /\ \A a \in Arms : \A k \in DOMAIN versions'[a] :
              Replayed(evidence', a, versions'[a][k])
        /\ \A a \in Arms : \A k \in DOMAIN versions'[a] :
              versions'[a][k].after <= HeadVersion(a)'.after
    BY <1>1, CountsKept DEF Inductive
  <1>3. Arms \ PendingArms' = {}
    <2>1. 1 \in arm'..3 /\ 2 \in arm'..3 /\ 3 \in arm'..3
      BY <1>1
    <2>2. /\ EVOLUTION_ARMS[1] = "patterned" /\ EVOLUTION_ARMS[2] = "unkeyed_global"
          /\ EVOLUTION_ARMS[3] = "no_update"
      BY DEF EVOLUTION_ARMS
    <2>3. QED
      BY <2>1, <2>2 DEF PendingArms, Arms
  <1>4. QED
    BY <1>1, <1>2, <1>3 DEF Tallied

LEMMA CommitArmTallied ==
  ASSUME Inductive, Tallied, NEW a \in Arms, CommitArm(a)
  PROVE  Tallied'
PROOF
  <1> DEFINE c == case_index
             v == HeadVersion(a)
             ran == RunRows(a, c, Len(outcome[a].run))
             shown == TapeRows(a, c, TapeSize(a, c))
             rows == evidence \cup ran \cup shown
             novel == Novel(a, c)
             failing == {s \in (v.active \cup novel) \ v.stable :
                           ShouldRetireProvisional(Won(rows, a, s), Lost(rows, a, s))}
             active == (v.active \cup novel) \ failing
             weights == [s \in Specs |->
                           IF s \in active THEN Posterior(rows, a, s) ELSE Prior]
             head == [active |-> active, stable |-> v.stable,
                      retired |-> v.retired \cup failing, weights |-> weights,
                      after |-> c, cause |-> "case"]
  <1>1. /\ phase = "commit" /\ a = EVOLUTION_ARMS[arm]
        /\ evidence' = rows /\ CommitVersion(a, head)
        /\ IF arm < Len(EVOLUTION_ARMS)
           THEN arm' = arm + 1 /\ phase' = phase
           ELSE arm' = 1 /\ phase' = "promote"
        /\ tapes' = tapes
    BY DEF CommitArm
  <1>2. /\ TypeOK /\ NothingFromTheFuture /\ Inductive' /\ arm \in 1..3
        /\ case_index' = case_index /\ case_index \in Nat
    BY <1>1, CommitArmInductive, CaseIndexType DEF Inductive, TypeOK, case_index
  <1>3. \A e \in ran \cup shown : e.arm = a /\ e.case = c
    BY DEF RunRows, TapeRows, EvidenceRow
  <1>4. \A e \in evidence' :
           \/ e \in evidence \/ e.kind # "runtime_execution"
           \/ \A k \in DOMAIN versions[e.arm] : ~(e.case <= versions[e.arm][k].after)
    <2>1. \A k \in DOMAIN versions[a] : ~(case_index <= versions[a][k].after)
      BY <1>1, TurnIsLater
    <2> HIDE DEF ran, shown
    <2>2. QED
      BY <1>1, <1>3, <2>1
  <1>5. /\ versions'[a] = Append(versions[a], head)
        /\ \A x \in Arms \ {a} : versions'[x] = versions[x]
    BY <1>1, <1>2 DEF CommitVersion, TypeOK
  <1>6. head \in Versions
    <2>1. versions'[a] \in Seq(Versions) /\ versions[a] \in Seq(Versions \cup {head})
      BY <1>2, SeqMonotonic DEF Inductive, TypeOK
    <2> HIDE DEF head
    <2>2. Len(versions[a]) \in Nat /\ versions'[a][Len(versions[a]) + 1] = head
          /\ Len(versions'[a]) = Len(versions[a]) + 1
      BY <1>5, <2>1, AppendProperties, LenProperties
    <2>3. QED
      BY <2>1, <2>2, ElementOfSeq
  <1>7. Replayed(evidence', a, head)
    <2>1. Upto(evidence', head.after) = evidence'
      <3>1. \A e \in evidence' : e.case <= case_index'
        BY <1>2 DEF Inductive, NothingFromTheFuture
      <3>2. QED
        BY <1>2, <3>1 DEF Upto
    <2>2. active \subseteq Specs
      BY <1>6 DEF Versions
    <2> HIDE DEF active, rows
    <2>3. \A s \in active : weights[s] = Posterior(rows, a, s)
      BY <2>2
    <2>4. head.active = active /\ head.weights = weights
      OBVIOUS
    <2> HIDE DEF head, weights
    <2>5. QED
      BY <1>1, <2>1, <2>3, <2>4 DEF Replayed
  <1>8. head.after = case_index
    OBVIOUS
  <1> HIDE DEF head, rows
  <1>9. evidence \subseteq evidence'
    BY <1>1 DEF rows
  <1>10. /\ \A x \in Arms : \A k \in DOMAIN versions'[x] :
              Replayed(evidence', x, versions'[x][k])
         /\ \A x \in Arms : \A k \in DOMAIN versions'[x] :
              versions'[x][k].after <= HeadVersion(x)'.after
    <2>1. \A x \in Arms :
           \/ versions'[x] = versions[x]
           \/ \E w \in Versions : /\ versions'[x] = Append(versions[x], w)
                                  /\ w.after = case_index
                                  /\ Replayed(evidence', x, w)
      BY <1>5, <1>6, <1>7, <1>8
    <2>2. QED
      BY <1>2, <1>4, <1>9, <2>1, CountsKept
  <1>11. /\ HeadVersion(a)'.after = case_index'
         /\ \A x \in Arms \ {a} : HeadVersion(x)' = HeadVersion(x)
    BY <1>1, <1>2, <1>8, CommitHead
  <1>12. \A x \in Arms \ {a} : x \notin PendingArms => HeadVersion(x).after = case_index
    BY <1>1 DEF Tallied
  <1>13. CASE arm < Len(EVOLUTION_ARMS)
    <2>1. \A x \in Arms \ {a} : x \in PendingArms => x \in PendingArms'
      <3>1. arm' = arm + 1
        BY <1>1, <1>13
      <3>2. ASSUME NEW x \in Arms \ {a}, NEW i \in arm..3, EVOLUTION_ARMS[i] = x
            PROVE  i \in arm'..3
        <4>1. i # arm
          BY <1>1, <3>2
        <4>2. QED
          BY <1>2, <3>1, <4>1
      <3>3. QED
        BY <3>2 DEF PendingArms
    <2>2. \A x \in Arms \ PendingArms' : HeadVersion(x)'.after = case_index'
      BY <1>2, <1>11, <1>12, <2>1
    <2>3. phase' = "commit"
      BY <1>1, <1>13
    <2>4. QED
      BY <1>10, <2>2, <2>3 DEF Tallied
  <1>14. CASE ~(arm < Len(EVOLUTION_ARMS))
    <2>1. PendingArms = {a}
      <3>1. arm = 3
        BY <1>2, <1>14 DEF EVOLUTION_ARMS
      <3>2. arm..3 = {3}
        BY <3>1
      <3>3. QED
        BY <1>1, <3>1, <3>2 DEF PendingArms
    <2>2. \A x \in Arms : HeadVersion(x)'.after = case_index'
      BY <1>2, <1>11, <1>12, <2>1
    <2>3. phase' = "promote"
      BY <1>1, <1>14
    <2>4. QED
      BY <1>10, <2>2, <2>3 DEF Tallied
  <1>15. QED
    BY <1>13, <1>14

\* After the commit of a case a version is copied under the same case, so its
\* posteriors stay those of the head.
LEMMA CopyTallied ==
  ASSUME Inductive, Tallied, phase \in {"promote", "audit"}, NEW a \in Arms,
         NEW w \in Versions, CommitVersion(a, w),
         w.after = case_index, w.weights = HeadVersion(a).weights,
         w.active \subseteq HeadVersion(a).active,
         tapes' = tapes, phase' # "commit", evidence \subseteq evidence',
         \A e \in evidence' : e \in evidence \/ e.kind # "runtime_execution"
  PROVE  Tallied'
PROOF
  <1>1. TypeOK /\ NothingFromTheFuture /\ HeadVersion(a).after = case_index
    BY DEF Inductive, Tallied
  <1>2. /\ versions'[a] = Append(versions[a], w)
        /\ \A x \in Arms \ {a} : versions'[x] = versions[x]
    BY <1>1 DEF CommitVersion, TypeOK
  <1>3. Replayed(evidence', a, w)
    <2>1. Replayed(evidence, a, HeadVersion(a))
      <3>1. Len(versions[a]) \in DOMAIN versions[a]
        BY <1>1, HeadType
      <3>2. QED
        BY <3>1 DEF Tallied, HeadVersion
    <2>2. Replayed(evidence, a, w)
      BY <1>1, <2>1 DEF Replayed
    <2>3. QED
      BY <2>2, LaterRowsKeep
  <1>4. /\ \A x \in Arms : \A k \in DOMAIN versions'[x] :
              Replayed(evidence', x, versions'[x][k])
        /\ \A x \in Arms : \A k \in DOMAIN versions'[x] :
              versions'[x][k].after <= HeadVersion(x)'.after
    <2>1. \A x \in Arms :
           \/ versions'[x] = versions[x]
           \/ \E u \in Versions : /\ versions'[x] = Append(versions[x], u)
                                  /\ u.after = case_index
                                  /\ Replayed(evidence', x, u)
      BY <1>2, <1>3
    <2>2. QED
      BY <1>1, <2>1, CountsKept
  <1>5. \A x \in Arms : HeadVersion(x)'.after = case_index'
    <2>1. HeadVersion(a)' = w /\ \A x \in Arms \ {a} : HeadVersion(x)' = HeadVersion(x)
      BY <1>1, CommitHead
    <2>2. case_index' = case_index /\ \A x \in Arms : HeadVersion(x).after = case_index
      BY DEF case_index, Tallied
    <2>3. QED
      BY <2>1, <2>2
  <1>6. QED
    BY <1>4, <1>5 DEF Tallied

LEMMA PromoteTallied ==
  ASSUME Inductive, Tallied, NEW a \in UpdatingArms, NEW s \in Specs, Promote(a, s)
  PROVE  Tallied'
PROOF
  <1> DEFINE v == HeadVersion(a)
             head == [v EXCEPT !.stable = @ \cup {s}, !.after = case_index,
                               !.cause = "promotion"]
  <1>1. /\ phase = "promote" /\ CommitVersion(a, head)
        /\ UNCHANGED <<phase, tapes, evidence>>
    BY DEF Promote
  <1>2. a \in Arms /\ v \in Versions /\ case_index \in Nat
    BY HeadType, CaseIndexType DEF Inductive, UpdatingArms
  <1>3. /\ head.after = case_index /\ head.weights = v.weights /\ head.active = v.active
        /\ head \in Versions
    BY <1>2 DEF Versions
  <1> HIDE DEF head
  <1>4. QED
    BY <1>1, <1>2, <1>3, CopyTallied

LEMMA AuditTallied ==
  ASSUME Inductive, Tallied, NEW a \in UpdatingArms, NEW s \in Specs, AuditRevision(a, s)
  PROVE  Tallied'
PROOF
  <1> DEFINE v == HeadVersion(a)
             head == [v EXCEPT !.active = @ \ {s}, !.stable = @ \ {s},
                               !.retired = @ \cup {s}, !.after = case_index,
                               !.cause = "checkpoint"]
  <1>1. /\ phase = "audit" /\ phase' \in {"audit", NextCase} /\ tapes' = tapes
        /\ Retire(a, s) \/ UNCHANGED versions
    BY DEF AuditRevision
  <1>2. /\ evidence \subseteq evidence'
        /\ \A e \in evidence' : e \in evidence \/ e.kind # "runtime_execution"
    <2>1. PICK replay \in Replays(a, s) :
            evidence' = evidence \cup ReplayRows(a, s, replay, AnchorCases(a, s))
      BY DEF AuditRevision
    <2>2. QED
      BY <2>1 DEF ReplayRows, EvidenceRow
  <1>3. /\ a \in Arms /\ v \in Versions /\ case_index \in Nat
        /\ TypeOK /\ NothingFromTheFuture
    BY HeadType, CaseIndexType DEF Inductive, UpdatingArms
  <1>4. NextCase \notin {"promote", "audit", "commit"}
    BY DEF NextCase
  <1>5. CASE UNCHANGED versions
    BY <1>1, <1>2, <1>3, <1>4, <1>5, RowsTallied
  <1>6. CASE Retire(a, s)
    <2>1. CommitVersion(a, head)
      BY <1>6 DEF Retire
    <2>2. /\ head.after = case_index /\ head.weights = v.weights
          /\ head.active \subseteq v.active /\ head \in Versions
      BY <1>3 DEF Versions
    <2> HIDE DEF head
    <2>3. phase \in {"promote", "audit"} /\ phase' # "commit"
      BY <1>1, <1>4
    <2>4. QED
      BY <1>1, <1>2, <1>3, <2>1, <2>2, <2>3, CopyTallied
  <1>7. QED
    BY <1>1, <1>5, <1>6

\* What an aborted transaction leaves is either no run or of the current case.
LEMMA RejectionTallied ==
  ASSUME Inductive, Tallied, NEW a \in Arms, RejectEvidence(a) \/ RejectTape(a)
  PROVE  Tallied'
PROOF
  <1>1. /\ phase = "commit" /\ a = EVOLUTION_ARMS[arm] /\ phase' = "aborted"
        /\ UNCHANGED versions /\ evidence \subseteq evidence'
    BY DEF RejectEvidence, RejectTape
  <1>2. \A e \in evidence' : e \in evidence \/ (e.arm = a /\ e.case = case_index)
    BY DEF RejectEvidence, RejectTape, RunRows, TapeRows, EvidenceRow
  <1>3. \A k \in DOMAIN versions[a] : ~(case_index <= versions[a][k].after)
    BY <1>1, TurnIsLater
  <1>4. QED
    BY <1>1, <1>2, <1>3, RowsTallied DEF Inductive

LEMMA StepTallied == Inductive /\ Tallied /\ [Next]_vars => Tallied'
PROOF
  <1> SUFFICES ASSUME Inductive, Tallied, [Next]_vars PROVE Tallied'
    OBVIOUS
  <1>0. TypeOK /\ NothingFromTheFuture
    BY DEF Inductive
  <1>1. CASE EvaluateCase
    BY <1>1, EvaluateTallied
  <1>2. ASSUME NEW a \in Arms, CommitArm(a) \/ RejectEvidence(a) \/ RejectTape(a)
        PROVE  Tallied'
    BY <1>2, CommitArmTallied, RejectionTallied
  <1>3. ASSUME NEW a \in UpdatingArms, EndPromotion(a) PROVE Tallied'
    <2>1. /\ phase = "promote" /\ phase' \in {"promote", "audit", NextCase}
          /\ UNCHANGED <<versions, evidence, tapes>>
      BY <1>3 DEF EndPromotion, ledger
    <2>2. NextCase \notin {"promote", "audit", "commit"}
      BY DEF NextCase
    <2>3. QED
      BY <1>0, <2>1, <2>2, RowsTallied
  <1>4. ASSUME NEW a \in UpdatingArms, NEW s \in Specs,
               Promote(a, s) \/ AuditRevision(a, s) \/ RejectReplay(a, s)
        PROVE  Tallied'
    <2>1. CASE RejectReplay(a, s)
      <3>1. phase' = "aborted" /\ UNCHANGED versions
        BY <2>1 DEF RejectReplay
      <3>2. /\ evidence \subseteq evidence'
            /\ \A e \in evidence' : e \in evidence \/ e.kind # "runtime_execution"
        <4>1. PICK replay \in Replays(a, s), audited \in SUBSET AnchorCases(a, s) :
                evidence' = evidence \cup ReplayRows(a, s, replay, audited)
          BY <2>1 DEF RejectReplay
        <4>2. QED
          BY <4>1 DEF ReplayRows, EvidenceRow
      <3>3. QED
        BY <1>0, <3>1, <3>2, RowsTallied
    <2>2. QED
      BY <1>4, <2>1, PromoteTallied, AuditTallied
  <1>5. CASE UNCHANGED vars
    BY <1>5 DEF vars, Tallied, Replayed, HeadVersion, PendingArms, case_index
  <1>6. QED
    BY <1>1, <1>2, <1>3, <1>4, <1>5 DEF Next, Step, Finished

\* A run of a revision on a case left one row: the version that it names is the
\* last of its arm from before the case.
LEMMA OneRowPerRun ==
  ASSUME TypeOK, EvaluateBeforeUpdate, NEW e \in evidence, NEW f \in evidence,
         e.arm = f.arm, e.spec = f.spec, e.case = f.case, e.success = f.success,
         e.kind = "runtime_execution", f.kind = "runtime_execution"
  PROVE  e = f
PROOF
  <1>1. e \in EvidenceEvents /\ f \in EvidenceEvents /\ ReadBeforeCase(e) /\ ReadBeforeCase(f)
    BY DEF TypeOK, EvaluateBeforeUpdate
  <1>2. e.arm \in Arms /\ e.version \in Nat /\ f.version \in Nat /\ e.case \in Nat
    BY <1>1 DEF EvidenceEvents
  <1> DEFINE chain == versions[e.arm]
  <1>3. /\ e.version \in DOMAIN chain /\ f.version \in DOMAIN chain
        /\ chain[e.version].after < e.case /\ chain[f.version].after < e.case
        /\ \A k \in DOMAIN chain : k > e.version => chain[k].after >= e.case
        /\ \A k \in DOMAIN chain : k > f.version => chain[k].after >= e.case
    BY <1>1 DEF ReadBeforeCase
  <1>4. \A k \in DOMAIN chain : chain[k].after \in Nat
    BY <1>2, HeadType DEF Versions
  <1> HIDE DEF chain
  <1>5. ~(e.version > f.version) /\ ~(f.version > e.version)
    BY <1>2, <1>3, <1>4
  <1>6. e.version = f.version
    BY <1>2, <1>5
  <1>7. QED
    BY <1>1, <1>6 DEF EvidenceEvents

CasesOf(rows) == {e.case : e \in rows}

\* Counting cases is counting rows.
LEMMA CasesAreRows ==
  ASSUME TypeOK, EvaluateBeforeUpdate, IsFiniteSet(evidence), NEW a, NEW s, NEW won,
         NEW rows \in SUBSET evidence,
         \A e \in rows : /\ e.arm = a /\ e.spec = s /\ e.kind = "runtime_execution"
                         /\ e.success = won
  PROVE  Cardinality(CasesOf(rows)) = Cardinality(rows)
PROOF
  <1> DEFINE cases == {e.case : e \in rows}
             f == [e \in rows |-> e.case]
  <1>1. \A e, d \in rows : e.case = d.case => e = d
    BY OneRowPerRun
  <1>2. f \in Bijection(rows, cases)
    <2>1. f \in [rows -> cases]
      OBVIOUS
    <2>2. \A e, d \in rows : f[e] = f[d] => e = d
      BY <1>1
    <2>3. \A x \in cases : \E e \in rows : f[e] = x
      OBVIOUS
    <2> HIDE DEF f, cases
    <2>4. f \in Injection(rows, cases) /\ f \in Surjection(rows, cases)
      BY <2>1, <2>2, <2>3 DEF Injection, Surjection, IsInjective
    <2>5. QED
      BY <2>4 DEF Bijection
  <1>3. IsFiniteSet(rows)
    BY FS_Subset
  <1>4. ExistsBijection(rows, cases)
    BY <1>2 DEF ExistsBijection
  <1> HIDE DEF cases
  <1>5. Cardinality(cases) = Cardinality(rows)
    BY <1>3, <1>4, FS_Bijection
  <1>6. QED
    BY <1>5 DEF cases, CasesOf

LEMMA TalliedReplays == Inductive /\ Tallied => PosteriorReplaysLedger
PROOF
  <1> SUFFICES ASSUME Inductive, Tallied, NEW a \in UpdatingArms,
                      NEW k \in DOMAIN versions[a], NEW s \in versions[a][k].active
               PROVE  LET v == versions[a][k]
                          Tally(won) == Cardinality({e \in evidence :
                            /\ e.arm = a /\ e.spec = s /\ e.kind = "runtime_execution"
                            /\ e.case <= v.after /\ e.success = won})
                      IN  v.weights[s] = [won |-> Tally(TRUE), lost |-> Tally(FALSE)]
    BY DEF PosteriorReplaysLedger
  <1> DEFINE c == versions[a][k].after
             RunsUpto(won) == {e \in evidence :
                              /\ e.arm = a /\ e.spec = s /\ e.kind = "runtime_execution"
                              /\ e.case <= c /\ e.success = won}
             E == Upto(evidence, c)
  <1>1. TypeOK /\ EvaluateBeforeUpdate /\ IsFiniteSet(evidence) /\ a \in Arms
    BY DEF Inductive, UpdatingArms
  <1>2. \A e \in evidence : e.success \in BOOLEAN
    BY <1>1 DEF TypeOK, EvidenceEvents
  <1>3. versions[a][k].weights[s] = Posterior(E, a, s)
    BY <1>1 DEF Tallied, Replayed
  <1>4. /\ {r \in RuntimeRows(E, a, s) : r.success} = RunsUpto(TRUE)
        /\ {r \in RuntimeRows(E, a, s) : ~r.success} = RunsUpto(FALSE)
    BY <1>2, Zenon DEF RuntimeRows, Upto
  <1>5. /\ Won(E, a, s) = CasesOf(RunsUpto(TRUE))
        /\ Lost(E, a, s) = CasesOf(RunsUpto(FALSE))
    BY <1>4 DEF Won, Lost, CasesOf
  <1>6. ASSUME NEW won \in BOOLEAN
        PROVE  Cardinality(CasesOf(RunsUpto(won))) = Cardinality(RunsUpto(won))
    <2> DEFINE rows == RunsUpto(won)
    <2>1. /\ rows \in SUBSET evidence
          /\ \A e \in rows : /\ e.arm = a /\ e.spec = s /\ e.kind = "runtime_execution"
                            /\ e.success = won
      OBVIOUS
    <2> HIDE DEF rows
    <2>2. Cardinality(CasesOf(rows)) = Cardinality(rows)
      BY <1>1, <2>1, CasesAreRows
    <2>3. QED
      BY <2>2 DEF rows
  <1>7. /\ Cardinality(Won(E, a, s)) = Cardinality(RunsUpto(TRUE))
        /\ Cardinality(Lost(E, a, s)) = Cardinality(RunsUpto(FALSE))
    BY <1>5, <1>6
  <1>8. QED
    BY <1>3, <1>7 DEF Posterior

\* Every posterior of every version, whatever aborts, promotions and retirements
\* came before it, is the count of the rows that runs have left up to its case.
THEOREM WeightsReplayTheLedger == Spec => []PosteriorReplaysLedger
PROOF
  <1>1. Init => Inductive /\ Tallied
    BY InductiveInit, InitTallied
  <1>2. Inductive /\ Tallied /\ [Next]_vars => Inductive' /\ Tallied'
    BY InductiveStep, StepTallied
  <1>3. QED
    BY <1>1, <1>2, TalliedReplays, PTL DEF Spec

-----------------------------------------------------------------------------
(* A stable revision is retired by its last two audits.                    *)

\* The anchor replays of revision s of arm a by versions before n.
ReplaysBefore(E, a, s, n) ==
  {r \in E : r.arm = a /\ r.spec = s /\ r.kind = "anchor_replay" /\ r.version < n}

VersionsOf(rows) == {r.version : r \in rows}

LostIn(rows) == VersionsOf({r \in rows : ~r.success})

\* What RetirementTakesTwoRegressions asks of the replays before a retirement.
TwoLosses(rows) ==
  /\ Cardinality(VersionsOf(rows)) >= 2
  /\ {Max(VersionsOf(rows)), Max(VersionsOf(rows) \ {Max(VersionsOf(rows))})} \subseteq LostIn(rows)

\* Where revision s of arm a has had no audit since the arm's head was written.
Unaudited(a, s) ==
  \/ phase = "promote"
  \/ phase = "commit" /\ a \notin PendingArms
  \/ phase = "audit" /\ <<a, s>> \in auditing

\* The latest version whose replay of s is in E lost an anchor.
LastLost(E, a, s) ==
  \E r \in E : /\ r.arm = a /\ r.spec = s /\ r.kind = "anchor_replay" /\ ~r.success
               /\ \A q \in E : q.arm = a /\ q.spec = s /\ q.kind = "anchor_replay"
                                 => q.version <= r.version

\* The counter of regressions stands for a lost replay, and a later row can
\* neither come before a retirement nor share a version with an earlier audit.
Audited ==
  /\ \A e \in lifecycle : e.from = "stable" =>
       TwoLosses(ReplaysBefore(evidence, e.arm, e.spec, e.version))
  /\ \A e \in lifecycle : e.version <= Len(versions[e.arm])
  /\ \A r \in evidence : r.kind = "anchor_replay" =>
       /\ r.version <= Len(versions[r.arm])
       /\ Unaudited(r.arm, r.spec) => r.version < Len(versions[r.arm])
  /\ phase # "aborted" =>
       \A a \in UpdatingArms, s \in Specs :
         regressions[a][s] > 0 => LastLost(evidence, a, s)

\* Chains only grow, and a new event is of the version that its step commits.
LEMMA EventsKept ==
  ASSUME TypeOK, Audited, lifecycle \subseteq lifecycle',
         lifecycle' \subseteq LifecycleEvents,
         \A x \in Arms : Len(versions'[x]) \in Nat /\ Len(versions[x]) <= Len(versions'[x]),
         \A e \in lifecycle' : e \in lifecycle \/ e.version = Len(versions'[e.arm])
  PROVE  \A e \in lifecycle' : e.version <= Len(versions'[e.arm])
PROOF
  <1> SUFFICES ASSUME NEW e \in lifecycle' PROVE e.version <= Len(versions'[e.arm])
    OBVIOUS
  <1> DEFINE x == e.version
             y == Len(versions[e.arm])
             z == Len(versions'[e.arm])
  <1>1. e.arm \in Arms /\ x \in Nat
    BY DEF LifecycleEvents
  <1>2. y \in Nat /\ z \in Nat /\ y <= z
    BY <1>1, HeadType
  <1>3. x <= y \/ x = z
    BY DEF Audited
  <1> HIDE DEF x, y, z
  <1>4. x <= z
    BY <1>1, <1>2, <1>3
  <1>5. QED
    BY <1>4 DEF x, z

\* A commit makes its arm's chain longer by one.
LEMMA LongerByOne ==
  ASSUME TypeOK, NEW a \in Arms, NEW w, CommitVersion(a, w)
  PROVE  /\ Len(versions[a]) \in Nat \ {0} /\ Len(versions'[a]) = Len(versions[a]) + 1
         /\ \A x \in Arms \ {a} : versions'[x] = versions[x]
         /\ \A x \in Arms : Len(versions'[x]) \in Nat /\ Len(versions[x]) <= Len(versions'[x])
PROOF
  <1> DEFINE S == Versions \cup {w}
  <1>1. /\ versions \in [Arms -> Seq(Versions)]
        /\ versions[a] \in Seq(S) /\ w \in S
    BY SeqMonotonic DEF TypeOK
  <1>2. /\ versions'[a] = Append(versions[a], w)
        /\ \A x \in Arms \ {a} : versions'[x] = versions[x]
    BY <1>1 DEF CommitVersion
  <1> HIDE DEF S
  <1>3. \A x \in Arms : Len(versions[x]) \in Nat \ {0}
    BY HeadType
  <1>4. Len(versions'[a]) = Len(versions[a]) + 1
    BY <1>1, <1>2, AppendProperties, LenProperties
  <1>5. QED
    BY <1>2, <1>3, <1>4

\* Steps without audits: no replay is recorded, no stable revision retired.
LEMMA NoAuditKeeps ==
  ASSUME TypeOK, Audited, evidence \subseteq evidence', evidence' \subseteq EvidenceEvents,
         \A e \in evidence' : e \in evidence \/ e.kind # "anchor_replay",
         lifecycle \subseteq lifecycle', lifecycle' \subseteq LifecycleEvents,
         \A e \in lifecycle' : \/ e \in lifecycle
                               \/ e.version = Len(versions'[e.arm]) /\ e.from # "stable",
         \A x \in Arms : Len(versions'[x]) \in Nat /\ Len(versions[x]) <= Len(versions'[x]),
         regressions' = regressions, phase # "aborted",
         \A x \in Arms, s \in Specs :
           Unaudited(x, s)' => Unaudited(x, s) \/ Len(versions[x]) < Len(versions'[x])
  PROVE  Audited'
PROOF
  <1>1. \A a, s, n : ReplaysBefore(evidence', a, s, n) = ReplaysBefore(evidence, a, s, n)
    BY DEF ReplaysBefore
  <1>2. \A e \in lifecycle' : e.from = "stable" =>
          TwoLosses(ReplaysBefore(evidence', e.arm, e.spec, e.version))
    BY <1>1 DEF Audited
  <1>3. \A e \in lifecycle' : e.version <= Len(versions'[e.arm])
    BY EventsKept
  <1>4. ASSUME NEW r \in evidence', r.kind = "anchor_replay"
        PROVE  /\ r.version <= Len(versions'[r.arm])
               /\ Unaudited(r.arm, r.spec)' => r.version < Len(versions'[r.arm])
    <2> DEFINE x == r.version
               y == Len(versions[r.arm])
               z == Len(versions'[r.arm])
    <2>1. /\ r \in evidence /\ r.arm \in Arms /\ r.spec \in Specs /\ x \in Nat
          /\ y \in Nat /\ z \in Nat /\ y <= z
      BY <1>4, HeadType DEF EvidenceEvents
    <2>2. x <= y /\ (Unaudited(r.arm, r.spec) => x < y)
      BY <1>4, <2>1 DEF Audited
    <2>3. Unaudited(r.arm, r.spec)' => Unaudited(r.arm, r.spec) \/ y < z
      BY <2>1
    <2> HIDE DEF x, y, z
    <2>4. x <= z /\ (Unaudited(r.arm, r.spec)' => x < z)
      BY <2>1, <2>2, <2>3
    <2>5. QED
      BY <2>4 DEF x, z
  <1>5. ASSUME NEW a \in UpdatingArms, NEW s \in Specs, regressions'[a][s] > 0
        PROVE  LastLost(evidence', a, s)
    <2>1. LastLost(evidence, a, s)
      BY <1>5 DEF Audited
    <2>2. QED
      BY <2>1 DEF LastLost
  <1>6. QED
    BY <1>2, <1>3, <1>4, <1>5 DEF Audited

LEMMA InitAudited == Init => Audited
PROOF
  <1> SUFFICES ASSUME Init PROVE Audited
    OBVIOUS
  <1>1. \A a \in UpdatingArms, s \in Specs : ~(regressions[a][s] > 0)
    BY DEF Init, UpdatingArms
  <1>2. lifecycle = {} /\ evidence = {}
    BY DEF Init
  <1>3. QED
    BY <1>1, <1>2 DEF Audited

LEMMA CommitArmAudited ==
  ASSUME Inductive, Audited, NEW a \in Arms, CommitArm(a)
  PROVE  Audited'
PROOF
  <1> DEFINE c == case_index
             next == Len(versions[a]) + 1
             rows == RunRows(a, c, Len(outcome[a].run)) \cup TapeRows(a, c, TapeSize(a, c))
  <1>1. /\ phase = "commit" /\ a = EVOLUTION_ARMS[arm]
        /\ evidence' = evidence \cup rows
        /\ \E w : CommitVersion(a, w)
        /\ IF arm < Len(EVOLUTION_ARMS)
           THEN arm' = arm + 1 /\ phase' = phase
           ELSE arm' = 1 /\ phase' = "promote"
        /\ regressions' = regressions
    BY DEF CommitArm
  <1>2. TypeOK /\ TypeOK' /\ arm \in 1..3
    BY CommitArmInductive DEF Inductive, TypeOK
  <1>3. \A e \in rows : e.kind # "anchor_replay"
    BY DEF RunRows, TapeRows, EvidenceRow
  <1>4. /\ lifecycle \subseteq lifecycle'
        /\ \A e \in lifecycle' : \/ e \in lifecycle
                                 \/ e.arm = a /\ e.version = next /\ e.from # "stable"
    BY DEF CommitArm, Event
  <1>5. /\ Len(versions[a]) \in Nat \ {0} /\ Len(versions'[a]) = next
        /\ \A x \in Arms : Len(versions'[x]) \in Nat /\ Len(versions[x]) <= Len(versions'[x])
    BY <1>1, <1>2, LongerByOne
  <1>6. ASSUME NEW x \in Arms, NEW s \in Specs, Unaudited(x, s)'
        PROVE  Unaudited(x, s) \/ Len(versions[x]) < Len(versions'[x])
    <2>1. CASE x = a
      BY <1>5, <2>1
    <2>2. CASE x # a
      <3>1. x \notin PendingArms
        <4>1. SUFFICES ASSUME x \in PendingArms PROVE FALSE
          OBVIOUS
        <4>2. PICK i \in arm..3 : EVOLUTION_ARMS[i] = x
          BY <4>1 DEF PendingArms
        <4>3. i # arm
          BY <1>1, <2>2, <4>2
        <4>4. CASE arm < Len(EVOLUTION_ARMS)
          <5>1. i \in arm'..3 /\ phase' = "commit"
            BY <1>1, <1>2, <4>3, <4>4
          <5>2. x \in PendingArms'
            BY <4>2, <5>1 DEF PendingArms
          <5>3. QED
            BY <1>6, <5>1, <5>2 DEF Unaudited
        <4>5. CASE ~(arm < Len(EVOLUTION_ARMS))
          BY <1>2, <4>3, <4>5 DEF EVOLUTION_ARMS
        <4>6. QED
          BY <4>4, <4>5
      <3>2. QED
        BY <1>1, <3>1 DEF Unaudited
    <2>3. QED
      BY <2>1, <2>2
  <1> HIDE DEF rows
  <1>7. /\ evidence \subseteq evidence' /\ phase # "aborted"
        /\ \A e \in evidence' : e \in evidence \/ e.kind # "anchor_replay"
        /\ evidence' \subseteq EvidenceEvents /\ lifecycle' \subseteq LifecycleEvents
    BY <1>1, <1>2, <1>3 DEF TypeOK
  <1>8. \A e \in lifecycle' : \/ e \in lifecycle
                              \/ e.version = Len(versions'[e.arm]) /\ e.from # "stable"
    BY <1>4, <1>5
  <1>9. QED
    BY <1>1, <1>2, <1>4, <1>5, <1>6, <1>7, <1>8, NoAuditKeeps

LEMMA PromoteAudited ==
  ASSUME Inductive, Audited, NEW a \in UpdatingArms, NEW s \in Specs, Promote(a, s)
  PROVE  Audited'
PROOF
  <1>1. /\ phase = "promote" /\ \E w : CommitVersion(a, w)
        /\ UNCHANGED <<phase, evidence, regressions>>
        /\ lifecycle' = lifecycle \cup
             {Event(a, s, "provisional_active", "stable", Len(versions[a]) + 1)}
    BY DEF Promote
  <1>2. TypeOK /\ TypeOK' /\ a \in Arms
    BY PromoteInductive DEF Inductive, UpdatingArms
  <1>3. /\ Len(versions'[a]) = Len(versions[a]) + 1
        /\ \A x \in Arms : Len(versions'[x]) \in Nat /\ Len(versions[x]) <= Len(versions'[x])
    BY <1>1, <1>2, LongerByOne
  <1>4. \A e \in lifecycle' : \/ e \in lifecycle
                              \/ e.version = Len(versions'[e.arm]) /\ e.from # "stable"
    BY <1>1, <1>3 DEF Event
  <1>5. \A x \in Arms, t \in Specs : Unaudited(x, t)
    BY <1>1 DEF Unaudited
  <1>6. evidence' \subseteq EvidenceEvents /\ lifecycle' \subseteq LifecycleEvents
    BY <1>2 DEF TypeOK
  <1>7. QED
    BY <1>1, <1>2, <1>3, <1>4, <1>5, <1>6, NoAuditKeeps

\* The rows of the audit of s are at the head, above those of all its earlier
\* audits, and one of them is a loss if an anchor was lost.
LEMMA AuditAudited ==
  ASSUME Inductive, Audited, NEW a \in UpdatingArms, NEW s \in Specs, AuditRevision(a, s)
  PROVE  Audited'
PROOF
  <1> DEFINE n == Len(versions[a])
             anchored == AnchorCases(a, s)
  <1>1. /\ phase = "audit" /\ <<a, s>> \in auditing /\ auditing' = auditing \ {<<a, s>>}
        /\ phase' \in {"audit", NextCase}
    BY DEF AuditRevision, NextToAudit
  <1>2. PICK replay \in Replays(a, s) :
          LET regressed == \E c \in anchored : replay[c] = "miss"
              consecutive == NextRegressions(regressions[a][s], regressed)
          IN  /\ evidence' = evidence \cup ReplayRows(a, s, replay, anchored)
              /\ regressions' = [regressions EXCEPT ![a][s] = consecutive]
              /\ IF RetiresOnRegressions(consecutive)
                 THEN Retire(a, s)
                 ELSE UNCHANGED <<versions, lifecycle>>
    BY DEF AuditRevision
  <1> DEFINE rows == ReplayRows(a, s, replay, anchored)
             regressed == \E c \in anchored : replay[c] = "miss"
             consecutive == NextRegressions(regressions[a][s], regressed)
  <1>3. /\ evidence' = evidence \cup rows
        /\ regressions' = [regressions EXCEPT ![a][s] = consecutive]
        /\ IF RetiresOnRegressions(consecutive)
           THEN Retire(a, s) ELSE UNCHANGED <<versions, lifecycle>>
    BY <1>2
  <1>4. /\ TypeOK /\ TypeOK' /\ a \in Arms /\ n \in Nat \ {0}
        /\ regressions \in [Arms -> [Specs -> Nat]]
    BY HeadType, AuditRevisionInductive DEF Inductive, UpdatingArms, TypeOK
  <1>5. /\ \A e \in rows : /\ e.arm = a /\ e.spec = s /\ e.version = n
                           /\ e.kind = "anchor_replay"
        /\ regressed => \E e \in rows : ~e.success
    <2>1. \A e \in rows : e.arm = a /\ e.spec = s /\ e.version = n /\ e.kind = "anchor_replay"
      BY DEF ReplayRows, EvidenceRow
    <2>2. ASSUME NEW c \in anchored, replay[c] = "miss" PROVE \E e \in rows : ~e.success
      <3> DEFINE e == EvidenceRow(a, s, c, "anchor_replay", replay[c] = "hit")
      <3>1. e \in rows
        BY DEF ReplayRows
      <3>2. ~e.success
        BY <2>2 DEF EvidenceRow
      <3>3. QED
        BY <3>1, <3>2
    <2>3. QED
      BY <2>1, <2>2
  <1>6. \A r \in evidence : r.arm = a /\ r.spec = s /\ r.kind = "anchor_replay" =>
          r.version \in Nat /\ r.version < n
    BY <1>1, <1>4 DEF Audited, Unaudited, TypeOK, EvidenceEvents
  <1>7. /\ consecutive > 0 <=> regressed
        /\ RetiresOnRegressions(consecutive) => regressed /\ regressions[a][s] > 0
    BY <1>4 DEF NextRegressions, RetiresOnRegressions, UpdatingArms
  <1>8. /\ \A x \in Arms : Len(versions'[x]) \in Nat /\ Len(versions[x]) <= Len(versions'[x])
        /\ lifecycle \subseteq lifecycle'
        /\ \A e \in lifecycle' :
             \/ e \in lifecycle
             \/ /\ e.version = Len(versions'[e.arm])
                /\ e.arm = a /\ e.spec = s /\ e.version = n + 1
                /\ RetiresOnRegressions(consecutive)
    <2>1. CASE UNCHANGED <<versions, lifecycle>>
      <3>1. \A x \in Arms : Len(versions[x]) \in Nat /\ Len(versions[x]) <= Len(versions[x])
        BY <1>4, HeadType
      <3>2. QED
        BY <2>1, <3>1
    <2>2. CASE Retire(a, s) /\ RetiresOnRegressions(consecutive)
      <3>1. /\ \E w : CommitVersion(a, w)
            /\ lifecycle' = lifecycle \cup {Event(a, s, "stable", "retired", n + 1)}
        BY <2>2 DEF Retire
      <3>2. /\ Len(versions'[a]) = n + 1
            /\ \A x \in Arms : Len(versions'[x]) \in Nat /\ Len(versions[x]) <= Len(versions'[x])
        BY <1>4, <3>1, LongerByOne
      <3> HIDE DEF consecutive
      <3>3. QED
        BY <2>2, <3>1, <3>2 DEF Event
    <2>3. QED
      BY <1>3, <2>1, <2>2
  <1> HIDE DEF rows, consecutive, regressed
  <1>9. \A e \in lifecycle' : e.version <= Len(versions'[e.arm])
    <2>1. lifecycle' \subseteq LifecycleEvents
      BY <1>4 DEF TypeOK
    <2>2. \A e \in lifecycle' : e \in lifecycle \/ e.version = Len(versions'[e.arm])
      BY <1>8
    <2>3. QED
      BY <1>4, <1>8, <2>1, <2>2, EventsKept
  <1>10. ASSUME NEW r \in evidence', r.kind = "anchor_replay"
         PROVE  /\ r.version <= Len(versions'[r.arm])
                /\ Unaudited(r.arm, r.spec)' => r.version < Len(versions'[r.arm])
    <2>1. CASE r \in rows
      <3>1. r.version <= Len(versions'[r.arm])
        BY <1>4, <1>5, <1>8, <2>1
      <3>2. ~Unaudited(r.arm, r.spec)'
        BY <1>1, <1>5, <2>1 DEF Unaudited, NextCase
      <3>3. QED
        BY <3>1, <3>2
    <2>2. CASE r \in evidence
      <3> DEFINE x == r.version
                 y == Len(versions[r.arm])
                 z == Len(versions'[r.arm])
      <3>1. r.arm \in Arms /\ r.spec \in Specs /\ x \in Nat
        BY <1>4, <2>2 DEF TypeOK, EvidenceEvents
      <3>2. y \in Nat /\ z \in Nat /\ y <= z
        BY <1>4, <1>8, <3>1, HeadType
      <3>3. x <= y /\ (Unaudited(r.arm, r.spec) => x < y)
        BY <1>10, <2>2 DEF Audited
      <3>4. Unaudited(r.arm, r.spec)' => Unaudited(r.arm, r.spec)
        BY <1>1 DEF Unaudited, NextCase
      <3> HIDE DEF x, y, z
      <3>5. x <= z /\ (Unaudited(r.arm, r.spec)' => x < z)
        BY <3>1, <3>2, <3>3, <3>4
      <3>6. QED
        BY <3>5 DEF x, z
    <2>3. QED
      BY <1>3, <2>1, <2>2
  <1>11. ASSUME NEW x \in UpdatingArms, NEW t \in Specs, regressions'[x][t] > 0
         PROVE  LastLost(evidence', x, t)
    <2>1. CASE x = a /\ t = s
      <3>1. regressions'[a][s] = consecutive
        BY <1>3, <1>4
      <3>2. PICK e \in rows : ~e.success
        BY <1>5, <1>7, <1>11, <2>1, <3>1
      <3>3. \A q \in evidence' : q.arm = a /\ q.spec = s /\ q.kind = "anchor_replay"
                                   => q.version <= n
        BY <1>3, <1>4, <1>5, <1>6
      <3>4. QED
        BY <1>3, <1>5, <2>1, <3>2, <3>3 DEF LastLost
    <2>2. CASE ~(x = a /\ t = s)
      <3>1. regressions'[x][t] = regressions[x][t]
        BY <1>3, <1>4, <2>2 DEF UpdatingArms
      <3>2. LastLost(evidence, x, t)
        BY <1>1, <1>11, <3>1 DEF Audited
      <3>3. QED
        BY <1>3, <1>5, <2>2, <3>2 DEF LastLost
    <2>3. QED
      BY <2>1, <2>2
  <1>12. ASSUME NEW e \in lifecycle', e.from = "stable"
         PROVE  TwoLosses(ReplaysBefore(evidence', e.arm, e.spec, e.version))
    <2>1. CASE e \in lifecycle
      <3>1. e.version <= Len(versions[e.arm]) /\ e.version \in Nat /\ e.arm \in Arms
        BY <1>4, <2>1 DEF Audited, TypeOK, LifecycleEvents
      <3>2. \A r \in rows : r.arm = e.arm => ~(r.version < e.version)
        BY <1>4, <1>5, <3>1
      <3>3. ReplaysBefore(evidence', e.arm, e.spec, e.version)
              = ReplaysBefore(evidence, e.arm, e.spec, e.version)
        BY <1>3, <3>2 DEF ReplaysBefore
      <3>4. QED
        BY <1>12, <2>1, <3>3 DEF Audited
    <2>2. CASE e \notin lifecycle
      <3> DEFINE R == ReplaysBefore(evidence', a, s, n + 1)
                 V == VersionsOf(R)
                 P == V \ {n}
      <3>1. /\ e.arm = a /\ e.spec = s /\ e.version = n + 1
            /\ regressed /\ regressions[a][s] > 0
        BY <1>7, <1>8, <2>2
      <3>2. PICK new \in rows : ~new.success
        BY <1>5, <3>1
      <3>3. PICK old \in evidence :
              /\ old.arm = a /\ old.spec = s /\ old.kind = "anchor_replay" /\ ~old.success
              /\ \A q \in evidence : q.arm = a /\ q.spec = s /\ q.kind = "anchor_replay"
                                       => q.version <= old.version
        BY <1>1, <3>1 DEF Audited, LastLost
      <3> DEFINE m == old.version
      <3>4. m \in Nat /\ m < n
        BY <1>6, <3>3
      <3>5. new \in R /\ old \in R /\ new.version = n
        BY <1>3, <1>4, <1>5, <3>2, <3>3, <3>4 DEF ReplaysBefore
      <3>6. n \in V /\ m \in P /\ n \in LostIn(R) /\ m \in LostIn(R)
        BY <1>4, <3>2, <3>3, <3>4, <3>5 DEF VersionsOf, LostIn
      <3>7. \A x \in V : x = n \/ (x \in Nat /\ x <= m)
        <4>1. ASSUME NEW r \in R PROVE r.version = n \/ (r.version \in Nat /\ r.version <= m)
          <5>1. CASE r \in rows
            BY <1>5, <5>1
          <5>2. CASE r \in evidence
            BY <1>6, <3>3, <5>2 DEF ReplaysBefore
          <5>3. QED
            BY <1>3, <5>1, <5>2 DEF ReplaysBefore
        <4>2. QED
          BY <4>1 DEF VersionsOf
      <3> HIDE DEF R, V, P, m
      <3>8. Max(V) = n
        <4>1. n \in V /\ \A y \in V : n >= y
          BY <1>4, <3>4, <3>6, <3>7
        <4>2. \A x \in V : (\A y \in V : x >= y) => x = n
          BY <1>4, <3>4, <3>6, <3>7
        <4>3. QED
          BY <4>1, <4>2 DEF Max
      <3>9. Max(P) = m
        <4>1. m \in P /\ \A y \in P : y \in Nat /\ m >= y
          BY <3>4, <3>6, <3>7 DEF P
        <4>2. \A x \in P : (\A y \in P : x >= y) => x = m
          BY <3>4, <4>1
        <4>3. QED
          BY <4>1, <4>2 DEF Max
      <3>10. Cardinality(V) >= 2
        <4>1. V \subseteq 0..n
          BY <1>4, <3>4, <3>7
        <4>2. IsFiniteSet(V)
          <5>1. IsFiniteSet(0..n)
            BY <1>4, FS_Interval
          <5>2. QED
            BY <4>1, <5>1, FS_Subset
        <4>3. {m, n} \subseteq V /\ m # n
          BY <1>4, <3>4, <3>6 DEF P
        <4>4. Cardinality({m, n}) = 2
          <5> DEFINE one == {m}
          <5>1. IsFiniteSet(one) /\ Cardinality(one) = 1 /\ n \notin one
            BY <4>3, FS_Singleton
          <5> HIDE DEF one, n
          <5>2. Cardinality(one \cup {n}) = 1 + 1
            BY <5>1, FS_AddElement
          <5>3. one \cup {n} = {m, n}
            BY DEF one
          <5>4. QED
            BY <5>2, <5>3
        <4>5. Cardinality({m, n}) <= Cardinality(V) /\ Cardinality(V) \in Nat
          BY <4>2, <4>3, FS_Subset, FS_CardinalityType
        <4>6. QED
          BY <4>4, <4>5
      <3>11. TwoLosses(R)
        BY <3>6, <3>8, <3>9, <3>10 DEF TwoLosses, V, P
      <3>12. QED
        BY <3>1, <3>11 DEF R
    <2>3. QED
      BY <2>1, <2>2
  <1>13. QED
    BY <1>9, <1>10, <1>11, <1>12 DEF Audited

\* A replay that raises leaves rows at the head, after every retirement so far.
LEMMA RejectReplayAudited ==
  ASSUME Inductive, Audited, NEW a \in UpdatingArms, NEW s \in Specs, RejectReplay(a, s)
  PROVE  Audited'
PROOF
  <1>1. /\ phase' = "aborted" /\ UNCHANGED <<versions, lifecycle>>
    BY DEF RejectReplay
  <1>2. PICK replay \in Replays(a, s), audited \in SUBSET AnchorCases(a, s) :
          evidence' = evidence \cup ReplayRows(a, s, replay, audited)
    BY DEF RejectReplay
  <1>3. \A r \in evidence' : r \in evidence \/ (r.arm = a /\ r.version = Len(versions[a]))
    BY <1>2 DEF ReplayRows, EvidenceRow
  <1>4. TypeOK /\ a \in Arms /\ Len(versions[a]) \in Nat
    BY HeadType DEF Inductive, UpdatingArms
  <1>5. \A r \in evidence' : r.kind = "anchor_replay" => r.version <= Len(versions[r.arm])
    BY <1>3, <1>4 DEF Audited
  <1>6. \A x, t : ~Unaudited(x, t)'
    BY <1>1 DEF Unaudited
  <1>7. ASSUME NEW e \in lifecycle, e.from = "stable"
        PROVE  TwoLosses(ReplaysBefore(evidence', e.arm, e.spec, e.version))
    <2>1. e.version <= Len(versions[e.arm]) /\ e.version \in Nat
      BY <1>4 DEF Audited, TypeOK, LifecycleEvents
    <2>2. \A r \in evidence' : r \in evidence \/ r.arm # e.arm \/ ~(r.version < e.version)
      BY <1>3, <1>4, <2>1
    <2>3. evidence \subseteq evidence'
      BY <1>2
    <2>4. ReplaysBefore(evidence', e.arm, e.spec, e.version)
            = ReplaysBefore(evidence, e.arm, e.spec, e.version)
      BY <2>2, <2>3 DEF ReplaysBefore
    <2>5. QED
      BY <1>7, <2>4 DEF Audited
  <1>8. QED
    BY <1>1, <1>5, <1>6, <1>7 DEF Audited

LEMMA StepAudited == Inductive /\ Audited /\ [Next]_vars => Audited'
PROOF
  <1> SUFFICES ASSUME Inductive, Audited, [Next]_vars PROVE Audited'
    OBVIOUS
  <1>0. /\ TypeOK /\ evidence \subseteq EvidenceEvents /\ lifecycle \subseteq LifecycleEvents
        /\ \A x \in Arms : Len(versions[x]) \in Nat /\ Len(versions[x]) <= Len(versions[x])
    BY HeadType DEF Inductive, TypeOK
  <1>1. CASE EvaluateCase
    <2>1. /\ phase = "evaluate" /\ phase' = "commit" /\ arm' = 1
          /\ UNCHANGED <<evidence, versions, lifecycle, regressions>>
      BY <1>1 DEF EvaluateCase, ledger
    <2>2. \A x \in Arms, t \in Specs : ~Unaudited(x, t)'
      <3>1. 1 \in arm'..3 /\ 2 \in arm'..3 /\ 3 \in arm'..3
        BY <2>1
      <3>2. /\ EVOLUTION_ARMS[1] = "patterned" /\ EVOLUTION_ARMS[2] = "unkeyed_global"
            /\ EVOLUTION_ARMS[3] = "no_update"
        BY DEF EVOLUTION_ARMS
      <3>3. \A x \in Arms : x \in PendingArms'
        BY <3>1, <3>2 DEF PendingArms, Arms
      <3>4. QED
        BY <2>1, <3>3 DEF Unaudited
    <2>3. QED
      BY <1>0, <2>1, <2>2, NoAuditKeeps
  <1>2. ASSUME NEW a \in Arms, CommitArm(a) \/ RejectEvidence(a) \/ RejectTape(a)
        PROVE  Audited'
    <2>1. CASE CommitArm(a)
      BY <2>1, CommitArmAudited
    <2>2. CASE RejectEvidence(a) \/ RejectTape(a)
      <3>1. /\ phase = "commit" /\ phase' = "aborted" /\ evidence \subseteq evidence'
            /\ UNCHANGED <<versions, lifecycle, regressions>>
        BY <2>2 DEF RejectEvidence, RejectTape
      <3>2. \A e \in evidence' : e \in evidence \/ e.kind # "anchor_replay"
        BY <2>2 DEF RejectEvidence, RejectTape, RunRows, TapeRows, EvidenceRow
      <3>3. evidence' \subseteq EvidenceEvents
        BY <2>2, RejectEvidenceInductive, RejectTapeInductive DEF Inductive, TypeOK
      <3>4. \A x, t : ~Unaudited(x, t)'
        BY <3>1 DEF Unaudited
      <3>5. QED
        BY <1>0, <3>1, <3>2, <3>3, <3>4, NoAuditKeeps
    <2>3. QED
      BY <1>2, <2>1, <2>2
  <1>3. ASSUME NEW a \in UpdatingArms, EndPromotion(a) PROVE Audited'
    <2>1. /\ phase = "promote"
          /\ UNCHANGED <<evidence, versions, lifecycle, regressions>>
      BY <1>3 DEF EndPromotion, ledger
    <2>2. \A x, t : Unaudited(x, t)
      BY <2>1 DEF Unaudited
    <2>3. QED
      BY <1>0, <2>1, <2>2, NoAuditKeeps
  <1>4. ASSUME NEW a \in UpdatingArms, NEW s \in Specs,
               Promote(a, s) \/ AuditRevision(a, s) \/ RejectReplay(a, s)
        PROVE  Audited'
    BY <1>4, PromoteAudited, AuditAudited, RejectReplayAudited
  <1>5. CASE UNCHANGED vars
    BY <1>5 DEF vars, Audited, Unaudited, PendingArms, ReplaysBefore, LastLost
  <1>6. QED
    BY <1>1, <1>2, <1>3, <1>4, <1>5 DEF Next, Step, Finished

\* No stable revision is ever retired but by two audits in a row that both lost an
\* anchor: what the counter of regressions stands for, read off the ledger.
THEOREM TwoRegressionsRetire == Spec => []RetirementTakesTwoRegressions
PROOF
  <1>1. Init => Inductive /\ Audited
    BY InductiveInit, InitAudited
  <1>2. Inductive /\ Audited /\ [Next]_vars => Inductive' /\ Audited'
    BY InductiveStep, StepAudited
  <1>3. Audited => RetirementTakesTwoRegressions
    BY DEF Audited, RetirementTakesTwoRegressions, TwoLosses, ReplaysBefore, LostIn, VersionsOf
  <1>4. QED
    BY <1>1, <1>2, <1>3, PTL DEF Spec

-----------------------------------------------------------------------------
(* The contract's variables, as the loop's state gives them.               *)

Skills == UpdatingArms \X Specs

State == [k \in Skills |-> LifecycleState(HeadVersion(k[1]), k[2])]
Wins == [k \in Skills |-> Won(evidence, k[1], k[2])]
Losses == [k \in Skills |-> Lost(evidence, k[1], k[2])]
Anchored == [k \in Skills |-> anchors[k[1]][k[2]].cases]
Halted == phase = "aborted"

LEMMA SameCounts == \A T : Lifecycle!Cardinality(T) = Cardinality(T)
BY DEF Lifecycle!Cardinality, Cardinality

LEMMA SameRules ==
  /\ \A T, U : Lifecycle!ShouldRetireProvisional(T, U) <=> ShouldRetireProvisional(T, U)
  /\ \A T, family : Lifecycle!CrossFamily(T, family) <=> CrossFamily(T, family)
BY SameCounts DEF Lifecycle!ShouldRetireProvisional, ShouldRetireProvisional,
     Lifecycle!CrossFamily, CrossFamily, Lifecycle!Families, Families

\* The case and the runs that a step records, as the contract wants them.
Tried(c, won, lost) ==
  /\ c \in Cases /\ won \in SUBSET Skills /\ lost \in SUBSET Skills
  /\ won \cap lost = {}
  /\ \A k \in won \cup lost : /\ State[k] \in {"provisional_active", "stable"}
                              /\ c \notin Wins[k] \cup Losses[k]
  /\ Wins' = [k \in Skills |-> IF k \in won THEN Wins[k] \cup {c} ELSE Wins[k]]
  /\ Losses' = [k \in Skills |-> IF k \in lost THEN Losses[k] \cup {c} ELSE Losses[k]]

LEMMA TriedMapped ==
  ASSUME NEW c, NEW won, NEW lost, Tried(c, won, lost)
  PROVE  /\ c \in Cases
         /\ won \in SUBSET Lifecycle!Active /\ lost \in SUBSET Lifecycle!Active
         /\ Lifecycle!Try(c, won, lost)
PROOF
  <1>1. \A k \in Skills : State[k] \in {"provisional_active", "stable"} => k \in Lifecycle!Active
    BY DEF Lifecycle!Active, Lifecycle!InState, State, Skills
  <1>2. Lifecycle!Try(c, won, lost)
    BY DEF Tried, Lifecycle!Try, Lifecycle!Add, Skills, Wins, Losses
  <1>3. QED
    BY <1>1, <1>2 DEF Tried

LEMMA CommitMapped ==
  ASSUME NEW c, NEW won, NEW lost, Tried(c, won, lost), ~Halted,
         NEW deposited \in SUBSET Skills, \A k \in deposited : State[k] = "candidate",
         State' = [k \in Skills |->
           IF k \in deposited THEN "provisional_active"
           ELSE IF /\ State[k] = "provisional_active"
                   /\ ShouldRetireProvisional(Wins'[k], Losses'[k])
                THEN "retired" ELSE State[k]],
         Anchored' = Anchored, Halted' = Halted
  PROVE  Lifecycle!Next
PROOF
  <1>1. deposited \in SUBSET Lifecycle!InState("candidate")
    BY DEF Lifecycle!InState, State, Skills
  <1>2. \E d \in Cases, w \in SUBSET Lifecycle!Active, l \in SUBSET Lifecycle!Active :
          Lifecycle!Try(d, w, l)
    BY TriedMapped
  <1>3. Lifecycle!Commit(deposited)
    BY <1>2, SameRules DEF Lifecycle!Commit, Skills, State, Wins, Losses, Anchored, Halted
  <1>4. QED
    BY <1>1, <1>3 DEF Lifecycle!Next

LEMMA PromoteMapped ==
  ASSUME NEW k \in Skills, ~Halted, State[k] = "provisional_active",
         NEW T, T \subseteq Wins[k], Cardinality(T) = 3, CrossFamily(T, RecurrenceFamily),
         Anchored' = [Anchored EXCEPT ![k] = T], State' = [State EXCEPT ![k] = "stable"],
         Wins' = Wins, Losses' = Losses, Halted' = Halted
  PROVE  Lifecycle!Next
PROOF
  <1>1. Lifecycle!Promote(k)
    BY SameRules, SameCounts DEF Lifecycle!Promote, Skills, State, Wins, Losses, Anchored, Halted
  <1>2. QED
    BY <1>1 DEF Lifecycle!Next, Skills

LEMMA RetireMapped ==
  ASSUME NEW k \in Skills, ~Halted, State[k] = "stable",
         State' = [State EXCEPT ![k] = "retired"],
         Wins' = Wins, Losses' = Losses, Anchored' = Anchored, Halted' = Halted
  PROVE  Lifecycle!Next
PROOF
  <1>1. Lifecycle!Retire(k)
    BY DEF Lifecycle!Retire, Skills, State, Wins, Losses, Anchored, Halted
  <1>2. QED
    BY <1>1 DEF Lifecycle!Next, Skills

LEMMA HaltMapped ==
  ASSUME ~Halted, Halted', State' = State, Anchored' = Anchored,
         \/ Wins' = Wins /\ Losses' = Losses
         \/ \E c, won, lost : Tried(c, won, lost)
  PROVE  Lifecycle!Next
PROOF
  <1>1. \/ Wins' = Wins /\ Losses' = Losses
        \/ \E d \in Cases, w \in SUBSET Lifecycle!Active, l \in SUBSET Lifecycle!Active :
             Lifecycle!Try(d, w, l)
    BY TriedMapped
  <1>2. Lifecycle!Halt
    BY <1>1 DEF Lifecycle!Halt, Skills, State, Wins, Losses, Anchored, Halted
  <1>3. QED
    BY <1>2 DEF Lifecycle!Next

LEMMA StutterMapped ==
  ASSUME State' = State, Wins' = Wins, Losses' = Losses, Anchored' = Anchored,
         Halted' = Halted
  PROVE  UNCHANGED Lifecycle!vars
BY DEF Lifecycle!vars, Skills, State, Wins, Losses, Anchored, Halted
-----------------------------------------------------------------------------
(* A run never attempts a revision twice.                                  *)

Distinct(q) == \A i, j \in 1..Len(q) : q[i] = q[j] => i = j

\* The quota takes the first three stable entries, then provisional ones, then
\* stable ones after the third.
LEMMA QuotaDistinct ==
  ASSUME NEW S, NEW P, S \cap P = {},
         NEW stable \in Seq(S), NEW provisional \in Seq(P),
         Distinct(stable), Distinct(provisional)
  PROVE  Distinct(FillQuota(stable, provisional))
PROOF
  <1> DEFINE Q == FillQuota(stable, provisional)
             n == Len(stable)
             m == Len(provisional)
             a == HeadSize(n)
             b == TrialSize(n, m)
             c == BackfillSize(n, m)
             R == S \cup P
  <1>1. n \in Nat /\ m \in Nat
    BY LenProperties
  <1>2. /\ \A i \in 1..n : stable[i] \in S
        /\ \A i \in 1..m : provisional[i] \in P
    BY ElementOfSeq
  <1>3. /\ \A i, j \in 1..n : stable[i] = stable[j] => i = j
        /\ \A i, j \in 1..m : provisional[i] = provisional[j] => i = j
        /\ \A i \in 1..n, j \in 1..m : stable[i] # provisional[j]
    BY <1>2 DEF Distinct
  <1>4. Len(Q) = a + b + c /\ \A i \in 1..(a + b + c) : Q[i] = QuotaEntry(stable, provisional, i)
    <2>1. stable \in Seq(R) /\ provisional \in Seq(R)
      BY SeqMonotonic
    <2> HIDE DEF R
    <2>2. /\ Q \in Seq(R) /\ Len(Q) = QuotaSize(n, m)
          /\ \A i \in 1..QuotaSize(n, m) : Q[i] = QuotaEntry(stable, provisional, i)
      BY <2>1, QuotaParts
    <2>3. QuotaSize(n, m) = a + b + c
      BY DEF QuotaSize
    <2>4. QED
      BY <2>2, <2>3
  <1>5. /\ a = IF n <= 3 THEN n ELSE 3
        /\ b = IF m <= 5 - a THEN m ELSE 5 - a
        /\ c = IF n <= 3 \/ m >= 2 THEN 0 ELSE IF n - 3 <= 2 - m THEN n - 3 ELSE 2 - m
    BY DEF HeadSize, TrialSize, BackfillSize
  <1>6. ASSUME NEW i \in 1..(a + b + c)
        PROVE  Q[i] = IF i <= a THEN stable[i]
                      ELSE IF i <= a + b THEN provisional[i - a]
                      ELSE stable[3 + (i - a - b)]
    BY <1>4 DEF QuotaEntry
  <1> HIDE DEF Q, n, m, a, b, c
  <1>7. /\ a \in Nat /\ b \in Nat /\ c \in Nat
        /\ a <= n /\ b <= m /\ a <= 3
        /\ c > 0 => a = 3 /\ 3 + c <= n
    BY <1>1, <1>5
  <1> DEFINE slots == 1..(a + b + c)
             InStable(i) == /\ i <= a \/ i > a + b
                            /\ (IF i <= a THEN i ELSE i - b) \in 1..n
                            /\ Q[i] = stable[IF i <= a THEN i ELSE i - b]
             InProvisional(i) == i - a \in 1..m /\ Q[i] = provisional[i - a]
  <1>8. ASSUME NEW i \in slots
        PROVE  InStable(i) \/ InProvisional(i)
    <2>1. CASE i <= a
      BY <1>1, <1>6, <1>7, <2>1
    <2>2. CASE ~(i <= a) /\ i <= a + b
      <3>1. i - a \in 1..m
        BY <1>1, <1>7, <2>2
      <3>2. QED
        BY <1>6, <2>2, <3>1
    <2>3. CASE ~(i <= a + b)
      <3>1. a = 3 /\ 3 + c <= n
        BY <1>7, <2>3
      <3>2. i - b \in 1..n /\ 3 + (i - a - b) = i - b /\ ~(i <= a) /\ i > a + b
        BY <1>1, <1>7, <2>3, <3>1
      <3>3. Q[i] = stable[i - b]
        BY <1>6, <2>3, <3>2
      <3>4. QED
        BY <3>2, <3>3
    <2>4. QED
      BY <2>1, <2>2, <2>3
  <1>9. ASSUME NEW i \in slots, NEW j \in slots, Q[i] = Q[j]
        PROVE  i = j
    <2>1. CASE InStable(i) /\ InStable(j)
      <3>1. (IF i <= a THEN i ELSE i - b) = (IF j <= a THEN j ELSE j - b)
        BY <1>3, <1>9, <2>1
      <3>2. QED
        BY <1>7, <2>1, <3>1
    <2>2. CASE InProvisional(i) /\ InProvisional(j)
      <3>1. i - a = j - a
        BY <1>3, <1>9, <2>2
      <3>2. QED
        BY <1>7, <3>1
    <2>3. CASE InStable(i) /\ InProvisional(j)
      BY <1>3, <1>9, <2>3
    <2>4. CASE InProvisional(i) /\ InStable(j)
      BY <1>3, <1>9, <2>4
    <2>5. QED
      BY <1>8, <2>1, <2>2, <2>3, <2>4
  <1>10. QED
    BY <1>4, <1>9 DEF Distinct, Q

\* Retrieval offers no candidate twice.
LEMMA RetrievedDistinct ==
  ASSUME NEW a \in Arms, NEW c, IsFiniteSet(Candidates(a, c)),
         NEW queue \in RetrieveRevisions(a, c)
  PROVE  Distinct(queue)
PROOF
  <1>1. CASE a = "no_update"
    <2>1. queue = <<>>
      BY <1>1 DEF RetrieveRevisions
    <2>2. QED
      BY <2>1 DEF Distinct
  <1>2. CASE a # "no_update"
    <2> DEFINE stable == Candidates(a, c) \cap HeadVersion(a).stable
               rest == Candidates(a, c) \ stable
    <2>1. PICK x \in SetToSeqs(stable), p \in SetToSeqs(rest) : queue = FillQuota(x, p)
      BY <1>2 DEF RetrieveRevisions, RankedQueues
    <2>2. IsFiniteSet(stable) /\ IsFiniteSet(rest) /\ stable \cap rest = {}
      BY FS_Subset
    <2> HIDE DEF stable, rest
    <2>3. x \in Seq(stable) /\ p \in Seq(rest)
      BY <2>1, <2>2, EnumerationType
    <2>4. ASSUME NEW T, IsFiniteSet(T), NEW q \in SetToSeqs(T) PROVE Distinct(q)
      <3>1. q \in [1..Cardinality(T) -> T] /\ Cardinality(T) \in Nat
        BY <2>4, FS_CardinalityType DEF SetToSeqs
      <3>2. Len(q) = Cardinality(T)
        BY <3>1
      <3>3. QED
        BY <2>4, <3>2 DEF SetToSeqs, Distinct
    <2>5. Distinct(x) /\ Distinct(p)
      BY <2>1, <2>2, <2>4
    <2>6. QED
      BY <2>1, <2>2, <2>3, <2>5, QuotaDistinct
  <1>3. QED
    BY <1>1, <1>2

\* A run attempts its queue in order, so no revision twice.
RunIsDistinct(a) ==
  \A i, j \in DOMAIN outcome[a].run : outcome[a].run[i].spec = outcome[a].run[j].spec => i = j

LEMMA ExecutionDistinct ==
  ASSUME NEW S, NEW queue \in Seq(S), Distinct(queue), NEW run \in Executions(queue)
  PROVE  \A i, j \in DOMAIN run : run[i].spec = run[j].spec => i = j
PROOF
  <1>1. Len(queue) \in Nat
    BY LenProperties
  <1>2. PICK m \in 0..Len(queue) : run \in [1..m -> Attempts]
    BY <1>1 DEF Executions, BoundedSeq, SeqOf
  <1>3. DOMAIN run \subseteq 1..Len(queue) /\ \A i \in DOMAIN run : run[i].spec = queue[i]
    BY <1>1, <1>2 DEF Executions
  <1>4. QED
    BY <1>3 DEF Distinct

\* The first three of at least three cases are three.
LEMMA EarliestThree ==
  ASSUME NEW S \in SUBSET Nat, IsFiniteSet(S), Cardinality(S) >= 3
  PROVE  Cardinality(Earliest(S, 3)) = 3
PROOF
  <1> DEFINE x == Min(S)
             y == Min(S \ {x})
             z == Min(S \ {x, y})
             Below(e) == {d \in S : d < e}
  <1>1. Cardinality(S) \in Nat /\ S # {}
    BY FS_CardinalityType, FS_EmptySet
  <1>2. x \in S /\ \A e \in S : x <= e
    BY <1>1, MinOfNaturals
  <1> HIDE DEF x
  <1>3. IsFiniteSet(S \ {x}) /\ Cardinality(S \ {x}) = Cardinality(S) - 1
    BY <1>2, FS_RemoveElement
  <1>4. S \ {x} # {} /\ S \ {x} \in SUBSET Nat
    <2>1. Cardinality(S \ {x}) # 0
      BY <1>1, <1>3
    <2>2. Cardinality({}) = 0
      BY FS_EmptySet
    <2>3. QED
      BY <2>1, <2>2
  <1>5. y \in S \ {x} /\ \A e \in S \ {x} : y <= e
    BY <1>4, MinOfNaturals
  <1> HIDE DEF y
  <1>6. /\ IsFiniteSet((S \ {x}) \ {y})
        /\ Cardinality((S \ {x}) \ {y}) = Cardinality(S \ {x}) - 1
    BY <1>3, <1>5, FS_RemoveElement
  <1>7. S \ {x, y} = (S \ {x}) \ {y}
    OBVIOUS
  <1>8. S \ {x, y} # {} /\ S \ {x, y} \in SUBSET Nat
    <2>1. Cardinality((S \ {x}) \ {y}) # 0
      BY <1>1, <1>3, <1>6
    <2>2. Cardinality({}) = 0
      BY FS_EmptySet
    <2>3. S \ {x, y} # {}
      BY <1>7, <2>1, <2>2
    <2>4. QED
      BY <2>3
  <1>9. z \in S \ {x, y} /\ \A e \in S \ {x, y} : z <= e
    BY <1>8, MinOfNaturals
  <1> HIDE DEF z
  <1>10. x \in Nat /\ y \in Nat /\ z \in Nat /\ x < y /\ y < z
    BY <1>2, <1>5, <1>9
  <1>11. /\ Cardinality({}) = 0 /\ Cardinality({x}) = 1 /\ Cardinality({x, y}) = 2
         /\ Cardinality({x, y, z}) = 3
    <2>1. Cardinality({}) = 0 /\ IsFiniteSet({})
      BY FS_EmptySet
    <2>2. IsFiniteSet({x}) /\ Cardinality({x}) = 1
      BY FS_Singleton
    <2> DEFINE one == {x}
               two == {x} \cup {y}
    <2>3. y \notin one /\ z \notin two
      BY <1>10
    <2>4. IsFiniteSet({x} \cup {y}) /\ Cardinality({x} \cup {y}) = 2
      <3>1. IsFiniteSet(one) /\ Cardinality(one) = 1
        BY <2>2
      <3> HIDE DEF one
      <3>2. IsFiniteSet(one \cup {y}) /\ Cardinality(one \cup {y}) = 1 + 1
        BY <2>3, <3>1, FS_AddElement
      <3>3. QED
        BY <3>2 DEF one
    <2>5. Cardinality(({x} \cup {y}) \cup {z}) = 3
      <3>1. IsFiniteSet(two) /\ Cardinality(two) = 2
        BY <2>4
      <3> HIDE DEF two
      <3>2. Cardinality(two \cup {z}) = 2 + 1
        BY <2>3, <3>1, FS_AddElement
      <3>3. QED
        BY <3>2 DEF two
    <2>6. {x} \cup {y} = {x, y} /\ ({x} \cup {y}) \cup {z} = {x, y, z}
      OBVIOUS
    <2>7. QED
      BY <2>1, <2>2, <2>4, <2>5, <2>6
  <1>12. Below(x) = {} /\ Below(y) = {x} /\ Below(z) = {x, y}
    <2>1. \A e \in S : e \in Nat /\ (e < x <=> FALSE)
      BY <1>2, <1>10
    <2>2. \A e \in S : e < y <=> e = x
      BY <1>2, <1>5, <1>10
    <2>3. \A e \in S : e < z <=> e \in {x, y}
      BY <1>2, <1>5, <1>9, <1>10
    <2>4. {x, y, z} \subseteq S
      BY <1>2, <1>5, <1>9
    <2>5. Below(x) = {}
      BY <2>1
    <2>6. Below(y) = {x}
      BY <2>2, <2>4
    <2>7. Below(z) = {x, y}
      BY <2>3, <2>4
    <2>8. QED
      BY <2>5, <2>6, <2>7
  <1>13. ASSUME NEW e \in S, e \notin {x, y, z} PROVE ~(Cardinality(Below(e)) < 3)
    <2>1. {x, y, z} \subseteq Below(e)
      BY <1>2, <1>5, <1>9, <1>13
    <2>2. IsFiniteSet(Below(e))
      BY FS_Subset
    <2>3. Cardinality(Below(e)) \in Nat /\ 3 <= Cardinality(Below(e))
      BY <1>11, <2>1, <2>2, FS_Subset, FS_CardinalityType
    <2>4. QED
      BY <2>3
  <1>14. Earliest(S, 3) = {x, y, z}
    <2>1. Earliest(S, 3) = {e \in S : Cardinality(Below(e)) < 3}
      BY DEF Earliest
    <2>2. {x, y, z} \subseteq S
      BY <1>2, <1>5, <1>9
    <2>3. \A e \in {x, y, z} : Cardinality(Below(e)) < 3
      BY <1>11, <1>12
    <2> HIDE DEF Below
    <2>4. QED
      BY <1>13, <2>1, <2>2, <2>3
  <1>15. QED
    BY <1>11, <1>14

\* With every family named, a validation triple is three successes of two families.
LEMMA TripleIsCrossFamily ==
  ASSUME NEW S \in SUBSET Nat, IsFiniteSet(S), NEW family, NEW T,
         IsValidationTriple(T, S, family), \A c \in S : family[c] # NoFamily
  PROVE  Cardinality(T) = 3 /\ CrossFamily(T, family)
PROOF
  <1>1. Cardinality(S) >= 3
    BY DEF IsValidationTriple, Promotable
  <1>2. CASE T = Earliest(S, 3) /\ Cardinality({family[c] : c \in T}) >= 2
    <2>1. Cardinality(T) = 3
      BY <1>1, <1>2, EarliestThree
    <2>2. T \subseteq S
      BY <1>2 DEF Earliest
    <2>3. Families(T, family) = {family[c] : c \in T}
      BY <2>2 DEF Families
    <2>4. QED
      BY <1>2, <2>1, <2>3 DEF CrossFamily
  <1>3. CASE IsEarliestCrossFamilyThree(T, ValidationPrefix(S, family), family)
    BY <1>3 DEF IsEarliestCrossFamilyThree, CrossFamilyTriples
  <1>4. QED
    BY <1>2, <1>3 DEF IsValidationTriple

-----------------------------------------------------------------------------
(* What a step does to the record of runs.                                 *)

\* A provisional revision that keeps failing is given up with its last failure.
Given(a, s) == ShouldRetireProvisional(Won(evidence, a, s), Lost(evidence, a, s))

\* What Inductive and Settled leave out: the three sets of a head exclude each
\* other as the contract's states do, an audit is due only for stable revisions,
\* no failing revision is kept, and a run being committed is a set of new rows.
Faithful ==
  /\ \A a \in UpdatingArms, s \in Specs :
       /\ s \in HeadVersion(a).stable => s \notin HeadVersion(a).retired
       /\ <<a, s>> \in auditing => s \in HeadVersion(a).stable
       /\ phase # "aborted" /\ s \in HeadVersion(a).active \ HeadVersion(a).stable
          => ~Given(a, s)
  /\ phase = "commit" =>
       /\ \A a \in Arms : RunIsDistinct(a)
       /\ \A a \in PendingArms, e \in evidence :
            e.arm = a /\ e.kind = "runtime_execution" => e.case # case_index

Invariant == Inductive /\ Settled /\ Faithful

\* Membership in the two records of runs, row by row.
LEMMA RecordRows ==
  \A E, a, s, d :
    /\ d \in Won(E, a, s) <=>
         \E e \in E : /\ e.arm = a /\ e.spec = s /\ e.kind = "runtime_execution"
                      /\ e.success /\ e.case = d
    /\ d \in Lost(E, a, s) <=>
         \E e \in E : /\ e.arm = a /\ e.spec = s /\ e.kind = "runtime_execution"
                      /\ ~e.success /\ e.case = d
BY Zenon DEF Won, Lost, RuntimeRows

\* Rows of other arms and of other kinds leave the record of an arm's runs.
LEMMA OtherRowsKeep ==
  ASSUME NEW E, NEW F, E \subseteq F, NEW a, NEW s,
         \A e \in F : e \in E \/ e.arm # a \/ e.kind # "runtime_execution"
  PROVE  Won(F, a, s) = Won(E, a, s) /\ Lost(F, a, s) = Lost(E, a, s)
PROOF
  <1>1. RuntimeRows(F, a, s) = RuntimeRows(E, a, s)
    BY DEF RuntimeRows
  <1>2. QED
    BY <1>1 DEF Won, Lost

\* A run adds its case to the record of each attempt.
LEMMA RunRowsRecord ==
  ASSUME NEW a, NEW s, NEW c, NEW k
  PROVE  \A d : /\ d \in Won(RunRows(a, c, k), a, s) <=>
                     d = c /\ \E i \in 1..k : /\ outcome[a].run[i].spec = s
                                              /\ outcome[a].run[i].result = "hit"
                /\ d \in Lost(RunRows(a, c, k), a, s) <=>
                     d = c /\ \E i \in 1..k : /\ outcome[a].run[i].spec = s
                                              /\ outcome[a].run[i].result # "hit"
PROOF
  <1> DEFINE row(i) == EvidenceRow(a, outcome[a].run[i].spec, c, "runtime_execution",
                                   outcome[a].run[i].result = "hit")
  <1>1. \A i : /\ row(i).arm = a /\ row(i).spec = outcome[a].run[i].spec
               /\ row(i).case = c /\ row(i).kind = "runtime_execution"
               /\ row(i).success <=> (outcome[a].run[i].result = "hit")
    BY DEF EvidenceRow
  <1>2. RunRows(a, c, k) = {row(i) : i \in 1..k}
    BY DEF RunRows
  <1> HIDE DEF row
  <1>3. \A d : d \in Won(RunRows(a, c, k), a, s) <=>
          d = c /\ \E i \in 1..k : /\ outcome[a].run[i].spec = s
                                   /\ outcome[a].run[i].result = "hit"
    <2>1. ASSUME NEW d, d \in Won(RunRows(a, c, k), a, s)
          PROVE  d = c /\ \E i \in 1..k : /\ outcome[a].run[i].spec = s
                                          /\ outcome[a].run[i].result = "hit"
      <3>1. PICK e \in RunRows(a, c, k) :
              /\ e.arm = a /\ e.spec = s /\ e.kind = "runtime_execution"
              /\ e.success /\ e.case = d
        BY <2>1, RecordRows
      <3>2. PICK i \in 1..k : e = row(i)
        BY <1>2
      <3>3. d = c /\ outcome[a].run[i].spec = s
        BY <1>1, <3>1, <3>2
      <3>4. outcome[a].run[i].result = "hit"
        BY <1>1, <3>1, <3>2, Zenon
      <3>5. QED
        BY <3>3, <3>4
    <2>2. ASSUME NEW i \in 1..k, outcome[a].run[i].spec = s, outcome[a].run[i].result = "hit"
          PROVE  c \in Won(RunRows(a, c, k), a, s)
      <3>1. row(i) \in RunRows(a, c, k)
        BY <1>2
      <3>2. row(i).success
        BY <1>1, <2>2, Zenon
      <3>3. row(i).arm = a /\ row(i).spec = s /\ row(i).case = c
            /\ row(i).kind = "runtime_execution"
        BY <1>1, <2>2
      <3>4. QED
        BY <3>1, <3>2, <3>3, RecordRows, Zenon
    <2>3. QED
      BY <2>1, <2>2
  <1>4. \A d : d \in Lost(RunRows(a, c, k), a, s) <=>
          d = c /\ \E i \in 1..k : /\ outcome[a].run[i].spec = s
                                   /\ outcome[a].run[i].result # "hit"
    <2>1. ASSUME NEW d, d \in Lost(RunRows(a, c, k), a, s)
          PROVE  d = c /\ \E i \in 1..k : /\ outcome[a].run[i].spec = s
                                          /\ outcome[a].run[i].result # "hit"
      <3>1. PICK e \in RunRows(a, c, k) :
              /\ e.arm = a /\ e.spec = s /\ e.kind = "runtime_execution"
              /\ ~e.success /\ e.case = d
        BY <2>1, RecordRows
      <3>2. PICK i \in 1..k : e = row(i)
        BY <1>2
      <3>3. d = c /\ outcome[a].run[i].spec = s
        BY <1>1, <3>1, <3>2
      <3>4. outcome[a].run[i].result # "hit"
        BY <1>1, <3>1, <3>2, Zenon
      <3>5. QED
        BY <3>3, <3>4
    <2>2. ASSUME NEW i \in 1..k, outcome[a].run[i].spec = s, outcome[a].run[i].result # "hit"
          PROVE  c \in Lost(RunRows(a, c, k), a, s)
      <3>1. row(i) \in RunRows(a, c, k)
        BY <1>2
      <3>2. ~row(i).success
        BY <1>1, <2>2, Zenon
      <3>3. row(i).arm = a /\ row(i).spec = s /\ row(i).case = c
            /\ row(i).kind = "runtime_execution"
        BY <1>1, <2>2
      <3>4. QED
        BY <3>1, <3>2, <3>3, RecordRows, Zenon
    <2>3. QED
      BY <2>1, <2>2
  <1>5. QED
    BY <1>3, <1>4

\* Neither a tape nor a replay writes a row of a run; a run's rows are its arm's.
LEMMA RowsOfTapes == \A a, c, k : \A e \in TapeRows(a, c, k) : e.kind # "runtime_execution"
BY DEF TapeRows, EvidenceRow

LEMMA RowsOfReplays ==
  \A a, s, replay, audited :
    \A e \in ReplayRows(a, s, replay, audited) : e.kind # "runtime_execution"
BY DEF ReplayRows, EvidenceRow

LEMMA RowsOfRuns == \A a, c, k : \A e \in RunRows(a, c, k) : e.arm = a /\ e.case = c
BY DEF RunRows, EvidenceRow

\* An unchanged record, head and anchor set stay unchanged for the contract.
LEMMA SameRecord ==
  ASSUME \A a \in UpdatingArms, s \in Specs :
           /\ Won(evidence, a, s)' = Won(evidence, a, s)
           /\ Lost(evidence, a, s)' = Lost(evidence, a, s)
  PROVE  Wins' = Wins /\ Losses' = Losses
BY DEF Wins, Losses, Skills

LEMMA SameState ==
  ASSUME \A a \in UpdatingArms : HeadVersion(a)' = HeadVersion(a)
  PROVE  State' = State
PROOF
  <1>1. \A a \in UpdatingArms, s \in Specs :
          LifecycleState(HeadVersion(a), s)' = LifecycleState(HeadVersion(a), s)
    BY DEF LifecycleState
  <1>2. QED
    BY <1>1 DEF State, Skills

\* The first k attempts of the arm at its turn, as the contract's runs on the case.
LEMMA RunTried ==
  ASSUME Invariant, phase = "commit", NEW a \in UpdatingArms, a = EVOLUTION_ARMS[arm],
         NEW k \in Nat, k <= Len(outcome[a].run),
         NEW shown, \A e \in shown : e.kind # "runtime_execution",
         evidence' = evidence \cup RunRows(a, case_index, k) \cup shown
  PROVE  \E won, lost : Tried(case_index, won, lost)
PROOF
  <1> DEFINE c == case_index
             run == outcome[a].run
             ran == RunRows(a, c, k)
             hits == {i \in 1..k : run[i].result = "hit"}
             misses == {i \in 1..k : run[i].result # "hit"}
             won == {<<a, run[i].spec>> : i \in hits}
             lost == {<<a, run[i].spec>> : i \in misses}
  <1>1. /\ a \in Arms /\ a \in PendingArms /\ c \in Cases
        /\ \A i \in DOMAIN run : run[i].spec \in HeadVersion(a).active
    BY TurnPending DEF Invariant, UpdatingArms, Cases
  <1>2. \A i \in 1..k : i \in DOMAIN run /\ run[i].spec \in Specs
    <2>1. run \in Seq(Attempts)
      BY <1>1 DEF Invariant, Inductive, TypeOK
    <2>2. DOMAIN run = 1..Len(run) /\ Len(run) \in Nat
      BY <2>1, LenProperties
    <2>3. \A i \in 1..k : i \in DOMAIN run
      BY <2>2
    <2>4. \A i \in DOMAIN run : run[i] \in Attempts
      BY <2>1, <2>2, ElementOfSeq
    <2>5. QED
      BY <2>3, <2>4 DEF Attempts
  <1>3. \A i, j \in 1..k : run[i].spec = run[j].spec => i = j
    BY <1>1, <1>2 DEF Invariant, Faithful, RunIsDistinct
  <1>4. won \in SUBSET Skills /\ lost \in SUBSET Skills
    BY <1>2 DEF Skills
  <1>5. won \cap lost = {}
    BY <1>3
  <1>6. ASSUME NEW i \in 1..k
        PROVE  /\ State[<<a, run[i].spec>>] \in {"provisional_active", "stable"}
               /\ c \notin Wins[<<a, run[i].spec>>] \cup Losses[<<a, run[i].spec>>]
    <2> DEFINE s == run[i].spec
    <2>1. s \in HeadVersion(a).active /\ s \in Specs /\ s \notin HeadVersion(a).retired
      BY <1>1, <1>2 DEF Invariant, Settled
    <2>2. <<a, s>> \in Skills
      BY <2>1 DEF Skills
    <2>3. \A e \in evidence : e.arm = a /\ e.kind = "runtime_execution" => e.case # c
      BY <1>1 DEF Invariant, Faithful
    <2> HIDE DEF s
    <2>4. State[<<a, s>>] \in {"provisional_active", "stable"}
      BY <2>1, <2>2 DEF State, LifecycleState
    <2>5. c \notin Won(evidence, a, s) \cup Lost(evidence, a, s)
      BY <2>3, RecordRows
    <2>6. QED
      BY <2>2, <2>4, <2>5 DEF Wins, Losses, s
  <1>7. \A m \in won \cup lost : /\ State[m] \in {"provisional_active", "stable"}
                                  /\ c \notin Wins[m] \cup Losses[m]
    BY <1>6
  <1>8. ASSUME NEW x \in UpdatingArms, NEW s \in Specs
        PROVE  /\ Won(evidence, x, s)' =
                    IF <<x, s>> \in won THEN Won(evidence, x, s) \cup {c} ELSE Won(evidence, x, s)
               /\ Lost(evidence, x, s)' =
                    IF <<x, s>> \in lost THEN Lost(evidence, x, s) \cup {c} ELSE Lost(evidence, x, s)
    <2> DEFINE mid == evidence \cup ran
    <2>1. \A e \in ran : e.arm = a
      BY RowsOfRuns
    <2>2. /\ evidence \subseteq mid /\ mid \subseteq evidence'
          /\ \A e \in evidence' : e \in mid \/ e.kind # "runtime_execution"
          /\ \A e \in mid : e \in evidence \/ e.arm = a
      BY <2>1
    <2>3. evidence \subseteq mid /\ ran \subseteq mid /\ \A e \in mid : e \in evidence \/ e \in ran
      OBVIOUS
    <2> HIDE DEF mid
    <2>4. /\ Won(evidence, x, s)' = Won(mid, x, s)
          /\ Lost(evidence, x, s)' = Lost(mid, x, s)
      <3>1. Won(evidence', x, s) = Won(mid, x, s) /\ Lost(evidence', x, s) = Lost(mid, x, s)
        BY <2>2, OtherRowsKeep
      <3>2. QED
        BY <3>1 DEF Won, Lost, RuntimeRows
    <2>5. CASE x # a
      <3>1. Won(mid, x, s) = Won(evidence, x, s) /\ Lost(mid, x, s) = Lost(evidence, x, s)
        <4>1. \A e \in mid : e \in evidence \/ e.arm # x \/ e.kind # "runtime_execution"
          BY <2>2, <2>5
        <4>2. QED
          BY <2>2, <4>1, OtherRowsKeep
      <3>2. <<x, s>> \notin won /\ <<x, s>> \notin lost
        BY <2>5
      <3>3. QED
        BY <2>4, <3>1, <3>2
    <2>6. CASE x = a
      <3>1. \A d : /\ d \in Won(mid, a, s) <=>
                        \/ d \in Won(evidence, a, s)
                        \/ d = c /\ \E i \in 1..k : run[i].spec = s /\ run[i].result = "hit"
                   /\ d \in Lost(mid, a, s) <=>
                        \/ d \in Lost(evidence, a, s)
                        \/ d = c /\ \E i \in 1..k : run[i].spec = s /\ run[i].result # "hit"
        <4>1. \A d : /\ d \in Won(ran, a, s) <=>
                          d = c /\ \E i \in 1..k : run[i].spec = s /\ run[i].result = "hit"
                     /\ d \in Lost(ran, a, s) <=>
                          d = c /\ \E i \in 1..k : run[i].spec = s /\ run[i].result # "hit"
          BY RunRowsRecord
        <4> HIDE DEF ran, run, c
        <4>2. /\ Won(mid, a, s) = Won(evidence, a, s) \cup Won(ran, a, s)
              /\ Lost(mid, a, s) = Lost(evidence, a, s) \cup Lost(ran, a, s)
          <5>1. RuntimeRows(mid, a, s) = RuntimeRows(evidence, a, s) \cup RuntimeRows(ran, a, s)
            BY <2>3 DEF RuntimeRows
          <5>2. QED
            BY <5>1 DEF Won, Lost
        <4>3. QED
          BY <4>1, <4>2
      <3>2. /\ <<a, s>> \in won <=> \E i \in 1..k : run[i].spec = s /\ run[i].result = "hit"
            /\ <<a, s>> \in lost <=> \E i \in 1..k : run[i].spec = s /\ run[i].result # "hit"
        OBVIOUS
      <3> HIDE DEF won, lost, run, ran, c
      <3>3. /\ Won(mid, a, s) =
                 IF <<a, s>> \in won THEN Won(evidence, a, s) \cup {c} ELSE Won(evidence, a, s)
            /\ Lost(mid, a, s) =
                 IF <<a, s>> \in lost THEN Lost(evidence, a, s) \cup {c} ELSE Lost(evidence, a, s)
        BY <3>1, <3>2
      <3>4. QED
        BY <2>4, <2>6, <3>3
    <2>7. QED
      BY <2>5, <2>6
  <1> HIDE DEF won, lost, c
  <1>9. /\ Wins' = [m \in Skills |-> IF m \in won THEN Wins[m] \cup {c} ELSE Wins[m]]
        /\ Losses' = [m \in Skills |-> IF m \in lost THEN Losses[m] \cup {c} ELSE Losses[m]]
    <2>1. \A m \in Skills : /\ m = <<m[1], m[2]>>
                              /\ m[1] \in UpdatingArms /\ m[2] \in Specs
      BY DEF Skills
    <2>2. ASSUME NEW m \in Skills
          PROVE  /\ Wins'[m] = IF m \in won THEN Wins[m] \cup {c} ELSE Wins[m]
                 /\ Losses'[m] = IF m \in lost THEN Losses[m] \cup {c} ELSE Losses[m]
      <3>1. PICK x \in UpdatingArms, s \in Specs : m = <<x, s>>
        BY <2>1
      <3>2. Wins[m] = Won(evidence, x, s) /\ Losses[m] = Lost(evidence, x, s)
        BY <3>1 DEF Wins, Losses
      <3>3. Wins'[m] = Won(evidence, x, s)' /\ Losses'[m] = Lost(evidence, x, s)'
        BY <3>1 DEF Wins, Losses
      <3>4. QED
        BY <1>8, <3>1, <3>2, <3>3
    <2>3. QED
      BY <2>2 DEF Wins, Losses
  <1>10. Tried(c, won, lost)
    BY <1>1, <1>4, <1>5, <1>7, <1>9 DEF Tried
  <1>11. QED
    BY <1>10 DEF c

\* What a commit leaves of its arm's three sets.
LEMMA CommitArmEffect ==
  ASSUME Inductive, NEW a \in Arms, CommitArm(a)
  PROVE  LET v == HeadVersion(a)
             novel == Novel(a, case_index)
             failing == {s \in (v.active \cup novel) \ v.stable : Given(a, s)'}
         IN  /\ HeadVersion(a)'.active = (v.active \cup novel) \ failing
             /\ HeadVersion(a)'.stable = v.stable
             /\ HeadVersion(a)'.retired = v.retired \cup failing
             /\ \A x \in Arms \ {a} : HeadVersion(x)' = HeadVersion(x)
PROOF
  <1> DEFINE c == case_index
             v == HeadVersion(a)
             rows == evidence \cup RunRows(a, c, Len(outcome[a].run))
                              \cup TapeRows(a, c, TapeSize(a, c))
             novel == Novel(a, c)
             failing == {s \in (v.active \cup novel) \ v.stable :
                           ShouldRetireProvisional(Won(rows, a, s), Lost(rows, a, s))}
             active == (v.active \cup novel) \ failing
             weights == [s \in Specs |->
                           IF s \in active THEN Posterior(rows, a, s) ELSE Prior]
             head == [active |-> active, stable |-> v.stable,
                      retired |-> v.retired \cup failing, weights |-> weights,
                      after |-> c, cause |-> "case"]
  <1>1. evidence' = rows /\ CommitVersion(a, head)
    BY DEF CommitArm
  <1>2. TypeOK
    BY DEF Inductive
  <1> HIDE DEF rows, novel, weights
  <1>3. \A s : Given(a, s)' <=> ShouldRetireProvisional(Won(rows, a, s), Lost(rows, a, s))
    BY <1>1 DEF Given, Won, Lost, RuntimeRows, ShouldRetireProvisional
  <1>4. failing = {s \in (v.active \cup novel) \ v.stable : Given(a, s)'}
    BY <1>3
  <1> HIDE DEF failing
  <1>5. /\ head.active = active /\ head.stable = v.stable
        /\ head.retired = v.retired \cup failing
    OBVIOUS
  <1> HIDE DEF head
  <1>6. HeadVersion(a)' = head /\ \A x \in Arms \ {a} : HeadVersion(x)' = HeadVersion(x)
    BY <1>1, <1>2, CommitHead
  <1>7. QED
    BY <1>4, <1>5, <1>6 DEF novel

\* What a step records of arms that did not run.
LEMMA RunsOfOthers ==
  ASSUME NEW a, evidence \subseteq evidence',
         \A e \in evidence' : e \in evidence \/ e.arm = a \/ e.kind # "runtime_execution"
  PROVE  \A x, s : x # a => /\ Won(evidence, x, s)' = Won(evidence, x, s)
                            /\ Lost(evidence, x, s)' = Lost(evidence, x, s)
PROOF
  <1> SUFFICES ASSUME NEW x, NEW s, x # a
               PROVE  /\ Won(evidence', x, s) = Won(evidence, x, s)
                      /\ Lost(evidence', x, s) = Lost(evidence, x, s)
    BY DEF Won, Lost, RuntimeRows
  <1>1. \A e \in evidence' : e \in evidence \/ e.arm # x \/ e.kind # "runtime_execution"
    OBVIOUS
  <1>2. QED
    BY <1>1, OtherRowsKeep

\* What a step without runs records.
LEMMA NoRuns ==
  ASSUME evidence \subseteq evidence',
         \A e \in evidence' : e \in evidence \/ e.kind # "runtime_execution"
  PROVE  \A x, s : /\ Won(evidence, x, s)' = Won(evidence, x, s)
                   /\ Lost(evidence, x, s)' = Lost(evidence, x, s)
PROOF
  <1> SUFFICES ASSUME NEW x, NEW s
               PROVE  /\ Won(evidence', x, s) = Won(evidence, x, s)
                      /\ Lost(evidence', x, s) = Lost(evidence, x, s)
    BY DEF Won, Lost, RuntimeRows
  <1>1. \A e \in evidence' : e \in evidence \/ e.arm # x \/ e.kind # "runtime_execution"
    OBVIOUS
  <1>2. QED
    BY <1>1, OtherRowsKeep

\* The four cases of LifecycleState.
LEMMA StateOf ==
  \A v, s :
    /\ s \in v.retired => LifecycleState(v, s) = "retired"
    /\ s \notin v.retired /\ s \in v.stable => LifecycleState(v, s) = "stable"
    /\ s \notin v.retired /\ s \notin v.stable /\ s \in v.active =>
         LifecycleState(v, s) = "provisional_active"
    /\ s \notin v.retired /\ s \notin v.stable /\ s \notin v.active =>
         LifecycleState(v, s) = "candidate"
BY DEF LifecycleState

\* What keeps one revision's part of Faithful.
LEMMA SameGiven ==
  ASSUME NEW a, NEW s, Won(evidence, a, s)' = Won(evidence, a, s),
         Lost(evidence, a, s)' = Lost(evidence, a, s)
  PROVE  Given(a, s)' <=> Given(a, s)
BY DEF Given, ShouldRetireProvisional

LEMMA SameAnchors == ASSUME anchors' = anchors PROVE Anchored' = Anchored
BY DEF Anchored, Skills

-----------------------------------------------------------------------------
(* Every action.                                                           *)

\* Evaluation reads heads and writes nothing that the contract sees; the runs
\* it holds are of distinct revisions on a case without rows.
LEMMA EvaluateMapped ==
  ASSUME Invariant, EvaluateCase
  PROVE  Faithful' /\ UNCHANGED Lifecycle!vars
PROOF
  <1> DEFINE c == case_index + 1
  <1>1. TypeOK /\ NothingFromTheFuture
    BY DEF Invariant, Inductive
  <1>2. PICK p \in Runs("patterned", c), u \in Runs("unkeyed_global", c),
             n \in Runs("no_update", c), tape \in TapeSelections(c) :
          /\ outcome' = [a \in Arms |->
               [version |-> Len(versions[a]),
                run |-> IF a = "patterned" THEN p
                        ELSE IF a = "unkeyed_global" THEN u ELSE n]]
          /\ tapes' = Append(tapes, tape)
    BY DEF EvaluateCase
  <1>3. /\ phase = "evaluate" /\ phase' = "commit"
        /\ UNCHANGED <<born, evidence, versions, lifecycle, anchors, auditing>>
    BY DEF EvaluateCase, ledger
  <1>4. \A a : HeadVersion(a)' = HeadVersion(a)
    BY <1>3 DEF HeadVersion
  <1>5. \A a, s : /\ Won(evidence, a, s)' = Won(evidence, a, s)
                  /\ Lost(evidence, a, s)' = Lost(evidence, a, s)
    BY <1>3 DEF Won, Lost, RuntimeRows
  <1>6. UNCHANGED Lifecycle!vars
    <2>1. State' = State /\ Wins' = Wins /\ Losses' = Losses /\ Anchored' = Anchored
      BY <1>3, <1>4, <1>5, SameState, SameRecord, SameAnchors
    <2>2. Halted' = Halted
      BY <1>3 DEF Halted
    <2>3. QED
      BY <2>1, <2>2, StutterMapped
  <1>7. ASSUME NEW a \in Arms PROVE RunIsDistinct(a)'
    <2> DEFINE S == Candidates(a, c)
    <2>1. S \in SUBSET Specs /\ IsFiniteSet(S)
      <3>1. S \subseteq HeadVersion(a).active /\ HeadVersion(a).active \subseteq Specs
        BY <1>1, HeadType DEF Candidates, Versions
      <3>2. IsFiniteSet(Specs)
        BY ConstantsAssumption
      <3>3. QED
        BY <3>1, <3>2, FS_Subset
    <2>2. outcome'[a].run \in Runs(a, c)
      BY <1>2 DEF Arms
    <2>3. PICK queue \in RetrieveRevisions(a, c) : outcome'[a].run \in Executions(queue)
      BY <2>2 DEF Runs
    <2>4. queue \in Seq(S) /\ Distinct(queue)
      BY <2>1, RetrievedType, RetrievedDistinct
    <2> HIDE DEF S
    <2>5. \A i, j \in DOMAIN outcome'[a].run :
            outcome'[a].run[i].spec = outcome'[a].run[j].spec => i = j
      BY <2>3, <2>4, ExecutionDistinct
    <2>6. QED
      BY <2>5 DEF RunIsDistinct
  <1>8. \A e \in evidence' : e.case # case_index'
    <2>1. case_index \in Nat /\ tapes \in Seq(Seq(Specs))
      BY <1>1, CaseIndexType DEF TypeOK
    <2>2. \A e \in evidence : e.case \in Nat /\ e.case <= case_index
      BY <1>1 DEF TypeOK, EvidenceEvents, NothingFromTheFuture
    <2>3. case_index' = case_index + 1
      <3>1. tapes \in Seq(Seq(Specs) \cup {tape}) /\ tape \in Seq(Specs) \cup {tape}
        BY <2>1, SeqMonotonic
      <3>2. QED
        BY <1>2, <3>1, AppendProperties DEF case_index
    <2>4. QED
      BY <1>3, <2>1, <2>2, <2>3
  <1>9. Faithful'
    <2>1. ASSUME NEW a \in UpdatingArms, NEW s \in Specs
          PROVE  /\ s \in HeadVersion(a)'.stable => s \notin HeadVersion(a)'.retired
                 /\ <<a, s>> \in auditing' => s \in HeadVersion(a)'.stable
                 /\ s \in HeadVersion(a)'.active \ HeadVersion(a)'.stable => ~Given(a, s)'
      <3>1. Given(a, s)' <=> Given(a, s)
        BY <1>5, SameGiven
      <3>2. QED
        BY <1>3, <1>4, <3>1 DEF Invariant, Faithful
    <2>2. QED
      BY <1>7, <1>8, <2>1 DEF Faithful
  <1>10. QED
    BY <1>6, <1>9

\* A novel revision was in none of the sets and no run can have been its own.
LEMMA NovelIsFresh ==
  ASSUME Invariant, NEW a \in Arms, CommitArm(a), NEW s \in Novel(a, case_index)
  PROVE  /\ s \notin HeadVersion(a).active \cup HeadVersion(a).stable \cup HeadVersion(a).retired
         /\ ~Given(a, s)' /\ s \in Specs
PROOF
  <1>1. Inductive /\ Settled /\ Inductive' /\ phase = "commit" /\ a = EVOLUTION_ARMS[arm]
    BY CommitArmInductive DEF Invariant, CommitArm
  <1>2. TypeOK /\ case_index \in 1..N
    BY <1>1, TurnPending DEF Inductive
  <1>3. s \in Specs /\ born[a][s] = 0
    BY <1>2, TapeSizeType DEF Novel
  <1>4. s \notin HeadVersion(a).active \cup HeadVersion(a).stable \cup HeadVersion(a).retired
    BY <1>1, <1>3 DEF Settled
  <1>5. born'[a][s] = case_index /\ case_index' = case_index
    <2>1. /\ born' = [born EXCEPT ![a] =
               [t \in Specs |-> IF t \in Novel(a, case_index) THEN case_index ELSE @[t]]]
          /\ tapes' = tapes
      BY DEF CommitArm
    <2>2. born \in [Arms -> [Specs -> Nat]]
      BY <1>2 DEF TypeOK
    <2>3. QED
      BY <1>3, <2>1, <2>2 DEF case_index
  <1>6. ASSUME NEW e \in evidence', e.arm = a, e.spec = s, e.kind = "runtime_execution"
        PROVE  FALSE
    <2>1. born'[a][s] < e.case /\ e.case <= case_index'
      BY <1>1, <1>6 DEF Inductive, EvaluateBeforeUpdate, ReadBeforeCase, NothingFromTheFuture
    <2>2. e.case \in Nat
      BY <1>1, <1>6 DEF Inductive, TypeOK, EvidenceEvents
    <2>3. QED
      BY <1>2, <1>5, <2>1, <2>2
  <1>7. RuntimeRows(evidence', a, s) = {}
    BY <1>6 DEF RuntimeRows
  <1>8. Lost(evidence', a, s) = {}
    BY <1>7 DEF Lost
  <1>9. Cardinality({}) = 0
    BY FS_EmptySet
  <1>10. ~ShouldRetireProvisional(Won(evidence', a, s), Lost(evidence', a, s))
    BY <1>8, <1>9 DEF ShouldRetireProvisional
  <1>11. ~Given(a, s)'
    BY <1>10 DEF Given
  <1>12. QED
    BY <1>3, <1>4, <1>11

\* The arm's new head keeps what Faithful says of it, whatever the commit keeps.
LEMMA CommitArmFaithful ==
  ASSUME Invariant, NEW a \in Arms, CommitArm(a)
  PROVE  Faithful'
PROOF
  <1> DEFINE v == HeadVersion(a)
             novel == Novel(a, case_index)
             failing == {s \in (v.active \cup novel) \ v.stable : Given(a, s)'}
             ran == RunRows(a, case_index, Len(outcome[a].run))
             shown == TapeRows(a, case_index, TapeSize(a, case_index))
  <1>1. /\ phase = "commit" /\ a = EVOLUTION_ARMS[arm]
        /\ evidence' = evidence \cup ran \cup shown
        /\ IF arm < Len(EVOLUTION_ARMS)
           THEN arm' = arm + 1 /\ phase' = phase
           ELSE arm' = 1 /\ phase' = "promote"
        /\ UNCHANGED <<outcome, tapes, auditing>>
    BY DEF CommitArm
  <1>2. /\ Inductive /\ Settled /\ Faithful /\ TypeOK /\ arm \in 1..3
    BY DEF Invariant, Inductive, TypeOK
  <1>3. /\ HeadVersion(a)'.active = (v.active \cup novel) \ failing
        /\ HeadVersion(a)'.stable = v.stable
        /\ HeadVersion(a)'.retired = v.retired \cup failing
        /\ \A x \in Arms \ {a} : HeadVersion(x)' = HeadVersion(x)
    BY <1>2, CommitArmEffect
  <1>4. \A x, s : x # a => (Given(x, s)' <=> Given(x, s))
    <2>1. /\ evidence \subseteq evidence'
          /\ \A e \in evidence' : e \in evidence \/ e.arm = a \/ e.kind # "runtime_execution"
      BY <1>1, RowsOfRuns, RowsOfTapes
    <2>2. \A x, s : x # a => /\ Won(evidence, x, s)' = Won(evidence, x, s)
                             /\ Lost(evidence, x, s)' = Lost(evidence, x, s)
      BY <2>1, RunsOfOthers
    <2>3. QED
      BY <2>2, SameGiven
  <1>5. ASSUME NEW x \in UpdatingArms, NEW s \in Specs
        PROVE  /\ s \in HeadVersion(x)'.stable => s \notin HeadVersion(x)'.retired
               /\ <<x, s>> \in auditing' => s \in HeadVersion(x)'.stable
               /\ s \in HeadVersion(x)'.active \ HeadVersion(x)'.stable => ~Given(x, s)'
    <2>1. /\ x \in Arms
          /\ s \in HeadVersion(x).stable => s \notin HeadVersion(x).retired
          /\ <<x, s>> \in auditing => s \in HeadVersion(x).stable
          /\ s \in HeadVersion(x).active \ HeadVersion(x).stable => ~Given(x, s)
      BY <1>1, <1>2 DEF Faithful, UpdatingArms
    <2> HIDE DEF novel
    <2>2. CASE x = a
      BY <1>1, <1>3, <2>1, <2>2
    <2>3. CASE x # a
      BY <1>1, <1>3, <1>4, <2>1, <2>3
    <2>4. QED
      BY <2>2, <2>3
  <1>6. ASSUME phase' = "commit"
        PROVE  /\ \A x \in Arms : RunIsDistinct(x)'
               /\ \A x \in PendingArms', e \in evidence' :
                    e.arm = x /\ e.kind = "runtime_execution" => e.case # case_index'
    <2>1. \A x \in Arms : RunIsDistinct(x)'
      BY <1>1, <1>2 DEF Faithful, RunIsDistinct
    <2>2. ASSUME NEW x \in PendingArms' PROVE x \in PendingArms /\ x # a
      <3>1. arm' = arm + 1
        BY <1>1, <1>6
      <3>2. PICK i \in arm'..3 : EVOLUTION_ARMS[i] = x
        BY DEF PendingArms
      <3>3. i \in arm..3 /\ i # arm /\ i \in 1..3
        BY <1>2, <3>1, <3>2
      <3>4. x # a
        BY <1>1, <1>2, <3>2, <3>3 DEF EVOLUTION_ARMS
      <3>5. QED
        BY <3>2, <3>3, <3>4 DEF PendingArms
    <2>3. ASSUME NEW x \in PendingArms', NEW e \in evidence', e.arm = x,
                 e.kind = "runtime_execution"
          PROVE  e.case # case_index'
      <3>1. e \in evidence
        <4>1. e \notin ran
          BY <2>2, <2>3, RowsOfRuns
        <4>2. e \notin shown
          BY <2>3, RowsOfTapes
        <4>3. QED
          BY <1>1, <4>1, <4>2
      <3>2. QED
        BY <1>1, <1>2, <2>2, <2>3, <3>1 DEF Faithful, case_index
    <2>4. QED
      BY <2>1, <2>3
  <1>7. QED
    BY <1>5, <1>6 DEF Faithful

\* A commit of an updating arm tries its run's revisions, deposits the novel ones
\* and gives up the failing ones; that of no_update decides nothing.
LEMMA CommitArmMapped ==
  ASSUME Invariant, NEW a \in Arms, CommitArm(a)
  PROVE  Lifecycle!Next \/ UNCHANGED Lifecycle!vars
PROOF
  <1> DEFINE v == HeadVersion(a)
             novel == Novel(a, case_index)
             failing == {s \in (v.active \cup novel) \ v.stable : Given(a, s)'}
             n == Len(outcome[a].run)
             shown == TapeRows(a, case_index, TapeSize(a, case_index))
  <1>1. /\ phase = "commit" /\ a = EVOLUTION_ARMS[arm]
        /\ evidence' = evidence \cup RunRows(a, case_index, n) \cup shown
        /\ phase' \in {"commit", "promote"} /\ anchors' = anchors
    BY DEF CommitArm
  <1>2. /\ Inductive /\ Settled /\ Faithful /\ TypeOK
    BY DEF Invariant, Inductive
  <1>3. /\ HeadVersion(a)'.active = (v.active \cup novel) \ failing
        /\ HeadVersion(a)'.stable = v.stable
        /\ HeadVersion(a)'.retired = v.retired \cup failing
        /\ \A x \in Arms \ {a} : HeadVersion(x)' = HeadVersion(x)
    BY <1>2, CommitArmEffect
  <1>4. \A e \in shown : e.kind # "runtime_execution"
    BY RowsOfTapes
  <1>5. Anchored' = Anchored /\ ~Halted /\ Halted' = Halted
    BY <1>1, SameAnchors DEF Halted
  <1>6. \A x, s : x # a => /\ Won(evidence, x, s)' = Won(evidence, x, s)
                           /\ Lost(evidence, x, s)' = Lost(evidence, x, s)
    <2>1. /\ evidence \subseteq evidence'
          /\ \A e \in evidence' : e \in evidence \/ e.arm = a \/ e.kind # "runtime_execution"
      BY <1>1, <1>4, RowsOfRuns
    <2>2. QED
      BY <2>1, RunsOfOthers
  <1>7. CASE a = "no_update"
    <2>1. \A x \in UpdatingArms : x # a /\ x \in Arms
      BY <1>7 DEF UpdatingArms
    <2>2. State' = State /\ Wins' = Wins /\ Losses' = Losses
      BY <1>3, <1>6, <2>1, SameState, SameRecord
    <2>3. QED
      BY <1>5, <2>2, StutterMapped
  <1>8. CASE a \in UpdatingArms
    <2> DEFINE deposited == {<<a, s>> : s \in novel}
    <2>1. \E won, lost : Tried(case_index, won, lost)
      <3>1. outcome[a].run \in Seq(Attempts)
        BY <1>2 DEF TypeOK
      <3>2. n \in Nat /\ n <= Len(outcome[a].run)
        BY <3>1, LenProperties
      <3> HIDE DEF n, shown
      <3>3. QED
        BY <1>1, <1>4, <1>8, <3>2, RunTried
    <2>2. \A s \in novel : /\ s \notin v.active \cup v.stable \cup v.retired
                           /\ ~Given(a, s)' /\ s \in Specs
      BY NovelIsFresh
    <2> HIDE DEF novel
    <2>3. deposited \in SUBSET Skills /\ \A k \in deposited : State[k] = "candidate"
      BY <1>8, <2>2 DEF Skills, State, LifecycleState
    <2>4. ASSUME NEW x \in UpdatingArms, NEW s \in Specs
          PROVE  LifecycleState(HeadVersion(x)', s) =
                   IF <<x, s>> \in deposited THEN "provisional_active"
                   ELSE IF /\ LifecycleState(HeadVersion(x), s) = "provisional_active"
                           /\ Given(x, s)'
                        THEN "retired" ELSE LifecycleState(HeadVersion(x), s)
      <3>1. /\ x \in Arms
            /\ s \in HeadVersion(x).retired => s \notin HeadVersion(x).active
            /\ s \in HeadVersion(x).stable => s \notin HeadVersion(x).retired
            /\ s \in HeadVersion(x).active \ HeadVersion(x).stable => ~Given(x, s)
        BY <1>1, <1>2 DEF Settled, Faithful, UpdatingArms
      <3>2. CASE x # a
        <4>1. HeadVersion(x)' = HeadVersion(x) /\ (Given(x, s)' <=> Given(x, s))
          BY <1>3, <1>6, <3>1, <3>2, SameGiven
        <4>2. LifecycleState(HeadVersion(x), s) = "provisional_active" => ~Given(x, s)
          BY <3>1 DEF LifecycleState
        <4>3. <<x, s>> \notin deposited
          BY <3>2
        <4>4. QED
          BY <4>1, <4>2, <4>3
      <3>3. CASE x = a
        <4> DEFINE w == HeadVersion(a)'
        <4>1. /\ w.active = (v.active \cup novel) \ failing
              /\ w.stable = v.stable /\ w.retired = v.retired \cup failing
          BY <1>3
        <4>2. <<x, s>> \in deposited <=> s \in novel
          BY <3>3
        <4>3. s \in failing <=> s \in (v.active \cup novel) \ v.stable /\ Given(a, s)'
          OBVIOUS
        <4>4. s \in novel => s \notin v.active \cup v.stable \cup v.retired /\ ~Given(a, s)'
          BY <2>2
        <4>5. /\ s \in v.retired => s \notin v.active
              /\ s \in v.stable => s \notin v.retired
          BY <3>1, <3>3
        <4> HIDE DEF v, w, failing, deposited
        <4>6. s \in novel => LifecycleState(w, s) = "provisional_active"
          BY <4>1, <4>3, <4>4, StateOf
        <4>7. s \notin novel /\ s \in failing =>
                /\ LifecycleState(v, s) = "provisional_active" /\ Given(a, s)'
                /\ LifecycleState(w, s) = "retired"
          BY <4>1, <4>3, <4>5, StateOf
        <4>8. s \notin novel /\ s \notin failing =>
                /\ LifecycleState(w, s) = LifecycleState(v, s)
                /\ LifecycleState(v, s) = "provisional_active" => ~Given(a, s)'
          BY <4>1, <4>3, <4>5, StateOf
        <4>9. QED
          BY <3>3, <4>2, <4>6, <4>7, <4>8 DEF v, w
      <3>4. QED
        BY <3>2, <3>3
    <2> HIDE DEF deposited
    <2>5. State' = [k \in Skills |->
            IF k \in deposited THEN "provisional_active"
            ELSE IF /\ State[k] = "provisional_active"
                    /\ ShouldRetireProvisional(Wins'[k], Losses'[k])
                 THEN "retired" ELSE State[k]]
      <3>1. ASSUME NEW k \in Skills
            PROVE  State'[k] =
                     IF k \in deposited THEN "provisional_active"
                     ELSE IF /\ State[k] = "provisional_active"
                             /\ ShouldRetireProvisional(Wins'[k], Losses'[k])
                          THEN "retired" ELSE State[k]
        <4>1. PICK x \in UpdatingArms, s \in Specs : k = <<x, s>>
          BY DEF Skills
        <4>2. /\ State[k] = LifecycleState(HeadVersion(x), s)
              /\ State'[k] = LifecycleState(HeadVersion(x)', s)
          BY <4>1 DEF State
        <4>3. ShouldRetireProvisional(Wins'[k], Losses'[k]) <=> Given(x, s)'
          BY <4>1 DEF Wins, Losses, Given
        <4>4. QED
          BY <2>4, <4>1, <4>2, <4>3
      <3>2. QED
        BY <3>1 DEF State
    <2>6. QED
      BY <1>5, <2>1, <2>3, <2>5, CommitMapped
  <1>9. QED
    BY <1>7, <1>8 DEF UpdatingArms

\* A promotion moves one active revision into the stable set of its head.
LEMMA PromoteFaithful ==
  ASSUME Invariant, NEW a \in UpdatingArms, NEW s \in Specs, Promote(a, s)
  PROVE  Faithful'
PROOF
  <1> DEFINE v == HeadVersion(a)
             head == [v EXCEPT !.stable = @ \cup {s}, !.after = case_index,
                               !.cause = "promotion"]
  <1>1. /\ phase = "promote" /\ CommitVersion(a, head)
        /\ s \in v.active \ v.stable
        /\ UNCHANGED <<phase, arm, outcome, tapes, born, evidence, auditing>>
    BY DEF Promote, Eligible
  <1>2. /\ Settled /\ Faithful /\ TypeOK /\ a \in Arms /\ v \in Versions
    BY HeadType DEF Invariant, Inductive, UpdatingArms
  <1>3. /\ head.active = v.active /\ head.stable = v.stable \cup {s}
        /\ head.retired = v.retired
    BY <1>2 DEF Versions
  <1> HIDE DEF head
  <1>4. HeadVersion(a)' = head /\ \A x \in Arms \ {a} : HeadVersion(x)' = HeadVersion(x)
    BY <1>1, <1>2, CommitHead
  <1>5. s \notin v.retired
    BY <1>1, <1>2 DEF Settled
  <1>6. ASSUME NEW x \in UpdatingArms, NEW t \in Specs
        PROVE  /\ t \in HeadVersion(x)'.stable => t \notin HeadVersion(x)'.retired
               /\ <<x, t>> \in auditing' => t \in HeadVersion(x)'.stable
               /\ t \in HeadVersion(x)'.active \ HeadVersion(x)'.stable => ~Given(x, t)'
    <2>1. Given(x, t)' <=> Given(x, t)
      <3>1. /\ Won(evidence, x, t)' = Won(evidence, x, t)
            /\ Lost(evidence, x, t)' = Lost(evidence, x, t)
        BY <1>1 DEF Won, Lost, RuntimeRows
      <3>2. QED
        BY <3>1, SameGiven
    <2>2. /\ x \in Arms
          /\ t \in HeadVersion(x).stable => t \notin HeadVersion(x).retired
          /\ <<x, t>> \in auditing => t \in HeadVersion(x).stable
          /\ t \in HeadVersion(x).active \ HeadVersion(x).stable => ~Given(x, t)
      BY <1>1, <1>2 DEF Faithful, UpdatingArms
    <2>3. CASE x = a
      BY <1>1, <1>3, <1>4, <1>5, <2>1, <2>2, <2>3
    <2>4. CASE x # a
      BY <1>1, <1>4, <2>1, <2>2, <2>4
    <2>5. QED
      BY <2>3, <2>4
  <1>7. QED
    BY <1>1, <1>6 DEF Faithful

\* Runs are of cases of the stream.
LEMMA WonAreCases ==
  ASSUME Inductive, NEW a, NEW s
  PROVE  Won(evidence, a, s) \subseteq 1..N
PROOF
  <1>1. ASSUME NEW e \in evidence, e.kind = "runtime_execution"
        PROVE  e.case \in 1..N
    <2>1. /\ TypeOK /\ e \in EvidenceEvents /\ ReadBeforeCase(e) /\ e.case <= case_index
      BY <1>1 DEF TypeOK, Inductive, EvaluateBeforeUpdate, NothingFromTheFuture
    <2>2. e.case \in Nat /\ born[e.arm][e.spec] \in Nat /\ born[e.arm][e.spec] < e.case
      BY <2>1 DEF EvidenceEvents, TypeOK, ReadBeforeCase
    <2>3. case_index \in Nat /\ case_index <= N /\ N \in Nat
      BY <2>1, CaseIndexType
    <2>4. QED
      BY <2>1, <2>2, <2>3
  <1>2. QED
    BY <1>1, RecordRows

\* Every case of the stream names its family.
FamiliesNamed == \A c \in 1..N : RecurrenceFamily[c] # NoFamily

\* A promoted revision is provisional and its anchors are three of its successes
\* of two families; where no family is None, both counts of promotion_decision
\* are that of the contract.
LEMMA PromoteIsMapped ==
  ASSUME FamiliesNamed, Invariant, NEW a \in UpdatingArms, NEW s \in Specs, Promote(a, s)
  PROVE  Lifecycle!Next
PROOF
  <1> DEFINE v == HeadVersion(a)
             next == Len(versions[a]) + 1
             head == [v EXCEPT !.stable = @ \cup {s}, !.after = case_index,
                               !.cause = "promotion"]
  <1>1. /\ phase = "promote" /\ CommitVersion(a, head)
        /\ s \in v.active \ v.stable
        /\ UNCHANGED <<phase, arm, outcome, tapes, born, evidence, auditing>>
    BY DEF Promote, Eligible
  <1>2. PICK T : /\ IsValidationTriple(T, Won(evidence, a, s), RecurrenceFamily)
                 /\ anchors' = [anchors EXCEPT ![a][s] = [cases |-> T, version |-> next]]
    BY DEF Promote
  <1>3. /\ Inductive /\ Settled /\ Faithful /\ TypeOK /\ a \in Arms /\ v \in Versions
    BY HeadType DEF Invariant, Inductive, UpdatingArms
  <1>4. /\ head.active = v.active /\ head.stable = v.stable \cup {s}
        /\ head.retired = v.retired
    BY <1>3 DEF Versions
  <1> HIDE DEF head
  <1>5. HeadVersion(a)' = head /\ \A x \in Arms \ {a} : HeadVersion(x)' = HeadVersion(x)
    BY <1>1, <1>3, CommitHead
  <1>6. \A x, t : /\ Won(evidence, x, t)' = Won(evidence, x, t)
                  /\ Lost(evidence, x, t)' = Lost(evidence, x, t)
    BY <1>1 DEF Won, Lost, RuntimeRows
  <1>7. s \notin v.retired
    BY <1>1, <1>3 DEF Settled
  <1>8. Won(evidence, a, s) \subseteq 1..N
    BY <1>3, WonAreCases
  <1>9. T \subseteq Won(evidence, a, s) /\ Cardinality(T) = 3 /\ CrossFamily(T, RecurrenceFamily)
    <2> DEFINE S == Won(evidence, a, s)
    <2>1. N \in Nat /\ IsFiniteSet(1..N)
      BY ConstantsAssumption, FS_Interval
    <2>2. S \in SUBSET Nat /\ IsFiniteSet(S)
      BY <1>8, <2>1, FS_Subset
    <2>3. \A c \in S : RecurrenceFamily[c] # NoFamily
      BY <1>8 DEF FamiliesNamed
    <2> HIDE DEF S
    <2>4. T \subseteq S
      BY <1>2, TripleAmongSuccesses DEF S
    <2>5. Cardinality(T) = 3 /\ CrossFamily(T, RecurrenceFamily)
      BY <1>2, <2>2, <2>3, TripleIsCrossFamily DEF S
    <2>6. QED
      BY <2>4, <2>5 DEF S
  <1>10. Lifecycle!Next
    <2> DEFINE k == <<a, s>>
    <2>1. k \in Skills /\ State[k] = "provisional_active" /\ Wins[k] = Won(evidence, a, s)
      <3>1. LifecycleState(v, s) = "provisional_active"
        BY <1>1, <1>7, StateOf
      <3>2. QED
        BY <3>1 DEF Skills, State, Wins
    <2>2. ASSUME NEW x \in UpdatingArms, NEW t \in Specs
          PROVE  /\ <<x, t>> = k => /\ LifecycleState(HeadVersion(x)', t) = "stable"
                                    /\ anchors'[x][t].cases = T
                 /\ <<x, t>> # k =>
                      /\ LifecycleState(HeadVersion(x)', t) = LifecycleState(HeadVersion(x), t)
                      /\ anchors'[x][t] = anchors[x][t]
      <3>1. anchors \in [Arms -> [Specs -> [cases : SUBSET Nat, version : Nat]]] /\ x \in Arms
        BY <1>3 DEF TypeOK, UpdatingArms
      <3>2. /\ <<x, t>> = k => anchors'[x][t].cases = T
            /\ <<x, t>> # k => anchors'[x][t] = anchors[x][t]
        BY <1>2, <1>3, <3>1
      <3>3. x = a /\ t = s => LifecycleState(HeadVersion(x)', t) = "stable"
        BY <1>4, <1>5, <1>7, StateOf
      <3>4. x = a /\ t # s => LifecycleState(head, t) = LifecycleState(v, t)
        BY <1>4, StateOf
      <3>5. QED
        BY <1>5, <3>1, <3>2, <3>3, <3>4
    <2>3. ASSUME NEW m \in Skills
          PROVE  /\ State'[m] = IF m = k THEN "stable" ELSE State[m]
                 /\ Anchored'[m] = IF m = k THEN T ELSE Anchored[m]
      <3>1. PICK x \in UpdatingArms, t \in Specs : m = <<x, t>>
        BY DEF Skills
      <3>2. /\ State[m] = LifecycleState(HeadVersion(x), t)
            /\ State'[m] = LifecycleState(HeadVersion(x)', t)
            /\ Anchored[m] = anchors[x][t].cases /\ Anchored'[m] = anchors'[x][t].cases
        BY <3>1 DEF State, Anchored
      <3> HIDE DEF k
      <3>3. QED
        BY <2>2, <3>1, <3>2
    <2> HIDE DEF k
    <2>4. State' = [State EXCEPT ![k] = "stable"] /\ Anchored' = [Anchored EXCEPT ![k] = T]
      BY <2>3 DEF State, Anchored
    <2>5. Wins' = Wins /\ Losses' = Losses /\ ~Halted /\ Halted' = Halted
      BY <1>1, <1>6, SameRecord DEF Halted
    <2>6. QED
      BY <1>9, <2>1, <2>4, <2>5, PromoteMapped
  <1>11. QED
    BY <1>10

\* Steps that leave heads and runs alone keep Faithful; the contract sees nothing
\* of them but an abort.
LEMMA QuietStep ==
  ASSUME Invariant, phase # "aborted", UNCHANGED <<versions, anchors>>,
         evidence \subseteq evidence',
         \A e \in evidence' : e \in evidence \/ e.kind # "runtime_execution",
         phase' # "commit", auditing' \subseteq auditing \cup StableRevisions
  PROVE  /\ Faithful'
         /\ phase' # "aborted" => UNCHANGED Lifecycle!vars
         /\ phase' = "aborted" => Lifecycle!Next
PROOF
  <1>1. \A x : HeadVersion(x)' = HeadVersion(x)
    BY DEF HeadVersion
  <1>2. \A x, s : /\ Won(evidence, x, s)' = Won(evidence, x, s)
                  /\ Lost(evidence, x, s)' = Lost(evidence, x, s)
    BY NoRuns
  <1>3. ASSUME NEW x \in UpdatingArms, NEW s \in Specs
        PROVE  /\ s \in HeadVersion(x)'.stable => s \notin HeadVersion(x)'.retired
               /\ <<x, s>> \in auditing' => s \in HeadVersion(x)'.stable
               /\ s \in HeadVersion(x)'.active \ HeadVersion(x)'.stable => ~Given(x, s)'
    <2>1. Given(x, s)' <=> Given(x, s)
      BY <1>2, SameGiven
    <2>2. /\ s \in HeadVersion(x).stable => s \notin HeadVersion(x).retired
          /\ <<x, s>> \in auditing => s \in HeadVersion(x).stable
          /\ s \in HeadVersion(x).active \ HeadVersion(x).stable => ~Given(x, s)
      BY DEF Invariant, Faithful
    <2>3. <<x, s>> \in auditing' => <<x, s>> \in auditing \/ s \in HeadVersion(x).stable
      BY DEF StableRevisions
    <2>4. QED
      BY <1>1, <2>1, <2>2, <2>3
  <1>4. Faithful'
    BY <1>3 DEF Faithful
  <1>5. State' = State /\ Wins' = Wins /\ Losses' = Losses /\ Anchored' = Anchored /\ ~Halted
    BY <1>1, <1>2, SameState, SameRecord, SameAnchors DEF Halted
  <1>6. phase' # "aborted" => UNCHANGED Lifecycle!vars
    <2>1. phase' # "aborted" => Halted' = Halted
      BY DEF Halted
    <2>2. QED
      BY <1>5, <2>1, StutterMapped
  <1>7. phase' = "aborted" => Lifecycle!Next
    <2>1. phase' = "aborted" => Halted'
      BY DEF Halted
    <2>2. QED
      BY <1>5, <2>1, HaltMapped
  <1>8. QED
    BY <1>4, <1>6, <1>7

\* The end of an arm's promotions takes up the stable revisions at most.
LEMMA EndPromotionMapped ==
  ASSUME Invariant, NEW a \in UpdatingArms, EndPromotion(a)
  PROVE  Faithful' /\ UNCHANGED Lifecycle!vars
PROOF
  <1>1. /\ phase = "promote" /\ UNCHANGED <<versions, anchors, evidence>>
        /\ auditing' \subseteq auditing \cup StableRevisions
        /\ phase' \in {"promote", "audit", NextCase}
    BY DEF EndPromotion, ledger
  <1>2. phase' \notin {"commit", "aborted"}
    BY <1>1 DEF NextCase
  <1>3. QED
    BY <1>1, <1>2, QuietStep

\* An audit retires a stable revision or, for the contract, does nothing.
LEMMA AuditMapped ==
  ASSUME Invariant, NEW a \in UpdatingArms, NEW s \in Specs, AuditRevision(a, s)
  PROVE  Faithful' /\ (Lifecycle!Next \/ UNCHANGED Lifecycle!vars)
PROOF
  <1>1. /\ phase = "audit" /\ <<a, s>> \in auditing /\ auditing' = auditing \ {<<a, s>>}
        /\ UNCHANGED anchors
        /\ Retire(a, s) \/ UNCHANGED versions
        /\ phase' \in {"audit", NextCase}
    BY DEF AuditRevision, NextToAudit
  <1>2. phase' \notin {"commit", "aborted"}
    BY <1>1 DEF NextCase
  <1>3. /\ evidence \subseteq evidence'
        /\ \A e \in evidence' : e \in evidence \/ e.kind # "runtime_execution"
    <2>1. PICK replay \in Replays(a, s) :
            evidence' = evidence \cup ReplayRows(a, s, replay, AnchorCases(a, s))
      BY DEF AuditRevision
    <2>2. QED
      BY <2>1, RowsOfReplays
  <1>4. CASE UNCHANGED versions
    BY <1>1, <1>2, <1>3, <1>4, QuietStep
  <1>5. CASE Retire(a, s)
    <2> DEFINE v == HeadVersion(a)
               head == [v EXCEPT !.active = @ \ {s}, !.stable = @ \ {s},
                                 !.retired = @ \cup {s}, !.after = case_index,
                                 !.cause = "checkpoint"]
    <2>1. /\ Settled /\ Faithful /\ TypeOK /\ a \in Arms /\ v \in Versions
      BY HeadType DEF Invariant, Inductive, UpdatingArms
    <2>2. CommitVersion(a, head)
      BY <1>5 DEF Retire
    <2>3. /\ head.active = v.active \ {s} /\ head.stable = v.stable \ {s}
          /\ head.retired = v.retired \cup {s}
      BY <2>1 DEF Versions
    <2> HIDE DEF head
    <2>4. HeadVersion(a)' = head /\ \A x \in Arms \ {a} : HeadVersion(x)' = HeadVersion(x)
      BY <2>1, <2>2, CommitHead
    <2>5. \A x, t : /\ Won(evidence, x, t)' = Won(evidence, x, t)
                    /\ Lost(evidence, x, t)' = Lost(evidence, x, t)
      BY <1>3, NoRuns
    <2>6. s \in v.stable /\ s \notin v.retired
      BY <1>1, <2>1 DEF Faithful
    <2>7. ASSUME NEW x \in UpdatingArms, NEW t \in Specs
          PROVE  /\ t \in HeadVersion(x)'.stable => t \notin HeadVersion(x)'.retired
                 /\ <<x, t>> \in auditing' => t \in HeadVersion(x)'.stable
                 /\ t \in HeadVersion(x)'.active \ HeadVersion(x)'.stable => ~Given(x, t)'
      <3>1. Given(x, t)' <=> Given(x, t)
        BY <2>5, SameGiven
      <3>2. /\ x \in Arms
            /\ t \in HeadVersion(x).stable => t \notin HeadVersion(x).retired
            /\ <<x, t>> \in auditing => t \in HeadVersion(x).stable
            /\ t \in HeadVersion(x).active \ HeadVersion(x).stable => ~Given(x, t)
        BY <1>1, <2>1 DEF Faithful, UpdatingArms
      <3>3. CASE x = a
        BY <1>1, <2>3, <2>4, <3>1, <3>2, <3>3
      <3>4. CASE x # a
        BY <1>1, <2>4, <3>1, <3>2, <3>4
      <3>5. QED
        BY <3>3, <3>4
    <2>8. Faithful'
      BY <1>2, <2>7 DEF Faithful
    <2> DEFINE k == <<a, s>>
    <2>9. k \in Skills /\ State[k] = "stable"
      <3>1. LifecycleState(v, s) = "stable"
        BY <2>6, StateOf
      <3>2. QED
        BY <3>1 DEF Skills, State
    <2>10. ASSUME NEW x \in UpdatingArms, NEW t \in Specs
           PROVE  LifecycleState(HeadVersion(x)', t) =
                    IF <<x, t>> = k THEN "retired" ELSE LifecycleState(HeadVersion(x), t)
      <3>1. x = a /\ t = s => LifecycleState(head, t) = "retired"
        BY <2>3, StateOf
      <3>2. x = a /\ t # s => LifecycleState(head, t) = LifecycleState(v, t)
        BY <2>3, StateOf
      <3>3. x \in Arms
        BY DEF UpdatingArms
      <3>4. QED
        BY <2>4, <3>1, <3>2, <3>3
    <2> HIDE DEF k
    <2>11. State' = [State EXCEPT ![k] = "retired"]
      <3>1. ASSUME NEW m \in Skills
            PROVE  State'[m] = IF m = k THEN "retired" ELSE State[m]
        <4>1. PICK x \in UpdatingArms, t \in Specs : m = <<x, t>>
          BY DEF Skills
        <4>2. /\ State[m] = LifecycleState(HeadVersion(x), t)
              /\ State'[m] = LifecycleState(HeadVersion(x)', t)
          BY <4>1 DEF State
        <4>3. QED
          BY <2>10, <4>1, <4>2
      <3>2. QED
        BY <3>1 DEF State
    <2>12. /\ Wins' = Wins /\ Losses' = Losses /\ Anchored' = Anchored
           /\ ~Halted /\ Halted' = Halted
      BY <1>1, <1>2, <2>5, SameRecord, SameAnchors DEF Halted
    <2>13. QED
      BY <2>8, <2>9, <2>11, <2>12, RetireMapped
  <1>6. QED
    BY <1>1, <1>4, <1>5

\* A replay that raises writes anchor rows and ends the experiment.
LEMMA RejectReplayMapped ==
  ASSUME Invariant, NEW a \in UpdatingArms, NEW s \in Specs, RejectReplay(a, s)
  PROVE  Faithful' /\ Lifecycle!Next
PROOF
  <1>1. /\ phase = "audit" /\ phase' = "aborted" /\ UNCHANGED <<versions, anchors, auditing>>
    BY DEF RejectReplay
  <1>2. /\ evidence \subseteq evidence'
        /\ \A e \in evidence' : e \in evidence \/ e.kind # "runtime_execution"
    <2>1. PICK replay \in Replays(a, s), audited \in SUBSET AnchorCases(a, s) :
            evidence' = evidence \cup ReplayRows(a, s, replay, audited)
      BY DEF RejectReplay
    <2>2. QED
      BY <2>1, RowsOfReplays
  <1>3. QED
    BY <1>1, <1>2, QuietStep

\* A commit that raises may leave the rows of some runs, and decides nothing.
LEMMA RejectedCommitMapped ==
  ASSUME Invariant, phase = "commit", NEW a \in Arms, a = EVOLUTION_ARMS[arm],
         NEW k \in Nat, k <= Len(outcome[a].run),
         NEW shown, \A e \in shown : e.kind # "runtime_execution",
         evidence' = evidence \cup RunRows(a, case_index, k) \cup shown,
         phase' = "aborted", UNCHANGED <<versions, anchors, auditing>>
  PROVE  Faithful' /\ Lifecycle!Next
PROOF
  <1>1. \A x : HeadVersion(x)' = HeadVersion(x)
    BY DEF HeadVersion
  <1>2. Faithful'
    <2>1. Faithful
      BY DEF Invariant
    <2>2. ASSUME NEW x \in UpdatingArms, NEW s \in Specs
          PROVE  /\ s \in HeadVersion(x)'.stable => s \notin HeadVersion(x)'.retired
                 /\ <<x, s>> \in auditing' => s \in HeadVersion(x)'.stable
      BY <1>1, <2>1 DEF Faithful
    <2>3. QED
      BY <2>2 DEF Faithful
  <1>3. State' = State /\ Anchored' = Anchored /\ ~Halted /\ Halted'
    BY <1>1, SameState, SameAnchors DEF Halted
  <1>4. CASE a \in UpdatingArms
    <2>1. \E won, lost : Tried(case_index, won, lost)
      BY <1>4, RunTried
    <2>2. QED
      BY <1>2, <1>3, <2>1, HaltMapped
  <1>5. CASE a \notin UpdatingArms
    <2>1. ASSUME NEW x \in UpdatingArms, NEW s
          PROVE  /\ Won(evidence', x, s) = Won(evidence, x, s)
                 /\ Lost(evidence', x, s) = Lost(evidence, x, s)
      <3>1. /\ evidence \subseteq evidence'
            /\ \A e \in evidence' : e \in evidence \/ e.arm # x \/ e.kind # "runtime_execution"
        BY <1>5, RowsOfRuns
      <3>2. QED
        BY <3>1, OtherRowsKeep
    <2>2. Wins' = Wins /\ Losses' = Losses
      BY <2>1 DEF Wins, Losses, Skills
    <2>3. QED
      BY <1>2, <1>3, <2>2, HaltMapped
  <1>6. QED
    BY <1>2, <1>4, <1>5

LEMMA RejectionMapped ==
  ASSUME Invariant, NEW a \in Arms, RejectEvidence(a) \/ RejectTape(a)
  PROVE  Faithful' /\ Lifecycle!Next
PROOF
  <1>1. /\ phase = "commit" /\ a = EVOLUTION_ARMS[arm] /\ phase' = "aborted"
        /\ UNCHANGED <<versions, anchors, auditing>>
    BY DEF RejectEvidence, RejectTape
  <1>2. outcome[a].run \in Seq(Attempts)
    BY DEF Invariant, Inductive, TypeOK
  <1>3. DOMAIN outcome[a].run = 1..Len(outcome[a].run) /\ Len(outcome[a].run) \in Nat
    BY <1>2, LenProperties
  <1>4. CASE RejectEvidence(a)
    <2> DEFINE k == Min(TimedOut(a)) - 1
               shown == {}
    <2>1. TimedOut(a) # {} /\ evidence' = evidence \cup RunRows(a, case_index, k)
      BY <1>4 DEF RejectEvidence
    <2>2. TimedOut(a) \in SUBSET Nat /\ TimedOut(a) \subseteq 1..Len(outcome[a].run)
      BY <1>3 DEF TimedOut
    <2>3. Min(TimedOut(a)) \in 1..Len(outcome[a].run)
      BY <2>1, <2>2, MinOfNaturals
    <2>4. k \in Nat /\ k <= Len(outcome[a].run)
      BY <1>3, <2>3
    <2> HIDE DEF k
    <2>5. evidence' = evidence \cup RunRows(a, case_index, k) \cup shown
      BY <2>1
    <2>6. \A e \in shown : e.kind # "runtime_execution"
      OBVIOUS
    <2> HIDE DEF shown
    <2>7. QED
      BY <1>1, <2>4, <2>5, <2>6, RejectedCommitMapped
  <1>5. CASE RejectTape(a)
    <2> DEFINE n == Len(outcome[a].run)
               shown == TapeRows(a, case_index, Min(Unkeyable(a, case_index)) - 1)
    <2>1. evidence' = evidence \cup RunRows(a, case_index, n) \cup shown
      BY <1>5 DEF RejectTape
    <2>2. \A e \in shown : e.kind # "runtime_execution"
      BY RowsOfTapes
    <2>3. n \in Nat /\ n <= Len(outcome[a].run)
      BY <1>3
    <2> HIDE DEF n, shown
    <2>4. QED
      BY <1>1, <2>1, <2>2, <2>3, RejectedCommitMapped
  <1>6. QED
    BY <1>4, <1>5

-----------------------------------------------------------------------------
(* The implementation.                                                     *)

LEMMA InitMapped == Init => Faithful /\ Lifecycle!Init
PROOF
  <1> SUFFICES ASSUME Init PROVE Faithful /\ Lifecycle!Init
    OBVIOUS
  <1>1. \A a \in Arms : HeadVersion(a) = EmptyVersion
    BY DEF Init, HeadVersion
  <1>2. /\ EmptyVersion.active = {} /\ EmptyVersion.stable = {} /\ EmptyVersion.retired = {}
    BY DEF EmptyVersion
  <1>3. phase \in {"done", "evaluate"} /\ evidence = {} /\ auditing = {}
    BY DEF Init, NextCase
  <1>4. Faithful
    BY <1>1, <1>2, <1>3 DEF Faithful, UpdatingArms
  <1>5. \A a, s : Won(evidence, a, s) = {} /\ Lost(evidence, a, s) = {}
    BY <1>3 DEF Won, Lost, RuntimeRows
  <1>6. \A a \in UpdatingArms, s \in Specs :
          /\ LifecycleState(HeadVersion(a), s) = "candidate"
          /\ anchors[a][s].cases = {}
    <2>1. \A a \in UpdatingArms, s \in Specs : LifecycleState(HeadVersion(a), s) = "candidate"
      BY <1>1, <1>2, StateOf DEF UpdatingArms
    <2>2. \A a \in UpdatingArms, s \in Specs : anchors[a][s].cases = {}
      BY DEF Init, NoAnchors, UpdatingArms
    <2>3. QED
      BY <2>1, <2>2
  <1>7. /\ State = [k \in Skills |-> "candidate"] /\ Anchored = [k \in Skills |-> {}]
        /\ Wins = [k \in Skills |-> {}] /\ Losses = [k \in Skills |-> {}]
    BY <1>5, <1>6 DEF State, Anchored, Wins, Losses, Skills
  <1>8. (phase = "aborted") = FALSE
    BY <1>3
  <1>9. Lifecycle!Init
    BY <1>7, <1>8 DEF Lifecycle!Init, State, Anchored, Wins, Losses, Skills
  <1>10. QED
    BY <1>4, <1>9

\* Faithful is an invariant whatever families the stream names.
LEMMA StepFaithful ==
  ASSUME Invariant, [Next]_vars
  PROVE  Faithful'
PROOF
  <1>1. CASE EvaluateCase
    BY <1>1, EvaluateMapped
  <1>2. ASSUME NEW a \in Arms, CommitArm(a) \/ RejectEvidence(a) \/ RejectTape(a)
        PROVE  Faithful'
    BY <1>2, CommitArmFaithful, RejectionMapped
  <1>3. ASSUME NEW a \in UpdatingArms, EndPromotion(a)
        PROVE  Faithful'
    BY <1>3, EndPromotionMapped
  <1>4. ASSUME NEW a \in UpdatingArms, NEW s \in Specs,
               Promote(a, s) \/ AuditRevision(a, s) \/ RejectReplay(a, s)
        PROVE  Faithful'
    BY <1>4, PromoteFaithful, AuditMapped, RejectReplayMapped
  <1>5. CASE UNCHANGED vars
    BY <1>5 DEF Invariant, Faithful, vars, HeadVersion, Given, Won, Lost, RuntimeRows,
       ShouldRetireProvisional, RunIsDistinct, PendingArms, case_index
  <1>6. QED
    BY <1>1, <1>2, <1>3, <1>4, <1>5 DEF Next, Step, Finished

\* Every step of the loop is a step of the contract or leaves its state alone.
LEMMA StepMapped ==
  ASSUME FamiliesNamed, Invariant, [Next]_vars
  PROVE  Lifecycle!Next \/ UNCHANGED Lifecycle!vars
PROOF
  <1>1. CASE EvaluateCase
    BY <1>1, EvaluateMapped
  <1>2. ASSUME NEW a \in Arms, CommitArm(a) \/ RejectEvidence(a) \/ RejectTape(a)
        PROVE  Lifecycle!Next \/ UNCHANGED Lifecycle!vars
    BY <1>2, CommitArmMapped, RejectionMapped
  <1>3. ASSUME NEW a \in UpdatingArms, EndPromotion(a)
        PROVE  UNCHANGED Lifecycle!vars
    BY <1>3, EndPromotionMapped
  <1>4. ASSUME NEW a \in UpdatingArms, NEW s \in Specs,
               Promote(a, s) \/ AuditRevision(a, s) \/ RejectReplay(a, s)
        PROVE  Lifecycle!Next \/ UNCHANGED Lifecycle!vars
    BY <1>4, PromoteIsMapped, AuditMapped, RejectReplayMapped
  <1>5. CASE UNCHANGED vars
    <2>1. /\ \A a : HeadVersion(a)' = HeadVersion(a)
          /\ \A a, s : /\ Won(evidence, a, s)' = Won(evidence, a, s)
                       /\ Lost(evidence, a, s)' = Lost(evidence, a, s)
      BY <1>5 DEF vars, HeadVersion, Won, Lost, RuntimeRows
    <2>2. State' = State /\ Wins' = Wins /\ Losses' = Losses /\ Anchored' = Anchored
      BY <1>5, <2>1, SameState, SameRecord, SameAnchors DEF vars
    <2>3. Halted' = Halted
      BY <1>5 DEF vars, Halted
    <2>4. UNCHANGED Lifecycle!vars
      BY <2>2, <2>3, StutterMapped
    <2>5. QED
      BY <2>4
  <1>6. QED
    BY <1>1, <1>2, <1>3, <1>4, <1>5 DEF Next, Step, Finished

\* Whatever the executor returns, discovery finds and exceptions interrupt, the
\* loop treats each revision as the contract says: a revision's fate follows from
\* its own runtime record alone, on three distinct successes of two families, on
\* three failures without a success, or on an audit, and retirement is final.
THEOREM LoopImplementsLifecycle ==
  ASSUME FamiliesNamed
  PROVE  Spec => ImplementsLifecycle
PROOF
  <1>1. Init => Inductive /\ Settled /\ Faithful /\ Lifecycle!Init
    BY InductiveInit, SettledInit, InitMapped
  <1>2. Inductive /\ Settled /\ Faithful /\ [Next]_vars
        => Inductive' /\ Settled' /\ Faithful' /\ [Lifecycle!Next]_(Lifecycle!vars)
    BY InductiveStep, SettledStep, StepFaithful, StepMapped DEF Invariant
  <1>3. QED
    BY <1>1, <1>2, PTL DEF Spec, ImplementsLifecycle, Lifecycle!Spec

-----------------------------------------------------------------------------
(* The lifecycle ledger explains every version.                            *)

\* What every version keeps: a stable revision is active, a retired one is not.
Coherent(v) == v.stable \subseteq v.active /\ v.active \cap v.retired = {}

\* The events that account for revision s of arm a between versions v and w.
Changes(a, s, v, w, k) ==
  IF LifecycleState(v, s) = LifecycleState(w, s) THEN {}
  ELSE {[arm |-> a, spec |-> s, from |-> LifecycleState(v, s),
         to |-> LifecycleState(w, s), version |-> k]}

\* No event names a version that is still to come, so the next version starts
\* without events, and the head to extend is coherent.
Explained ==
  /\ LedgerExplainsVersions
  /\ \A e \in lifecycle : e.version <= Len(versions[e.arm])
  /\ \A a \in Arms : Coherent(HeadVersion(a))

\* A step that commits one coherent version with exactly the events of its
\* changes keeps the ledger's account.
LEMMA CommitExplained ==
  ASSUME TypeOK, Explained, NEW a \in Arms, NEW w, CommitVersion(a, w), Coherent(w),
         NEW new, lifecycle' = lifecycle \cup new,
         \A e \in new : e.arm = a /\ e.version = Len(versions[a]) + 1,
         \A s \in Specs : {e \in new : e.spec = s}
                            = Changes(a, s, HeadVersion(a), w, Len(versions[a]) + 1)
  PROVE  Explained'
PROOF
  <1> DEFINE n == Len(versions[a])
             S == Versions \cup {w}
             Events(x, s, k) == {e \in lifecycle : e.arm = x /\ e.spec = s /\ e.version = k}
  <1>1. /\ versions \in [Arms -> Seq(Versions)] /\ versions[a] \in Seq(S) /\ w \in S
        /\ lifecycle \subseteq LifecycleEvents
    BY SeqMonotonic DEF TypeOK
  <1>2. /\ versions'[a] = Append(versions[a], w)
        /\ \A x \in Arms \ {a} : versions'[x] = versions[x]
    BY <1>1 DEF CommitVersion
  <1> HIDE DEF S
  <1>3. /\ n \in Nat \ {0} /\ DOMAIN versions[a] = 1..n
        /\ Len(versions'[a]) = n + 1 /\ DOMAIN versions'[a] = 1..(n + 1)
        /\ \A k \in 1..n : versions'[a][k] = versions[a][k]
        /\ versions'[a][n + 1] = w
    <2>1. n \in Nat \ {0} /\ DOMAIN versions[a] = 1..n
      BY HeadType
    <2>2. /\ Len(versions'[a]) = n + 1 /\ versions'[a] \in Seq(S)
          /\ \A k \in 1..n : versions'[a][k] = versions[a][k]
          /\ versions'[a][n + 1] = w
      BY <1>1, <1>2, AppendProperties, LenProperties
    <2>3. DOMAIN versions'[a] = 1..(n + 1)
      BY <2>2, LenProperties
    <2>4. QED
      BY <2>1, <2>2, <2>3
  <1>4. ASSUME NEW e \in lifecycle
        PROVE  e.arm \in Arms /\ e.version \in Nat /\ e.version <= Len(versions[e.arm])
    BY <1>1 DEF LifecycleEvents, Explained
  <1>5. \A e \in lifecycle' : e.version <= Len(versions'[e.arm])
    <2>1. \A x \in Arms : Len(versions[x]) \in Nat /\ Len(versions[x]) <= Len(versions'[x])
      BY <1>2, <1>3, HeadType
    <2>2. ASSUME NEW e \in lifecycle PROVE e.version <= Len(versions'[e.arm])
      <3>1. /\ e.version \in Nat /\ e.version <= Len(versions[e.arm])
            /\ Len(versions[e.arm]) \in Nat /\ Len(versions[e.arm]) <= Len(versions'[e.arm])
        BY <1>4, <2>1
      <3> DEFINE x == e.version
                 y == Len(versions[e.arm])
                 z == Len(versions'[e.arm])
      <3>2. Len(versions'[e.arm]) \in Nat
        <4>1. e.arm \in Arms
          BY <1>4
        <4>2. QED
          BY <1>2, <1>3, <3>1, <4>1
      <3>3. x \in Nat /\ y \in Nat /\ z \in Nat /\ x <= y /\ y <= z
        BY <3>1, <3>2
      <3> HIDE DEF x, y, z
      <3>4. x <= z
        BY <3>3
      <3>5. QED
        BY <3>4 DEF x, z
    <2>3. \A e \in new : e.version <= Len(versions'[e.arm])
      BY <1>3
    <2>4. QED
      BY <2>2, <2>3
  <1>6. \A x \in Arms : Coherent(HeadVersion(x))'
    <2>1. HeadVersion(a)' = w /\ \A x \in Arms \ {a} : HeadVersion(x)' = HeadVersion(x)
      BY CommitHead
    <2>2. QED
      BY <2>1 DEF Explained, Coherent
  <1>7. ASSUME NEW x \in Arms, NEW s \in Specs, NEW k \in DOMAIN versions'[x] \ {1}
        PROVE  /\ Events(x, s, k)' = Changes(x, s, versions'[x][k - 1], versions'[x][k], k)
               /\ Coherent(versions'[x][k])
    <2>1. ASSUME NEW y \in Arms, NEW j \in DOMAIN versions[y] \ {1}
          PROVE  /\ Events(y, s, j) = Changes(y, s, versions[y][j - 1], versions[y][j], j)
                 /\ Coherent(versions[y][j])
      BY DEF Explained, LedgerExplainsVersions, Coherent, Changes
    <2>2. CASE x # a
      <3>1. versions'[x] = versions[x] /\ Events(x, s, k)' = Events(x, s, k)
        BY <1>2, <2>2
      <3>2. QED
        BY <2>1, <3>1
    <2>3. CASE x = a /\ k <= n
      <3>1. k \in 1..n /\ k - 1 \in 1..n
        BY <1>3, <2>3
      <3>2. versions'[x][k - 1] = versions[x][k - 1] /\ versions'[x][k] = versions[x][k]
        BY <1>3, <2>3, <3>1
      <3>3. Events(x, s, k)' = Events(x, s, k)
        <4>1. \A e \in new : e.version # k
          BY <1>3, <3>1
        <4>2. QED
          BY <4>1
      <3>4. k \in DOMAIN versions[x] \ {1}
        BY <1>3, <2>3, <3>1
      <3>5. QED
        BY <2>1, <3>2, <3>3, <3>4
    <2>4. CASE x = a /\ ~(k <= n)
      <3>1. k = n + 1
        BY <1>3, <2>4
      <3>2. versions'[x][k] = w /\ versions'[x][k - 1] = HeadVersion(a)
        BY <1>3, <2>4, <3>1 DEF HeadVersion
      <3>3. Events(x, s, k)' = {e \in new : e.spec = s}
        <4>1. \A e \in lifecycle : ~(e.arm = x /\ e.version = k)
          BY <1>3, <1>4, <2>4, <3>1
        <4>2. QED
          BY <2>4, <3>1, <4>1
      <3>4. QED
        BY <2>4, <3>1, <3>2, <3>3
    <2>5. QED
      BY <2>2, <2>3, <2>4
  <1>8. LedgerExplainsVersions'
    BY <1>7 DEF LedgerExplainsVersions, Changes, Coherent
  <1>9. QED
    BY <1>5, <1>6, <1>8 DEF Explained

\* So does a step that leaves versions and events alone.
LEMMA QuietExplained ==
  ASSUME Explained, UNCHANGED <<versions, lifecycle>>
  PROVE  Explained'
BY DEF Explained, LedgerExplainsVersions, Coherent, HeadVersion, LifecycleState

LEMMA InitExplained == Init => Explained
PROOF
  <1> SUFFICES ASSUME Init PROVE Explained
    OBVIOUS
  <1>1. \A a \in Arms : versions[a] = <<EmptyVersion>> /\ lifecycle = {}
    BY DEF Init
  <1>2. \A a \in Arms : DOMAIN versions[a] = 1..1 /\ HeadVersion(a) = EmptyVersion
    BY <1>1 DEF HeadVersion
  <1>3. Coherent(EmptyVersion)
    BY DEF Coherent, EmptyVersion
  <1>4. LedgerExplainsVersions
    BY <1>2 DEF LedgerExplainsVersions
  <1>5. lifecycle = {}
    BY DEF Init
  <1>6. QED
    BY <1>2, <1>3, <1>4, <1>5 DEF Explained

\* A commit deposits its novel revisions and retires its failing ones, and never
\* one revision both ways: a novel one has no run to its name.
LEMMA CommitArmExplained ==
  ASSUME Invariant, Explained, NEW a \in Arms, CommitArm(a)
  PROVE  Explained'
PROOF
  <1> DEFINE c == case_index
             v == HeadVersion(a)
             next == Len(versions[a]) + 1
             rows == evidence \cup RunRows(a, c, Len(outcome[a].run))
                              \cup TapeRows(a, c, TapeSize(a, c))
             novel == Novel(a, c)
             failing == {s \in (v.active \cup novel) \ v.stable :
                           ShouldRetireProvisional(Won(rows, a, s), Lost(rows, a, s))}
             active == (v.active \cup novel) \ failing
             weights == [s \in Specs |->
                           IF s \in active THEN Posterior(rows, a, s) ELSE Prior]
             head == [active |-> active, stable |-> v.stable,
                      retired |-> v.retired \cup failing, weights |-> weights,
                      after |-> c, cause |-> "case"]
             deposits == {Event(a, s, "candidate", "provisional_active", next) : s \in novel}
             failures == {Event(a, s, "provisional_active", "retired", next) : s \in failing}
  <1>1. /\ evidence' = rows /\ CommitVersion(a, head)
        /\ lifecycle' = lifecycle \cup (deposits \cup failures)
    BY DEF CommitArm
  <1>2. TypeOK /\ v \in Versions /\ Coherent(v) /\ Settled
    BY HeadType DEF Invariant, Inductive, Explained
  <1>3. \A s \in novel : /\ s \notin v.active \cup v.stable \cup v.retired
                         /\ s \in Specs /\ s \notin failing
    <2>1. \A s \in novel : /\ s \notin v.active \cup v.stable \cup v.retired
                           /\ s \in Specs /\ ~Given(a, s)'
      BY NovelIsFresh
    <2> HIDE DEF novel, rows
    <2>2. \A s : Given(a, s)' <=> ShouldRetireProvisional(Won(rows, a, s), Lost(rows, a, s))
      BY <1>1 DEF Given, Won, Lost, RuntimeRows, ShouldRetireProvisional
    <2>3. QED
      BY <2>1, <2>2
  <1>4. \A s \in failing : s \in v.active \cup novel /\ s \notin v.stable
    OBVIOUS
  <1> HIDE DEF novel, failing, weights, rows
  <1>5. /\ head.active = (v.active \cup novel) \ failing /\ head.stable = v.stable
        /\ head.retired = v.retired \cup failing
    OBVIOUS
  <1> HIDE DEF head
  <1>6. Coherent(head)
    BY <1>2, <1>3, <1>4, <1>5 DEF Coherent
  <1>7. \A e \in deposits \cup failures : e.arm = a /\ e.version = next
    BY DEF Event
  <1>8. ASSUME NEW s \in Specs
        PROVE  {e \in deposits \cup failures : e.spec = s} = Changes(a, s, v, head, next)
    <2> DEFINE shown == {e \in deposits \cup failures : e.spec = s}
    <2>1. /\ s \in novel => [arm |-> a, spec |-> s, from |-> "candidate",
                             to |-> "provisional_active", version |-> next] \in shown
          /\ s \in failing => [arm |-> a, spec |-> s, from |-> "provisional_active",
                               to |-> "retired", version |-> next] \in shown
      BY DEF Event
    <2>2. \A e \in shown :
            \/ s \in novel /\ e = [arm |-> a, spec |-> s, from |-> "candidate",
                                   to |-> "provisional_active", version |-> next]
            \/ s \in failing /\ e = [arm |-> a, spec |-> s, from |-> "provisional_active",
                                     to |-> "retired", version |-> next]
      BY DEF Event
    <2> HIDE DEF shown, deposits, failures, next, v
    <2>3. CASE s \in novel
      <3>1. LifecycleState(v, s) = "candidate" /\ LifecycleState(head, s) = "provisional_active"
        BY <1>3, <1>5, <2>3, StateOf DEF v
      <3>2. s \notin failing
        BY <1>3, <2>3
      <3>3. QED
        BY <2>1, <2>2, <2>3, <3>1, <3>2 DEF Changes, shown
    <2>4. CASE s \in failing
      <3>1. s \notin novel /\ s \in v.active /\ s \notin v.stable /\ s \notin v.retired
        BY <1>2, <1>3, <1>4, <2>4 DEF Coherent, v
      <3>2. LifecycleState(v, s) = "provisional_active" /\ LifecycleState(head, s) = "retired"
        BY <1>5, <2>4, <3>1, StateOf
      <3>3. QED
        BY <2>1, <2>2, <2>4, <3>1, <3>2 DEF Changes, shown
    <2>5. CASE s \notin novel /\ s \notin failing
      <3>1. LifecycleState(head, s) = LifecycleState(v, s)
        BY <1>5, <2>5 DEF LifecycleState
      <3>2. QED
        BY <2>2, <2>5, <3>1 DEF Changes, shown
    <2>6. QED
      BY <2>3, <2>4, <2>5
  <1> HIDE DEF deposits, failures
  <1>9. QED
    BY <1>1, <1>2, <1>6, <1>7, <1>8, CommitExplained

\* A version that changes the state of one revision, with its one event.
LEMMA OneChangeExplained ==
  ASSUME TypeOK, Explained, NEW a \in Arms, NEW s \in Specs, NEW w,
         CommitVersion(a, w), Coherent(w), NEW to,
         LifecycleState(HeadVersion(a), s) # to, LifecycleState(w, s) = to,
         \A t \in Specs \ {s} : LifecycleState(w, t) = LifecycleState(HeadVersion(a), t),
         lifecycle' = lifecycle \cup
           {Event(a, s, LifecycleState(HeadVersion(a), s), to, Len(versions[a]) + 1)}
  PROVE  Explained'
PROOF
  <1> DEFINE from == LifecycleState(HeadVersion(a), s)
             next == Len(versions[a]) + 1
             new == {Event(a, s, from, to, next)}
  <1>1. \A e \in new : e.arm = a /\ e.spec = s /\ e.version = next
    BY DEF Event
  <1>2. ASSUME NEW t \in Specs
        PROVE  {e \in new : e.spec = t} = Changes(a, t, HeadVersion(a), w, next)
    <2>1. CASE t = s
      BY <1>1, <2>1 DEF Changes, Event
    <2>2. CASE t # s
      BY <1>1, <2>2 DEF Changes
    <2>3. QED
      BY <2>1, <2>2
  <1> HIDE DEF new
  <1>3. lifecycle' = lifecycle \cup new
    BY DEF new
  <1>4. QED
    BY <1>1, <1>2, <1>3, CommitExplained

LEMMA PromoteExplained ==
  ASSUME Invariant, Explained, NEW a \in UpdatingArms, NEW s \in Specs, Promote(a, s)
  PROVE  Explained'
PROOF
  <1> DEFINE v == HeadVersion(a)
             head == [v EXCEPT !.stable = @ \cup {s}, !.after = case_index,
                               !.cause = "promotion"]
  <1>1. /\ CommitVersion(a, head) /\ s \in v.active \ v.stable
        /\ lifecycle' = lifecycle \cup
             {Event(a, s, "provisional_active", "stable", Len(versions[a]) + 1)}
    BY DEF Promote, Eligible
  <1>2. /\ TypeOK /\ a \in Arms /\ v \in Versions /\ Coherent(v)
    BY HeadType DEF Invariant, Inductive, UpdatingArms, Explained
  <1>3. /\ head.active = v.active /\ head.stable = v.stable \cup {s}
        /\ head.retired = v.retired
    BY <1>2 DEF Versions
  <1> HIDE DEF head
  <1>4. s \notin v.retired /\ Coherent(head)
    BY <1>1, <1>2, <1>3 DEF Coherent
  <1>5. LifecycleState(v, s) = "provisional_active" /\ LifecycleState(head, s) = "stable"
    BY <1>1, <1>3, <1>4, StateOf
  <1>6. \A t \in Specs \ {s} : LifecycleState(head, t) = LifecycleState(v, t)
    BY <1>3 DEF LifecycleState
  <1>7. QED
    BY <1>1, <1>2, <1>4, <1>5, <1>6, OneChangeExplained

\* Only a stable revision is audited, so its retirement starts from "stable".
LEMMA AuditExplained ==
  ASSUME Invariant, Explained, NEW a \in UpdatingArms, NEW s \in Specs, AuditRevision(a, s)
  PROVE  Explained'
PROOF
  <1> DEFINE v == HeadVersion(a)
             head == [v EXCEPT !.active = @ \ {s}, !.stable = @ \ {s},
                               !.retired = @ \cup {s}, !.after = case_index,
                               !.cause = "checkpoint"]
  <1>1. Retire(a, s) \/ UNCHANGED <<versions, lifecycle>>
    BY DEF AuditRevision
  <1>2. CASE UNCHANGED <<versions, lifecycle>>
    BY <1>2, QuietExplained
  <1>3. CASE Retire(a, s)
    <2>1. /\ CommitVersion(a, head)
          /\ lifecycle' = lifecycle \cup
               {Event(a, s, "stable", "retired", Len(versions[a]) + 1)}
      BY <1>3 DEF Retire
    <2>2. /\ TypeOK /\ a \in Arms /\ v \in Versions /\ Coherent(v) /\ s \in v.stable
      <3>1. <<a, s>> \in auditing
        BY DEF AuditRevision, NextToAudit
      <3>2. QED
        BY <3>1, HeadType DEF Invariant, Inductive, Faithful, UpdatingArms, Explained
    <2>3. /\ head.active = v.active \ {s} /\ head.stable = v.stable \ {s}
          /\ head.retired = v.retired \cup {s}
      BY <2>2 DEF Versions
    <2> HIDE DEF head
    <2>4. s \notin v.retired /\ Coherent(head)
      BY <2>2, <2>3 DEF Coherent
    <2>5. LifecycleState(v, s) = "stable" /\ LifecycleState(head, s) = "retired"
      BY <2>2, <2>3, <2>4, StateOf
    <2>6. \A t \in Specs \ {s} : LifecycleState(head, t) = LifecycleState(v, t)
      BY <2>3 DEF LifecycleState
    <2>7. QED
      BY <2>1, <2>2, <2>4, <2>5, <2>6, OneChangeExplained
  <1>4. QED
    BY <1>1, <1>2, <1>3

LEMMA StepExplained ==
  ASSUME Invariant, Explained, [Next]_vars
  PROVE  Explained'
PROOF
  <1>1. ASSUME NEW a \in Arms, CommitArm(a) PROVE Explained'
    BY <1>1, CommitArmExplained
  <1>2. ASSUME NEW a \in UpdatingArms, NEW s \in Specs, Promote(a, s) \/ AuditRevision(a, s)
        PROVE  Explained'
    BY <1>2, PromoteExplained, AuditExplained
  <1>3. CASE UNCHANGED <<versions, lifecycle>>
    BY <1>3, QuietExplained
  <1>4. EvaluateCase => UNCHANGED <<versions, lifecycle>>
    BY DEF EvaluateCase, ledger
  <1>5. \A a \in Arms : RejectEvidence(a) \/ RejectTape(a) => UNCHANGED <<versions, lifecycle>>
    BY DEF RejectEvidence, RejectTape
  <1>6. \A a \in UpdatingArms : EndPromotion(a) => UNCHANGED <<versions, lifecycle>>
    BY DEF EndPromotion, ledger
  <1>7. \A a \in UpdatingArms, s \in Specs :
          RejectReplay(a, s) => UNCHANGED <<versions, lifecycle>>
    BY DEF RejectReplay
  <1>8. UNCHANGED vars => UNCHANGED <<versions, lifecycle>>
    BY DEF vars
  <1>9. QED
    BY <1>1, <1>2, <1>3, <1>4, <1>5, <1>6, <1>7, <1>8 DEF Next, Step, Finished

\* Every version's differences from the one before are in the lifecycle ledger,
\* one event for each and none too many, for every stream and callback behaviour
\* and across the transactions that exceptions cut short.
THEOREM LedgerIsComplete == Spec => []LedgerExplainsVersions
PROOF
  <1>1. Init => Inductive /\ Settled /\ Faithful /\ Explained
    BY InductiveInit, SettledInit, InitMapped, InitExplained
  <1>2. Inductive /\ Settled /\ Faithful /\ Explained /\ [Next]_vars
        => Inductive' /\ Settled' /\ Faithful' /\ Explained'
    BY InductiveStep, SettledStep, StepFaithful, StepExplained DEF Invariant
  <1>3. Explained => LedgerExplainsVersions
    BY DEF Explained
  <1>4. QED
    BY <1>1, <1>2, <1>3, PTL DEF Spec
-----------------------------------------------------------------------------
(* The end of a case leaves no eligible revision behind.                   *)

\* A stable revision of its family keeps s waiting, or one that this case retired.
Behind(a, s) ==
  \/ \E t \in HeadVersion(a).stable : SkillFamily(a, t) = SkillFamily(a, s)
  \/ \E t \in HeadVersion(a).retired :
       /\ SkillFamily(a, t) = SkillFamily(a, s)
       /\ \E k \in DOMAIN versions[a] :
            versions[a][k].after = case_index /\ t \in versions[a][k].stable

\* Every provisional revision of the arm has a reason to be one.
Waits(a) ==
  \A s \in HeadVersion(a).active \ HeadVersion(a).stable :
    \/ Cardinality(Won(evidence, a, s)) < 3
    \/ Cardinality({RecurrenceFamily[c] : c \in Won(evidence, a, s)}) < 2
    \/ Behind(a, s)

\* The first arm has its reasons once the second one's promotions begin.
Examined ==
  /\ phase \in {"evaluate", "audit", "done"} => \A a \in UpdatingArms : Waits(a)
  /\ phase = "promote" /\ arm = 2 => Waits("patterned")

\* What an arm's reasons rest on.
LEMMA WaitsKept ==
  ASSUME NEW a, Waits(a), versions'[a] = versions[a], born' = born, tapes' = tapes,
         \A s : Won(evidence, a, s)' = Won(evidence, a, s)
  PROVE  Waits(a)'
PROOF
  <1>1. HeadVersion(a)' = HeadVersion(a) /\ case_index' = case_index
    BY DEF HeadVersion, case_index
  <1>2. \A s : SkillFamily(a, s)' = SkillFamily(a, s)
    BY DEF SkillFamily
  <1>3. \A s : Behind(a, s)' <=> Behind(a, s)
    BY <1>1, <1>2 DEF Behind
  <1>4. \A s : Won(evidence', a, s) = Won(evidence, a, s)
    BY DEF Won, RuntimeRows
  <1> SUFFICES ASSUME NEW s \in HeadVersion(a)'.active \ HeadVersion(a)'.stable
               PROVE  \/ Cardinality(Won(evidence', a, s)) < 3
                      \/ Cardinality({RecurrenceFamily[c] : c \in Won(evidence', a, s)}) < 2
                      \/ Behind(a, s)'
    BY DEF Waits
  <1>5. \/ Cardinality(Won(evidence, a, s)) < 3
        \/ Cardinality({RecurrenceFamily[c] : c \in Won(evidence, a, s)}) < 2
        \/ Behind(a, s)
    BY <1>1 DEF Waits
  <1>6. QED
    BY <1>3, <1>4, <1>5

\* An arm's promotions end when each revision left is ineligible or a challenger.
LEMMA EndedWaits ==
  ASSUME FamiliesNamed, Inductive, NEW a \in UpdatingArms,
         \A s \in Eligible(a) : MayFail(a, s)
  PROVE  Waits(a)
PROOF
  <1> SUFFICES ASSUME NEW s \in HeadVersion(a).active \ HeadVersion(a).stable
               PROVE  \/ Cardinality(Won(evidence, a, s)) < 3
                      \/ Cardinality({RecurrenceFamily[c] : c \in Won(evidence, a, s)}) < 2
                      \/ Behind(a, s)
    BY DEF Waits
  <1> DEFINE W == Won(evidence, a, s)
             F == {RecurrenceFamily[c] : c \in W}
  <1>1. W \subseteq 1..N
    BY WonAreCases
  <1>2. Families(W, RecurrenceFamily) = F
    BY <1>1 DEF Families, FamiliesNamed
  <1>3. CASE s \in Eligible(a)
    <2>1. LatestIncumbent(a, s) # {}
      BY <1>3 DEF MayFail, Challenges
    <2>2. QED
      BY <2>1 DEF LatestIncumbent, Behind
  <1>4. CASE s \notin Eligible(a)
    <2>1. ~(Cardinality(W) >= 3 /\ Cardinality(F) >= 2)
      BY <1>2, <1>4 DEF Eligible, Promotable, CrossFamily
    <2>2. IsFiniteSet(W) /\ IsFiniteSet(F)
      <3>1. IsFiniteSet(1..N)
        BY ConstantsAssumption, FS_Interval
      <3>2. IsFiniteSet(W)
        BY <1>1, <3>1, FS_Subset
      <3> DEFINE f == [c \in W |-> RecurrenceFamily[c]]
      <3>3. f \in Surjection(W, F)
        BY DEF Surjection
      <3> HIDE DEF W, F, f
      <3>4. QED
        BY <3>2, <3>3, FS_Surjection
    <2>3. Cardinality(W) \in Nat /\ Cardinality(F) \in Nat
      BY <2>2, FS_CardinalityType
    <2> HIDE DEF W, F
    <2>4. Cardinality(W) < 3 \/ Cardinality(F) < 2
      BY <2>1, <2>3
    <2>5. QED
      BY <2>4 DEF W, F
  <1>5. QED
    BY <1>3, <1>4

LEMMA EndPromotionExamined ==
  ASSUME FamiliesNamed, Inductive, Examined, NEW a \in UpdatingArms, EndPromotion(a)
  PROVE  Examined'
PROOF
  <1>1. /\ phase = "promote" /\ a = EVOLUTION_ARMS[arm]
        /\ UNCHANGED <<versions, born, tapes, evidence>>
        /\ \/ arm = 1 /\ arm' = 2 /\ phase' = phase
           \/ arm # 1 /\ arm' = 1
        /\ \A s \in Eligible(a) : MayFail(a, s)
    BY DEF EndPromotion, ledger
  <1>2. arm \in 1..3
    BY DEF Inductive, TypeOK
  <1>3. \A x : Waits(x) => Waits(x)'
    <2>1. \A x, s : Won(evidence, x, s)' = Won(evidence, x, s)
      BY <1>1 DEF Won, RuntimeRows
    <2>2. QED
      BY <1>1, <2>1, WaitsKept
  <1>4. Waits(a)
    BY <1>1, EndedWaits
  <1>5. CASE arm = 1 /\ arm' = 2 /\ phase' = phase
    <2>1. a = "patterned"
      BY <1>1, <1>5 DEF EVOLUTION_ARMS
    <2>2. QED
      BY <1>1, <1>3, <1>4, <1>5, <2>1 DEF Examined
  <1>6. CASE arm # 1 /\ arm' = 1
    <2>1. a = "unkeyed_global" /\ arm = 2
      BY <1>1, <1>2, <1>6 DEF EVOLUTION_ARMS, UpdatingArms
    <2>2. \A x \in UpdatingArms : x = "patterned" \/ x = a
      BY <2>1 DEF UpdatingArms, Arms
    <2>3. Waits("patterned")
      BY <1>1, <2>1 DEF Examined
    <2>4. \A x \in UpdatingArms : Waits(x)'
      BY <1>3, <1>4, <2>2, <2>3
    <2>5. QED
      BY <1>6, <2>4 DEF Examined
  <1>7. QED
    BY <1>1, <1>5, <1>6

\* The second arm's promotions leave the first arm alone.
LEMMA PromoteExamined ==
  ASSUME Inductive, Examined, NEW a \in UpdatingArms, NEW s \in Specs, Promote(a, s)
  PROVE  Examined'
PROOF
  <1>1. /\ phase = "promote" /\ a = EVOLUTION_ARMS[arm] /\ \E w : CommitVersion(a, w)
        /\ UNCHANGED <<phase, arm, tapes, born, evidence>>
    BY DEF Promote
  <1>2. ASSUME arm = 2 PROVE Waits("patterned")'
    <2>1. a = "unkeyed_global" /\ Waits("patterned") /\ a # "patterned"
      BY <1>1, <1>2 DEF EVOLUTION_ARMS, Examined
    <2>2. "patterned" \in Arms /\ TypeOK /\ a \in Arms
      BY DEF Arms, Inductive, UpdatingArms
    <2>3. versions'["patterned"] = versions["patterned"]
      BY <1>1, <2>1, <2>2 DEF CommitVersion, TypeOK
    <2>4. \A t : Won(evidence, "patterned", t)' = Won(evidence, "patterned", t)
      BY <1>1 DEF Won, RuntimeRows
    <2>5. QED
      BY <1>1, <2>1, <2>3, <2>4, WaitsKept
  <1>3. QED
    BY <1>1, <1>2 DEF Examined

\* Whoever waits behind a revision that an audit retires still waits: the version
\* before the retirement is of the current case and holds it as stable.
LEMMA AuditExamined ==
  ASSUME Invariant, Tallied, Examined, NEW a \in UpdatingArms, NEW s \in Specs,
         AuditRevision(a, s)
  PROVE  Examined'
PROOF
  <1> DEFINE v == HeadVersion(a)
             head == [v EXCEPT !.active = @ \ {s}, !.stable = @ \ {s},
                               !.retired = @ \cup {s}, !.after = case_index,
                               !.cause = "checkpoint"]
  <1>1. /\ phase = "audit" /\ phase' \in {"audit", NextCase}
        /\ UNCHANGED <<born, tapes>> /\ <<a, s>> \in auditing
        /\ Retire(a, s) \/ UNCHANGED versions
    BY DEF AuditRevision, NextToAudit
  <1>2. \A x, t : Won(evidence, x, t)' = Won(evidence, x, t)
    <2>1. PICK replay \in Replays(a, s) :
            evidence' = evidence \cup ReplayRows(a, s, replay, AnchorCases(a, s))
      BY DEF AuditRevision
    <2>2. /\ evidence \subseteq evidence'
          /\ \A e \in evidence' : e \in evidence \/ e.kind # "runtime_execution"
      BY <2>1, RowsOfReplays
    <2>3. QED
      BY <2>2, NoRuns
  <1>3. \A x \in UpdatingArms : Waits(x)
    BY <1>1 DEF Examined
  <1>4. phase' # "promote"
    BY <1>1 DEF NextCase
  <1>5. \A x \in UpdatingArms : Waits(x)'
    <2>1. CASE UNCHANGED versions
      BY <1>1, <1>2, <1>3, <2>1, WaitsKept
    <2>2. CASE Retire(a, s)
      <3>1. CommitVersion(a, head)
        BY <2>2 DEF Retire
      <3>2. /\ Inductive /\ TypeOK /\ a \in Arms /\ v \in Versions /\ s \in v.stable
            /\ case_index' = case_index /\ v.after = case_index
        BY <1>1, HeadType DEF Invariant, Inductive, Faithful, UpdatingArms, Tallied, case_index
      <3>3. /\ head.active = v.active \ {s} /\ head.stable = v.stable \ {s}
            /\ head.retired = v.retired \cup {s}
        BY <3>2 DEF Versions
      <3> HIDE DEF head
      <3>4. /\ HeadVersion(a)' = head
            /\ \A x \in Arms \ {a} : versions'[x] = versions[x]
        BY <3>1, <3>2, CommitHead DEF CommitVersion, TypeOK
      <3>5. /\ \A k \in DOMAIN versions[a] :
                 k \in DOMAIN versions'[a] /\ versions'[a][k] = versions[a][k]
            /\ Len(versions[a]) \in DOMAIN versions[a]
        <4> DEFINE S == Versions \cup {head}
        <4>1. versions[a] \in Seq(S) /\ head \in S
          BY <3>2, SeqMonotonic DEF TypeOK
        <4>2. versions'[a] = Append(versions[a], head)
          BY <3>1, <3>2 DEF CommitVersion, TypeOK
        <4>3. Len(versions[a]) \in Nat \ {0} /\ DOMAIN versions[a] = 1..Len(versions[a])
          BY <3>2, HeadType
        <4> HIDE DEF S
        <4>4. /\ DOMAIN versions'[a] = 1..(Len(versions[a]) + 1)
              /\ \A k \in 1..Len(versions[a]) : versions'[a][k] = versions[a][k]
          BY <4>1, <4>2, <4>3, AppendProperties, LenProperties
        <4>5. QED
          BY <4>3, <4>4
      <3>6. \A t : SkillFamily(a, t)' = SkillFamily(a, t)
        BY <1>1 DEF SkillFamily
      <3>7. ASSUME NEW t, Behind(a, t) PROVE Behind(a, t)'
        <4>1. CASE \E u \in v.stable : SkillFamily(a, u) = SkillFamily(a, t)
          <5>1. PICK u \in v.stable : SkillFamily(a, u) = SkillFamily(a, t)
            BY <4>1
          <5>2. CASE u # s
            BY <3>3, <3>4, <3>6, <5>1, <5>2 DEF Behind
          <5>3. CASE u = s
            <6> DEFINE k == Len(versions[a])
            <6>1. /\ k \in DOMAIN versions'[a]
                  /\ versions'[a][k].after = case_index' /\ s \in versions'[a][k].stable
              BY <3>2, <3>5 DEF HeadVersion
            <6>2. s \in HeadVersion(a)'.retired
              BY <3>3, <3>4
            <6> HIDE DEF k
            <6>3. QED
              BY <3>6, <5>1, <5>3, <6>1, <6>2 DEF Behind
          <5>4. QED
            BY <5>2, <5>3
        <4>2. CASE \E u \in v.retired :
                     /\ SkillFamily(a, u) = SkillFamily(a, t)
                     /\ \E k \in DOMAIN versions[a] :
                          versions[a][k].after = case_index /\ u \in versions[a][k].stable
          BY <3>2, <3>3, <3>4, <3>5, <3>6, <4>2 DEF Behind
        <4>3. QED
          BY <3>7, <4>1, <4>2 DEF Behind
      <3>8. Waits(a)'
        <4> SUFFICES ASSUME NEW t \in HeadVersion(a)'.active \ HeadVersion(a)'.stable
                     PROVE  \/ Cardinality(Won(evidence', a, t)) < 3
                            \/ Cardinality({RecurrenceFamily[c] : c \in Won(evidence', a, t)}) < 2
                            \/ Behind(a, t)'
          BY DEF Waits
        <4>1. t \in v.active \ v.stable
          BY <3>3, <3>4
        <4>2. Won(evidence', a, t) = Won(evidence, a, t)
          BY <1>2 DEF Won, RuntimeRows
        <4>3. QED
          BY <1>3, <3>7, <4>1, <4>2 DEF Waits
      <3>9. ASSUME NEW x \in UpdatingArms, x # a PROVE Waits(x)'
        <4>1. x \in Arms /\ versions'[x] = versions[x]
          BY <3>4, <3>9 DEF UpdatingArms
        <4>2. QED
          BY <1>1, <1>2, <1>3, <4>1, WaitsKept
      <3>10. QED
        BY <3>8, <3>9
    <2>3. QED
      BY <1>1, <2>1, <2>2
  <1>6. QED
    BY <1>4, <1>5 DEF Examined

LEMMA StepExamined ==
  ASSUME FamiliesNamed, Invariant, Tallied, Examined, [Next]_vars
  PROVE  Examined'
PROOF
  <1>0. Inductive
    BY DEF Invariant
  <1>1. CASE EvaluateCase
    BY <1>1 DEF EvaluateCase, Examined
  <1>2. ASSUME NEW a \in Arms, CommitArm(a) \/ RejectEvidence(a) \/ RejectTape(a)
        PROVE  Examined'
    <2>1. /\ phase = "commit"
          /\ phase' \in {"commit", "aborted"} \/ (phase' = "promote" /\ arm' = 1)
      BY <1>2 DEF CommitArm, RejectEvidence, RejectTape
    <2>2. QED
      BY <2>1 DEF Examined
  <1>3. ASSUME NEW a \in UpdatingArms, EndPromotion(a) PROVE Examined'
    BY <1>0, <1>3, EndPromotionExamined
  <1>4. ASSUME NEW a \in UpdatingArms, NEW s \in Specs,
               Promote(a, s) \/ AuditRevision(a, s) \/ RejectReplay(a, s)
        PROVE  Examined'
    <2>1. CASE RejectReplay(a, s)
      BY <2>1 DEF RejectReplay, Examined
    <2>2. QED
      BY <1>0, <1>4, <2>1, PromoteExamined, AuditExamined
  <1>5. CASE UNCHANGED vars
    <2>1. \A x, s : Won(evidence, x, s)' = Won(evidence, x, s)
      BY <1>5 DEF vars, Won, RuntimeRows
    <2>2. \A x : Waits(x) => Waits(x)'
      BY <1>5, <2>1, WaitsKept DEF vars
    <2>3. QED
      BY <1>5, <2>2 DEF Examined, vars
  <1>6. QED
    BY <1>1, <1>2, <1>3, <1>4, <1>5 DEF Next, Step, Finished

LEMMA InitExamined == Init => Examined
PROOF
  <1> SUFFICES ASSUME Init PROVE Examined
    OBVIOUS
  <1>1. \A a \in Arms : HeadVersion(a) = EmptyVersion
    BY DEF Init, HeadVersion
  <1>2. EmptyVersion.active = {} /\ phase # "promote"
    BY DEF EmptyVersion, Init, NextCase
  <1>3. QED
    BY <1>1, <1>2 DEF Examined, Waits, UpdatingArms

\* The promotion loop, which restarts after every promotion, and the audits after
\* it leave no revision provisional that meets the rule, but behind another.
THEOREM NoneIsLeftBehind ==
  ASSUME FamiliesNamed
  PROVE  Spec => []NoEligibleLeftBehind
PROOF
  <1>1. Init => Inductive /\ Settled /\ Faithful /\ Tallied /\ Examined
    BY InductiveInit, SettledInit, InitMapped, InitTallied, InitExamined
  <1>2. Inductive /\ Settled /\ Faithful /\ Tallied /\ Examined /\ [Next]_vars
        => Inductive' /\ Settled' /\ Faithful' /\ Tallied' /\ Examined'
    BY InductiveStep, SettledStep, StepFaithful, StepTallied, StepExamined DEF Invariant
  <1>3. Examined => NoEligibleLeftBehind
    BY DEF Examined, NoEligibleLeftBehind, Waits, Behind
  <1>4. QED
    BY <1>1, <1>2, <1>3, PTL DEF Spec

-----------------------------------------------------------------------------
(* What the decision rules promise.                                        *)

\* Cases name two families exactly when two of their families differ.
LEMMA TwoFamilies ==
  ASSUME NEW S, IsFiniteSet(S), NEW family
  PROVE  CrossFamily(S, family)
         <=> \E c, d \in S : /\ family[c] # NoFamily /\ family[d] # NoFamily
                             /\ family[c] # family[d]
PROOF
  <1> DEFINE F == Families(S, family)
             image == [c \in S |-> family[c]]
  <1>1. IsFiniteSet(F)
    <2> DEFINE I == {family[c] : c \in S}
    <2>1. image \in Surjection(S, I)
      BY DEF Surjection
    <2>2. IsFiniteSet(I)
      <3> HIDE DEF image, I
      <3>1. QED
        BY <2>1, FS_Surjection
    <2>3. F \in SUBSET I
      BY DEF Families
    <2> HIDE DEF F, I
    <2>4. QED
      BY <2>2, <2>3, FS_Subset
  <1>2. CrossFamily(S, family) <=> Cardinality(F) >= 2
    BY DEF CrossFamily
  <1>3. (\E x, y \in F : x # y)
        <=> \E c, d \in S : /\ family[c] # NoFamily /\ family[d] # NoFamily
                            /\ family[c] # family[d]
    BY DEF Families
  <1> HIDE DEF F
  <1>4. Cardinality(F) \in Nat
    BY <1>1, FS_CardinalityType
  <1>5. ASSUME Cardinality(F) >= 2 PROVE \E x, y \in F : x # y
    <2>1. F # {}
      BY <1>5, FS_EmptySet
    <2>2. PICK x \in F : TRUE
      BY <2>1
    <2>3. Cardinality(F \ {x}) = Cardinality(F) - 1
      BY <1>1, <2>2, FS_RemoveElement
    <2>4. F \ {x} # {}
      <3>1. Cardinality(F \ {x}) # 0
        BY <1>4, <1>5, <2>3
      <3>2. QED
        BY <3>1, FS_EmptySet
    <2>5. QED
      BY <2>2, <2>4
  <1>6. ASSUME NEW x \in F, NEW y \in F, x # y PROVE Cardinality(F) >= 2
    <2>1. IsFiniteSet({x}) /\ Cardinality({x}) = 1
      BY FS_Singleton
    <2> DEFINE one == {x}
    <2>2. y \notin one /\ IsFiniteSet(one) /\ Cardinality(one) = 1 /\ one \cup {y} \in SUBSET F
      BY <1>6, <2>1
    <2> HIDE DEF one
    <2>3. Cardinality(one \cup {y}) = 2
      BY <2>2, FS_AddElement
    <2> DEFINE two == one \cup {y}
    <2>4. two \in SUBSET F /\ Cardinality(two) = 2
      BY <2>2, <2>3
    <2> HIDE DEF two
    <2>5. Cardinality(two) <= Cardinality(F)
      BY <1>1, <2>4, FS_Subset
    <2>6. QED
      BY <1>4, <2>4, <2>5
  <1>7. QED
    BY <1>2, <1>3, <1>5, <1>6

\* How many numbers lie between two.
LEMMA Counting ==
  ASSUME NEW a \in Int, NEW b \in Int
  PROVE  IsFiniteSet(a..b) /\ (a <= b + 1 => Cardinality(a..b) = b + 1 - a)
PROOF
  <1>1. IsFiniteSet(a..b) /\ Cardinality(a..b) = IF a > b THEN 0 ELSE b-a+1
    BY FS_Interval, Zenon
  <1> DEFINE c == Cardinality(a..b)
  <1>2. c = IF a > b THEN 0 ELSE b-a+1
    BY <1>1
  <1> HIDE DEF c
  <1>3. a <= b + 1 => c = b + 1 - a
    BY <1>2
  <1>4. QED
    BY <1>1, <1>3 DEF c

\* A history of n cases has n of them.
LEMMA CountUpTo ==
  ASSUME NEW n \in Nat
  PROVE  IsFiniteSet(1..n) /\ Cardinality(1..n) = n
PROOF
  <1>1. 1 \in Int /\ n \in Int /\ 1 <= n + 1
    OBVIOUS
  <1>2. IsFiniteSet(1..n) /\ Cardinality(1..n) = n + 1 - 1
    BY <1>1, Counting
  <1>3. QED
    BY <1>2

\* The first k of a history's cases.
LEMMA FirstCases ==
  ASSUME NEW n \in Nat, NEW k \in Nat
  PROVE  Earliest(1..n, k) = {c \in 1..n : c <= k}
PROOF
  <1>1. ASSUME NEW c \in 1..n
        PROVE  Cardinality({d \in 1..n : d < c}) < k <=> c <= k
    <2>1. {d \in 1..n : d < c} = 1..(c - 1)
      OBVIOUS
    <2>2. c - 1 \in Nat
      OBVIOUS
    <2>3. Cardinality(1..(c - 1)) = c - 1
      BY <2>2, CountUpTo
    <2>4. Cardinality({d \in 1..n : d < c}) = c - 1
      BY <2>1, <2>3, Zenon
    <2> DEFINE below == Cardinality({d \in 1..n : d < c})
    <2>5. below = c - 1
      BY <2>4
    <2> HIDE DEF below
    <2>6. below < k <=> c <= k
      BY <2>5
    <2>7. QED
      BY <2>6 DEF below
  <1>2. QED
    BY <1>1 DEF Earliest

\* Two different sets of cases: one of them alone has their first difference.
LEMMA FirstDifference ==
  ASSUME NEW T \in SUBSET Nat, NEW U \in SUBSET Nat, T # U
  PROVE  /\ Min(SymDiff(T, U)) \in SymDiff(T, U)
         /\ \A y \in SymDiff(T, U) : Min(SymDiff(T, U)) <= y
PROOF
  <1>1. SymDiff(T, U) \in SUBSET Nat /\ SymDiff(T, U) # {}
    BY DEF SymDiff
  <1>2. QED
    BY <1>1, MinOfNaturals

\* No two triples are both the first that the nested loops reach.
LEMMA OneEarliestTriple ==
  ASSUME NEW S \in SUBSET Nat, NEW family, NEW T, NEW U,
         IsEarliestCrossFamilyThree(T, S, family), IsEarliestCrossFamilyThree(U, S, family)
  PROVE  T = U
PROOF
  <1>1. /\ T \in SUBSET Nat /\ U \in SUBSET Nat
        /\ ScannedBefore(T, U) /\ ScannedBefore(U, T)
    BY DEF IsEarliestCrossFamilyThree, CrossFamilyTriples
  <1>2. SUFFICES ASSUME T # U PROVE FALSE
    OBVIOUS
  <1>3. Min(SymDiff(T, U)) \in SymDiff(T, U)
    BY <1>1, <1>2, FirstDifference
  <1>4. SymDiff(T, U) = SymDiff(U, T)
    BY DEF SymDiff
  <1>5. Min(SymDiff(T, U)) \in T /\ Min(SymDiff(T, U)) \in U
    BY <1>1, <1>2, <1>4 DEF ScannedBefore
  <1>6. QED
    BY <1>3, <1>5 DEF SymDiff

\* A promotable history turns cross-family with one case: the validation triple
\* is that case behind the first two.
Turning(t, n, family) ==
  /\ t \in 3..n
  /\ CrossFamily(1..t, family)
  /\ \A k \in 3..n : CrossFamily(1..k, family) => t <= k

LEMMA HistoryTurns ==
  ASSUME NEW n \in Nat, NEW family, n >= 3, CrossFamily(1..n, family)
  PROVE  \E t : Turning(t, n, family)
PROOF
  <1> DEFINE K == {k \in 3..n : CrossFamily(1..k, family)}
  <1>1. K \in SUBSET Nat /\ n \in K
    OBVIOUS
  <1>2. Min(K) \in K /\ \A k \in K : Min(K) <= k
    <2> HIDE DEF K
    <2>1. K # {}
      BY <1>1
    <2>2. QED
      BY <1>1, <2>1, MinOfNaturals
  <1>3. Turning(Min(K), n, family)
    <2> DEFINE t == Min(K)
    <2>1. t \in K /\ \A k \in K : t <= k
      BY <1>2
    <2> HIDE DEF t
    <2>2. Turning(t, n, family)
      BY <2>1 DEF Turning
    <2>3. QED
      BY <2>2 DEF t
  <1>4. QED
    BY <1>3

\* Three cases are three.
LEMMA ThreeCases ==
  ASSUME NEW t \in Nat, t >= 3
  PROVE  IsFiniteSet({1, 2, t}) /\ Cardinality({1, 2, t}) = 3
PROOF
  <1>1. 2 \in Nat
    OBVIOUS
  <1>2. IsFiniteSet(1..2) /\ Cardinality(1..2) = 2
    BY <1>1, CountUpTo
  <1> DEFINE two == 1..2
  <1>3. t \notin two /\ two \cup {t} = {1, 2, t}
    OBVIOUS
  <1>4. IsFiniteSet(two) /\ Cardinality(two) = 2
    BY <1>2
  <1> HIDE DEF two
  <1>5. IsFiniteSet(two \cup {t}) /\ Cardinality(two \cup {t}) = 2 + 1
    BY <1>3, <1>4, FS_AddElement
  <1>6. QED
    BY <1>3, <1>5

LEMMA TurningTriple ==
  ASSUME NEW n \in Nat, NEW family, \A c \in 1..n : family[c] # NoFamily,
         NEW t, Turning(t, n, family), NEW m \in t..n
  PROVE  IsEarliestCrossFamilyThree({1, 2, t}, 1..m, family)
PROOF
  <1> DEFINE T == {1, 2, t}
  <1>1. t \in Nat /\ 3 <= t /\ t <= n /\ m \in Nat /\ t <= m /\ m <= n
    BY DEF Turning
  <1>2. \A k \in Nat : IsFiniteSet(1..k)
    <2>1. QED
      BY CountUpTo
  <1>3. IsFiniteSet(T) /\ Cardinality(T) = 3 /\ T \in SUBSET (1..m)
    BY <1>1, ThreeCases
  <1>4. \A k \in 1..n : CrossFamily(1..k, family) <=> \E c, d \in 1..k : family[c] # family[d]
    <2>1. ASSUME NEW k \in 1..n
          PROVE  CrossFamily(1..k, family) <=> \E c, d \in 1..k : family[c] # family[d]
      <3>1. IsFiniteSet(1..k) /\ \A c \in 1..k : family[c] # NoFamily
        BY <1>1, <1>2
      <3>2. QED
        BY <3>1, TwoFamilies
    <2>2. QED
      BY <2>1
  <1>5. CrossFamily(T, family)
    <2>1. CrossFamily(T, family) <=> \E c, d \in T : family[c] # family[d]
      <3>1. \A c \in T : family[c] # NoFamily
        BY <1>1
      <3> HIDE DEF T
      <3>2. QED
        BY <1>3, <3>1, TwoFamilies
    <2>2. PICK c \in 1..t, d \in 1..t : family[c] # family[d]
      BY <1>1, <1>4 DEF Turning
    <2>3. CASE t = 3
      BY <2>1, <2>2, <2>3
    <2>4. CASE t > 3
      <3>1. t - 1 \in 3..n /\ t - 1 \in 1..n /\ ~(t <= t - 1)
        BY <1>1, <2>4
      <3>2. ~CrossFamily(1..(t - 1), family)
        BY <3>1 DEF Turning
      <3>3. \A x, y \in 1..(t - 1) : family[x] = family[y]
        BY <1>4, <3>1, <3>2
      <3>4. 1 \in 1..(t - 1) /\ \A x \in 1..t : x = t \/ x \in 1..(t - 1)
        BY <1>1, <2>4
      <3>5. family[t] # family[1]
        BY <2>2, <3>3, <3>4
      <3>6. QED
        BY <2>1, <3>5
    <2>5. QED
      BY <1>1, <2>3, <2>4
  <1>6. ASSUME NEW U \in CrossFamilyTriples(1..m, family), U # T
        PROVE  Min(SymDiff(T, U)) \in T
    <2>1. U \in SUBSET (1..m) /\ Cardinality(U) = 3 /\ CrossFamily(U, family)
      BY <1>6 DEF CrossFamilyTriples
    <2>2. IsFiniteSet(U)
      BY <1>1, <1>2, <2>1, FS_Subset
    <2> DEFINE x == Min(SymDiff(T, U))
    <2>3. x \in SymDiff(T, U) /\ \A y \in SymDiff(T, U) : x <= y
      <3>1. T \in SUBSET Nat /\ U \in SUBSET Nat
        BY <1>3, <2>1
      <3>2. QED
        BY <1>6, <3>1, FirstDifference
    <2> HIDE DEF x
    <2>4. x \in Nat /\ x >= 1
      BY <1>1, <2>1, <2>3 DEF SymDiff
    <2>5. CASE 1 \notin U
      <3>1. 1 \in SymDiff(T, U)
        BY <2>5 DEF SymDiff
      <3>2. x <= 1
        BY <2>3, <3>1, Zenon
      <3>3. x = 1
        BY <2>4, <3>2
      <3>4. QED
        BY <3>3 DEF x
    <2>6. CASE 1 \in U /\ 2 \notin U
      <3>1. 2 \in SymDiff(T, U) /\ 1 \notin SymDiff(T, U)
        BY <2>6 DEF SymDiff
      <3>2. x <= 2 /\ x # 1
        BY <2>3, <3>1, Zenon
      <3>3. x = 2
        BY <2>4, <3>2
      <3>4. QED
        BY <3>3 DEF x
    <2>7. CASE 1 \in U /\ 2 \in U
      <3>1. PICK u \in U : u >= 3 /\ U = {1, 2, u}
        <4> DEFINE two == 1..2
        <4>1. two \in SUBSET U /\ two = {1, 2}
          BY <2>7
        <4>2. Cardinality(two) = 2 /\ IsFiniteSet(two)
          <5>1. 2 \in Nat
            OBVIOUS
          <5>2. QED
            BY <5>1, CountUpTo
        <4> HIDE DEF two
        <4>3. U \cap two = two
          BY <4>1
        <4>4. Cardinality(U \ two) = 1
          <5>1. Cardinality(U \ two) = Cardinality(U) - Cardinality(U \cap two)
            BY <2>2, FS_Difference
          <5>2. Cardinality(U \ two) = 3 - 2
            BY <2>1, <4>2, <4>3, <5>1, Zenon
          <5>3. QED
            BY <5>2
        <4>5. IsFiniteSet(U \ two)
          BY <2>2, FS_Difference
        <4>6. PICK u : U \ two = {u}
          BY <4>4, <4>5, FS_Singleton
        <4>7. u \in U /\ u \notin two
          BY <4>6
        <4>8. u >= 3
          BY <1>1, <2>1, <4>1, <4>7
        <4>9. U = {1, 2, u}
          BY <4>1, <4>6
        <4>10. QED
          BY <4>7, <4>8, <4>9
      <3>2. u \in Nat /\ u <= m /\ u \in 3..n /\ u \in 1..n
        BY <1>1, <2>1, <3>1
      <3>3. CrossFamily(1..u, family)
        <4>1. U \subseteq 1..u
          BY <3>1, <3>2
        <4>2. \E c, d \in U : family[c] # family[d]
          BY <2>1, <2>2, TwoFamilies
        <4>3. QED
          BY <1>4, <3>2, <4>1, <4>2
      <3>4. t <= u
        BY <3>2, <3>3 DEF Turning
      <3>5. t \in SymDiff(T, U) /\ 1 \notin SymDiff(T, U) /\ 2 \notin SymDiff(T, U)
        BY <1>1, <1>6, <3>1, <3>2, <3>4 DEF SymDiff
      <3>6. x \in {t, u} /\ x <= t
        BY <2>3, <3>1, <3>5 DEF SymDiff
      <3>7. x = t
        BY <1>1, <3>2, <3>4, <3>6
      <3>8. QED
        BY <3>7 DEF x
    <2>8. QED
      BY <2>5, <2>6, <2>7
  <1>7. T \in CrossFamilyTriples(1..m, family)
    BY <1>3, <1>5 DEF CrossFamilyTriples
  <1> HIDE DEF T
  <1>8. IsEarliestCrossFamilyThree(T, 1..m, family)
    BY <1>6, <1>7 DEF IsEarliestCrossFamilyThree, ScannedBefore
  <1>9. QED
    BY <1>8 DEF T

\* The prefix that promotion_decision searches ends where the history turns.
LEMMA PrefixTurns ==
  ASSUME NEW n \in Nat, NEW family, NEW t, Turning(t, n, family)
  PROVE  ValidationPrefix(1..n, family) = 1..t
PROOF
  <1>1. t \in Nat /\ 3 <= t /\ t <= n
    BY DEF Turning
  <1>2. Cardinality(1..n) = n
    BY CountUpTo
  <1>3. ASSUME NEW k \in 3..n PROVE Earliest(1..n, k) = 1..k
    <2>1. k \in Nat
      OBVIOUS
    <2>2. Earliest(1..n, k) = {c \in 1..n : c <= k}
      BY <2>1, FirstCases, Zenon
    <2>3. {c \in 1..n : c <= k} = 1..k
      OBVIOUS
    <2>4. QED
      BY <2>2, <2>3
  <1>4. ValidationPrefix(1..n, family)
        = {c \in 1..n : \A k \in 3..n : CrossFamily(1..k, family) => c \in 1..k}
    BY <1>2, <1>3 DEF ValidationPrefix
  <1>5. ASSUME NEW c \in 1..n
        PROVE  (\A k \in 3..n : CrossFamily(1..k, family) => c \in 1..k) <=> c \in 1..t
    <2>1. ASSUME c \in 1..t, NEW k \in 3..n, CrossFamily(1..k, family) PROVE c \in 1..k
      <3>1. t <= k
        BY <2>1 DEF Turning
      <3>2. QED
        BY <1>1, <2>1, <3>1
    <2>2. t \in 3..n /\ CrossFamily(1..t, family)
      BY DEF Turning
    <2>3. QED
      BY <2>1, <2>2
  <1>6. 1..t \subseteq 1..n
    BY <1>1
  <1>7. QED
    BY <1>4, <1>5, <1>6

\* Over a promotable history, the selected triple is the one where it turns.
LEMMA SelectedTriple ==
  ASSUME NEW n \in Nat, NEW family, \A c \in 1..n : family[c] # NoFamily,
         NEW t, Turning(t, n, family), Promotable(1..n, family), NEW T
  PROVE  IsValidationTriple(T, 1..n, family) <=> T = {1, 2, t}
PROOF
  <1>1. t \in Nat /\ 3 <= t /\ t <= n
    BY DEF Turning
  <1>2. Earliest(1..n, 3) = 1..3
    <2>1. 3 \in Nat
      OBVIOUS
    <2>2. Earliest(1..n, 3) = {c \in 1..n : c <= 3}
      BY <2>1, FirstCases
    <2>3. QED
      BY <1>1, <2>2
  <1>3. Cardinality({family[c] : c \in 1..3}) >= 2 <=> CrossFamily(1..3, family)
    <2>1. \A c \in 1..3 : family[c] # NoFamily
      BY <1>1
    <2>2. Families(1..3, family) = {family[c] : c \in 1..3}
      BY <2>1 DEF Families
    <2>3. QED
      BY <2>2 DEF CrossFamily
  <1>4. Cardinality({family[c] : c \in 1..3}) < 2 <=> ~CrossFamily(1..3, family)
    <2> DEFINE k == Cardinality({family[c] : c \in 1..3})
    <2>1. k \in Nat
      <3> DEFINE image == [c \in 1..3 |-> family[c]]
                 I == {family[c] : c \in 1..3}
                 D == 1..3
      <3>1. image \in Surjection(D, I)
        BY DEF Surjection
      <3>2. IsFiniteSet(D)
        <4>1. 3 \in Nat
          OBVIOUS
        <4>2. QED
          BY <4>1, CountUpTo
      <3> HIDE DEF image, I, D
      <3>3. IsFiniteSet(I)
        BY <3>1, <3>2, FS_Surjection
      <3>4. Cardinality(I) \in Nat
        BY <3>3, FS_CardinalityType
      <3>5. QED
        BY <3>4 DEF I
    <2>2. k >= 2 <=> CrossFamily(1..3, family)
      BY <1>3
    <2> HIDE DEF k
    <2>3. k < 2 <=> ~CrossFamily(1..3, family)
      BY <2>1, <2>2
    <2>4. QED
      BY <2>3 DEF k
  <1>5. CASE CrossFamily(1..3, family)
    <2>1. t = 3
      <3>1. 3 \in 3..n
        BY <1>1
      <3>2. t <= 3
        BY <1>5, <3>1 DEF Turning
      <3>3. QED
        BY <1>1, <3>2
    <2>2. IsValidationTriple(T, 1..n, family) <=> T = 1..3
      BY <1>2, <1>3, <1>4, <1>5 DEF IsValidationTriple
    <2>3. 1..3 = {1, 2, 3}
      OBVIOUS
    <2>4. QED
      BY <2>1, <2>2, <2>3
  <1>6. CASE ~CrossFamily(1..3, family)
    <2>1. IsValidationTriple(T, 1..n, family)
          <=> IsEarliestCrossFamilyThree(T, ValidationPrefix(1..n, family), family)
      BY <1>2, <1>3, <1>4, <1>6 DEF IsValidationTriple
    <2>2. ValidationPrefix(1..n, family) = 1..t
      BY PrefixTurns
    <2>3. IsEarliestCrossFamilyThree({1, 2, t}, 1..t, family)
      <3>1. t \in t..n
        BY <1>1
      <3>2. QED
        BY <3>1, TurningTriple
    <2>4. 1..t \in SUBSET Nat
      BY <1>1
    <2>5. IsEarliestCrossFamilyThree(T, 1..t, family) => T = {1, 2, t}
      BY <2>3, <2>4, OneEarliestTriple
    <2>6. QED
      BY <2>1, <2>2, <2>3, <2>5
  <1>7. QED
    BY <1>5, <1>6

\* The histories of promotion_decision, whatever their length.
HistoryTyped == history \in Seq(CaseFamilies)

LEMMA HistorySelects == HistoryTyped => ShortcutFindsEarliestTriple
PROOF
  <1> SUFFICES ASSUME HistoryTyped PROVE ShortcutFindsEarliestTriple
    OBVIOUS
  <1> DEFINE n == Len(history)
  <1>1. n \in Nat /\ Successes = 1..n
    BY LenProperties DEF HistoryTyped, Successes
  <1>2. \A c \in 1..n : history[c] # NoFamily
    <2>1. \A c \in 1..n : history[c] \in CaseFamilies
      BY ElementOfSeq DEF HistoryTyped
    <2>2. QED
      BY <2>1, RulesConstants
  <1>3. Cardinality(1..n) = n
    BY <1>1, CountUpTo
  <1> HIDE DEF n
  <1>4. CASE ~Promotable(1..n, history)
    <2>1. ValidationTriples = {}
      BY <1>1, <1>4 DEF ValidationTriples, IsValidationTriple
    <2>2. Cardinality({}) = 0
      BY FS_EmptySet
    <2>3. QED
      BY <1>1, <1>4, <2>1, <2>2 DEF ShortcutFindsEarliestTriple
  <1>5. CASE Promotable(1..n, history)
    <2>1. n >= 3 /\ CrossFamily(1..n, history)
      BY <1>3, <1>5 DEF Promotable
    <2>2. PICK t : Turning(t, n, history)
      BY <1>1, <2>1, HistoryTurns
    <2>3. t \in 1..n /\ t \in Nat /\ 3 <= t /\ n \in t..n
      BY <1>1, <2>2 DEF Turning
    <2> DEFINE selected == {1, 2, t}
    <2>4. \A T : IsValidationTriple(T, 1..n, history) <=> T = selected
      BY <1>1, <1>2, <1>5, <2>2, SelectedTriple
    <2>5. IsEarliestCrossFamilyThree(selected, 1..n, history)
      BY <1>1, <1>2, <2>2, <2>3, TurningTriple
    <2>6. selected \in SUBSET (1..n)
      BY <1>1, <2>3
    <2> HIDE DEF selected
    <2>7. ValidationTriples = {selected}
      BY <1>1, <2>4, <2>6 DEF ValidationTriples
    <2>8. Cardinality({selected}) = 1
      BY FS_Singleton
    <2>9. QED
      BY <1>1, <1>5, <2>5, <2>7, <2>8 DEF ShortcutFindsEarliestTriple
  <1>6. QED
    BY <1>4, <1>5

RankedEntries == [queue : {"stable", "provisional"}, rank : Nat]

\* Each queue lists its revisions by their places.
QueuesRanked ==
  /\ stableQueue \in Seq(RankedEntries) /\ provisionalQueue \in Seq(RankedEntries)
  /\ \A i \in 1..Len(stableQueue) : stableQueue[i] = [queue |-> "stable", rank |-> i]
  /\ \A i \in 1..Len(provisionalQueue) :
       provisionalQueue[i] = [queue |-> "provisional", rank |-> i]

\* The slots that two ranked queues fill.
LEMMA RankedQueuesFill == QueuesRanked => QuotaIsFair
PROOF
  <1> SUFFICES ASSUME QueuesRanked PROVE QuotaIsFair
    OBVIOUS
  <1> DEFINE n == Len(stableQueue)
             m == Len(provisionalQueue)
             a == HeadSize(n)
             b == TrialSize(n, m)
             c == BackfillSize(n, m)
             slots == 1..(a + b + c)
  <1>1. n \in Nat /\ m \in Nat
    BY LenProperties DEF QueuesRanked
  <1>2. /\ Selected \in Seq(RankedEntries) /\ Len(Selected) = a + b + c
        /\ \A i \in slots :
             Selected[i] = IF i <= a THEN stableQueue[i]
                           ELSE IF i <= a + b THEN provisionalQueue[i - a]
                           ELSE stableQueue[3 + (i - a - b)]
    <2>1. stableQueue \in Seq(RankedEntries) /\ provisionalQueue \in Seq(RankedEntries)
      BY DEF QueuesRanked
    <2>2. /\ Selected \in Seq(RankedEntries)
          /\ Len(Selected) = QuotaSize(n, m)
          /\ \A i \in 1..QuotaSize(n, m) :
               Selected[i] = QuotaEntry(stableQueue, provisionalQueue, i)
      BY <2>1, QuotaParts DEF Selected
    <2>3. QuotaSize(n, m) = a + b + c
      BY DEF QuotaSize
    <2>4. QED
      BY <2>2, <2>3 DEF QuotaEntry
  <1>3. DOMAIN Selected = slots
    BY <1>2, LenProperties
  <1>4. /\ \A i \in 1..n : stableQueue[i].queue = "stable" /\ stableQueue[i].rank = i
        /\ \A i \in 1..m : provisionalQueue[i].queue = "provisional" /\ provisionalQueue[i].rank = i
    <2>1. /\ \A i \in 1..n : stableQueue[i] = [queue |-> "stable", rank |-> i]
          /\ \A i \in 1..m : provisionalQueue[i] = [queue |-> "provisional", rank |-> i]
      BY DEF QueuesRanked
    <2>2. ASSUME NEW i \in 1..n
          PROVE  stableQueue[i].queue = "stable" /\ stableQueue[i].rank = i
      <3>1. stableQueue[i] = [queue |-> "stable", rank |-> i]
        BY <2>1
      <3>2. QED
        BY <3>1
    <2>3. ASSUME NEW i \in 1..m
          PROVE  provisionalQueue[i].queue = "provisional" /\ provisionalQueue[i].rank = i
      <3>1. provisionalQueue[i] = [queue |-> "provisional", rank |-> i]
        BY <2>1
      <3>2. QED
        BY <3>1
    <2>4. QED
      BY <2>2, <2>3
  <1>5. /\ a = IF n <= 3 THEN n ELSE 3
        /\ b = IF m <= 5 - a THEN m ELSE 5 - a
        /\ c = IF n <= 3 \/ m >= 2 THEN 0 ELSE IF n - 3 <= 2 - m THEN n - 3 ELSE 2 - m
    BY DEF HeadSize, TrialSize, BackfillSize
  <1> HIDE DEF n, m, a, b, c
  <1>6. /\ a \in Nat /\ b \in Nat /\ c \in Nat
        /\ a <= n /\ b <= m /\ a <= 3
        /\ c > 0 => a = 3 /\ 3 + c <= n
    BY <1>1, <1>5
  <1>7. ASSUME NEW i \in slots
        PROVE  \/ i <= a /\ Selected[i].queue = "stable" /\ Selected[i].rank = i
               \/ /\ i > a /\ i <= a + b
                  /\ Selected[i].queue = "provisional" /\ Selected[i].rank = i - a
               \/ /\ i > a + b /\ a = 3
                  /\ Selected[i].queue = "stable" /\ Selected[i].rank = i - b
    <2>1. CASE i <= a
      <3>1. i \in 1..n /\ ~(i > a) /\ ~(i > a + b)
        BY <1>1, <1>6, <2>1
      <3>2. Selected[i] = stableQueue[i]
        BY <1>2, <2>1
      <3>3. stableQueue[i].queue = "stable" /\ stableQueue[i].rank = i
        BY <1>4, <3>1
      <3>4. QED
        BY <2>1, <3>2, <3>3, Zenon
    <2>2. CASE i > a /\ i <= a + b
      <3>1. i - a \in 1..m /\ ~(i <= a) /\ ~(i > a + b)
        BY <1>1, <1>6, <2>2
      <3>2. Selected[i] = provisionalQueue[i - a]
        BY <1>2, <2>2, <3>1
      <3>3. /\ provisionalQueue[i - a].queue = "provisional"
            /\ provisionalQueue[i - a].rank = i - a
        BY <1>4, <3>1
      <3>4. QED
        BY <2>2, <3>2, <3>3, Zenon
    <2>3. CASE i > a + b
      <3>1. i - a - b > 0 /\ i - a - b <= c
        BY <1>6, <2>3
      <3>2. a = 3 /\ 3 + c <= n
        BY <1>6, <3>1
      <3>3. /\ 3 + (i - a - b) \in 1..n /\ 3 + (i - a - b) = i - b
            /\ ~(i <= a) /\ ~(i <= a + b)
        BY <1>1, <1>6, <2>3, <3>1, <3>2
      <3>4. Selected[i] = stableQueue[3 + (i - a - b)]
        BY <1>2, <3>3
      <3>5. /\ stableQueue[3 + (i - a - b)].queue = "stable"
            /\ stableQueue[3 + (i - a - b)].rank = i - b
        BY <1>4, <3>3
      <3>6. QED
        BY <2>3, <3>2, <3>4, <3>5, Zenon
    <2>4. QED
      BY <1>6, <2>1, <2>2, <2>3
  <1>8. ASSUME NEW i \in slots
        PROVE  /\ Selected[i].queue = "provisional" <=> i > a /\ i <= a + b
               /\ Selected[i].queue = "stable" <=> ~(Selected[i].queue = "provisional")
    <2>1. "stable" # "provisional"
      OBVIOUS
    <2>2. /\ i <= a => ~(i > a)
          /\ i > a + b => ~(i <= a + b)
      BY <1>6
    <2>3. QED
      BY <1>7, <2>1, <2>2, Zenon
  <1>9a. Cardinality(Taken("provisional")) = b
    <2>1. Taken("provisional") = (a + 1)..(a + b)
      <3>1. \A i \in slots : Selected[i].queue = "provisional" <=> i > a /\ i <= a + b
        BY <1>8
      <3>2. \A i : i \in (a + 1)..(a + b) <=> i \in slots /\ i > a /\ i <= a + b
        BY <1>6
      <3>3. QED
        BY <1>3, <3>1, <3>2 DEF Taken
    <2>2. a + 1 \in Int /\ a + b \in Int /\ a + 1 <= (a + b) + 1
      BY <1>6
    <2>3. Cardinality((a + 1)..(a + b)) = (a + b) + 1 - (a + 1)
      BY <2>2, Counting
    <2>4. QED
      BY <1>6, <2>1, <2>3
  <1>9. Cardinality(Taken("stable")) = a + c
    <2>1. IsFiniteSet(slots) /\ Cardinality(slots) = a + b + c
      <3>1. a + b + c \in Nat
        BY <1>6
      <3>2. QED
        BY <3>1, CountUpTo
    <2>2. Taken("stable") = slots \ Taken("provisional") /\ slots \cap Taken("provisional") = Taken("provisional")
      <3>1. \A i \in slots : Selected[i].queue = "stable" <=> ~(Selected[i].queue = "provisional")
        BY <1>8
      <3>2. QED
        BY <1>3, <3>1 DEF Taken
    <2> HIDE DEF slots
    <2>3. Cardinality(slots \ Taken("provisional")) = Cardinality(slots) - Cardinality(slots \cap Taken("provisional"))
      BY <2>1, FS_Difference
    <2>4. Cardinality(Taken("stable")) = (a + b + c) - b
      BY <1>9a, <2>1, <2>2, <2>3, Zenon
    <2>5. QED
      BY <1>6, <2>4
  <1>10. IsInjective(Selected)
    <2> SUFFICES ASSUME NEW i \in slots, NEW j \in slots, Selected[i] = Selected[j]
                 PROVE  i = j
      BY <1>3 DEF IsInjective
    <2>1. /\ Selected[i].queue = Selected[j].queue
          /\ Selected[i].rank = Selected[j].rank
      OBVIOUS
    <2>2. i > a /\ i <= a + b <=> j > a /\ j <= a + b
      BY <1>8, <2>1
    <2>3. ASSUME NEW k \in slots
          PROVE  /\ k \in Int
                 /\ \/ k <= a /\ Selected[k].rank = k
                    \/ k > a /\ k <= a + b /\ Selected[k].rank = k - a
                    \/ k > a + b /\ a = 3 /\ Selected[k].rank = k - b
      BY <1>6, <1>7
    <2> DEFINE p == Selected[i].rank
               q == Selected[j].rank
    <2>4. /\ \/ i <= a /\ p = i
             \/ i > a /\ i <= a + b /\ p = i - a
             \/ i > a + b /\ a = 3 /\ p = i - b
          /\ \/ j <= a /\ q = j
             \/ j > a /\ j <= a + b /\ q = j - a
             \/ j > a + b /\ a = 3 /\ q = j - b
          /\ p = q /\ i \in Int /\ j \in Int
      BY <2>1, <2>3, Zenon
    <2> HIDE DEF p, q, slots
    <2>5. QED
      BY ONLY <1>6, <2>2, <2>4
  <1>11. \A i \in slots : Selected[i].rank <= Cardinality(Taken(Selected[i].queue))
    <2> SUFFICES ASSUME NEW i \in slots
                 PROVE  Selected[i].rank <= Cardinality(Taken(Selected[i].queue))
      OBVIOUS
    <2>1. CASE i <= a
      <3>1. Selected[i].queue = "stable" /\ Selected[i].rank = i
        BY <1>6, <1>7, <2>1
      <3>2. i <= a + c
        BY <1>6, <2>1
      <3>3. QED
        BY <1>9, <3>1, <3>2
    <2>2. CASE i > a /\ i <= a + b
      <3>1. Selected[i].queue = "provisional" /\ Selected[i].rank = i - a
        BY <1>6, <1>7, <2>2
      <3>2. i - a <= b
        BY <1>6, <2>2
      <3>3. QED
        BY <1>9a, <3>1, <3>2
    <2>3. CASE i > a + b
      <3>1. Selected[i].queue = "stable" /\ Selected[i].rank = i - b
        BY <1>6, <1>7, <2>3
      <3>2. i - b <= a + c
        BY <1>6, <2>3
      <3>3. QED
        BY <1>9, <3>1, <3>2
    <2>4. QED
      BY <1>6, <2>1, <2>2, <2>3
  <1>12. /\ a + b + c = Min({MAX_SKILL_ATTEMPTS, n + m})
         /\ a + c >= Min({EXPLOITATION_SLOTS, n})
         /\ b >= Min({EXPLORATION_SLOTS, m})
    <2>1. EXPLOITATION_SLOTS = 3 /\ EXPLORATION_SLOTS = 2 /\ MAX_SKILL_ATTEMPTS = 5
      BY DEF EXPLOITATION_SLOTS, EXPLORATION_SLOTS, MAX_SKILL_ATTEMPTS
    <2>2. ASSUME NEW x \in Int, NEW y \in Int
          PROVE  Min({x, y}) = IF x <= y THEN x ELSE y
      <3> DEFINE z == Min({x, y})
      <3>1. z \in {x, y} /\ z <= x /\ z <= y
        BY MinOfTwo
      <3> HIDE DEF z
      <3>2. z = IF x <= y THEN x ELSE y
        BY <3>1
      <3>3. QED
        BY <3>2 DEF z
    <2>3. 5 \in Int /\ 3 \in Int /\ 2 \in Int /\ n + m \in Int /\ n \in Int /\ m \in Int
      BY <1>1
    <2>4. /\ Min({5, n + m}) = IF 5 <= n + m THEN 5 ELSE n + m
          /\ Min({3, n}) = IF 3 <= n THEN 3 ELSE n
          /\ Min({2, m}) = IF 2 <= m THEN 2 ELSE m
      BY <2>2, <2>3, Zenon
    <2>5. /\ a + b + c = IF 5 <= n + m THEN 5 ELSE n + m
          /\ a + c >= IF 3 <= n THEN 3 ELSE n
          /\ b >= IF 2 <= m THEN 2 ELSE m
      BY <1>1, <1>5
    <2>6. QED
      BY <2>1, <2>4, <2>5
  <1>13. QED
    BY <1>2, <1>3, <1>9a, <1>9, <1>10, <1>11, <1>12 DEF QuotaIsFair, n, m

\* What the callers of the rules keep: families that are named, queues in order.
RulesInv == HistoryTyped /\ QueuesRanked

LEMMA RulesInvInit == RulesInit => RulesInv
PROOF
  <1> SUFFICES ASSUME RulesInit PROVE RulesInv
    OBVIOUS
  <1>1. history = <<>> /\ stableQueue = <<>> /\ provisionalQueue = <<>>
    BY DEF RulesInit
  <1>2. \A S : <<>> \in Seq(S) /\ Len(<<>>) = 0
    BY EmptySeq
  <1>3. QED
    BY <1>1, <1>2 DEF RulesInv, HistoryTyped, QueuesRanked

LEMMA RulesInvStep == RulesInv /\ [RulesNext]_rulesVars => RulesInv'
PROOF
  <1> SUFFICES ASSUME RulesInv, [RulesNext]_rulesVars PROVE RulesInv'
    OBVIOUS
  <1>1. /\ history \in Seq(CaseFamilies)
        /\ stableQueue \in Seq(RankedEntries) /\ provisionalQueue \in Seq(RankedEntries)
        /\ \A i \in 1..Len(stableQueue) : stableQueue[i] = [queue |-> "stable", rank |-> i]
        /\ \A i \in 1..Len(provisionalQueue) :
             provisionalQueue[i] = [queue |-> "provisional", rank |-> i]
    BY DEF RulesInv, HistoryTyped, QueuesRanked
  <1>2. Len(stableQueue) \in Nat /\ Len(provisionalQueue) \in Nat
    BY <1>1, LenProperties
  <1>3. CASE Succeed
    <2>1. PICK f \in CaseFamilies : history' = Append(history, f)
      BY <1>3 DEF Succeed
    <2>2. history' \in Seq(CaseFamilies)
      BY <1>1, <2>1, AppendProperties
    <2>3. UNCHANGED <<stableQueue, provisionalQueue>>
      BY <1>3 DEF Succeed
    <2>4. QED
      BY <1>1, <2>2, <2>3 DEF RulesInv, HistoryTyped, QueuesRanked
  <1>5. CASE Deposit
    <2> DEFINE e == [queue |-> "provisional", rank |-> Len(provisionalQueue) + 1]
    <2>1. /\ provisionalQueue' = Append(provisionalQueue, e)
          /\ UNCHANGED <<history, stableQueue>>
      BY <1>5 DEF Deposit, Fresh
    <2>2. e \in RankedEntries
      BY <1>2 DEF RankedEntries
    <2>3. /\ provisionalQueue' \in Seq(RankedEntries)
          /\ \A i \in 1..Len(provisionalQueue') :
               provisionalQueue'[i] = [queue |-> "provisional", rank |-> i]
      <3>1. /\ provisionalQueue' \in Seq(RankedEntries) /\ Len(provisionalQueue') = Len(provisionalQueue) + 1
            /\ \A i \in 1..Len(provisionalQueue) : provisionalQueue'[i] = provisionalQueue[i]
            /\ provisionalQueue'[Len(provisionalQueue) + 1] = e
        BY <1>1, <2>1, <2>2, AppendProperties
      <3>2. ASSUME NEW i \in 1..Len(provisionalQueue')
            PROVE  provisionalQueue'[i] = [queue |-> "provisional", rank |-> i]
        <4>1. i \in 1..Len(provisionalQueue) \/ i = Len(provisionalQueue) + 1
          BY <1>2, <3>1
        <4>2. QED
          BY <1>1, <3>1, <4>1, Zenon
      <3>3. QED
        BY <3>1, <3>2
    <2>4. QED
      BY <1>1, <2>1, <2>3 DEF RulesInv, HistoryTyped, QueuesRanked
  <1>6. CASE Stabilise
    <2> DEFINE e == [queue |-> "stable", rank |-> Len(stableQueue) + 1]
               l == Len(provisionalQueue) - 1
    <2>1. /\ stableQueue' = Append(stableQueue, e)
          /\ provisionalQueue' = SubSeq(provisionalQueue, 1, l)
          /\ UNCHANGED history /\ provisionalQueue # <<>>
      BY <1>6 DEF Stabilise, Front
    <2>2. e \in RankedEntries
      BY <1>2 DEF RankedEntries
    <2>3. /\ stableQueue' \in Seq(RankedEntries)
          /\ \A i \in 1..Len(stableQueue') :
               stableQueue'[i] = [queue |-> "stable", rank |-> i]
      <3>1. /\ stableQueue' \in Seq(RankedEntries) /\ Len(stableQueue') = Len(stableQueue) + 1
            /\ \A i \in 1..Len(stableQueue) : stableQueue'[i] = stableQueue[i]
            /\ stableQueue'[Len(stableQueue) + 1] = e
        BY <1>1, <2>1, <2>2, AppendProperties
      <3>2. ASSUME NEW i \in 1..Len(stableQueue')
            PROVE  stableQueue'[i] = [queue |-> "stable", rank |-> i]
        <4>1. i \in 1..Len(stableQueue) \/ i = Len(stableQueue) + 1
          BY <1>2, <3>1
        <4>2. QED
          BY <1>1, <3>1, <4>1, Zenon
      <3>3. QED
        BY <3>1, <3>2
    <2>4. /\ provisionalQueue' \in Seq(RankedEntries)
          /\ \A i \in 1..Len(provisionalQueue') :
               provisionalQueue'[i] = [queue |-> "provisional", rank |-> i]
      <3>1. l \in Nat
        BY <1>1, <1>2, <2>1, EmptySeq
      <3>2. \A i \in 1..l : i \in 1..Len(provisionalQueue)
        BY <1>2, <3>1
      <3>3. \A i \in 1..l : provisionalQueue[i] \in RankedEntries
        <4> HIDE DEF l
        <4>1. QED
          BY <1>1, <3>2, ElementOfSeq
      <3> HIDE DEF l
      <3>4. /\ provisionalQueue' \in Seq(RankedEntries)
            /\ Len(provisionalQueue') = IF 1 <= l THEN l - 1 + 1 ELSE 0
            /\ \A i \in 1..(l - 1 + 1) : provisionalQueue'[i] = provisionalQueue[1 + i - 1]
        BY <2>1, <3>1, <3>3, SubSeqProperties
      <3>5. Len(provisionalQueue') = l
        BY <3>1, <3>4
      <3>6. \A i \in 1..l : provisionalQueue'[i] = provisionalQueue[i]
        BY <3>1, <3>4
      <3>7. QED
        BY <1>1, <3>2, <3>4, <3>5, <3>6
    <2>5. QED
      BY <1>1, <2>1, <2>3, <2>4 DEF RulesInv, HistoryTyped, QueuesRanked
  <1>7. CASE UNCHANGED rulesVars
    BY <1>7 DEF rulesVars, RulesInv, HistoryTyped, QueuesRanked
  <1>8. QED
    BY <1>3, <1>5, <1>6, <1>7 DEF RulesNext

\* Whatever cases a revision succeeds on, promotion_decision selects one triple, the
\* earliest of two families, as soon as there is one.
THEOREM PromotionSelectsEarliest == RulesSpec => []ShortcutFindsEarliestTriple
PROOF
  <1>1. RulesInv => ShortcutFindsEarliestTriple
    BY HistorySelects DEF RulesInv
  <1>2. QED
    BY <1>1, RulesInvInit, RulesInvStep, PTL DEF RulesSpec

\* However long the two queues are, the 3 + 2 quota fills every slot it can, serves
\* each queue from its front and lets neither crowd the other out.
THEOREM QuotaStaysFair == RulesSpec => []QuotaIsFair
PROOF
  <1>1. RulesInv => QuotaIsFair
    BY RankedQueuesFill DEF RulesInv
  <1>2. QED
    BY <1>1, RulesInvInit, RulesInvStep, PTL DEF RulesSpec
=============================================================================
