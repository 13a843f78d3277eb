-------------------------- MODULE RankingTheorems --------------------------
(***************************************************************************)
(* Least and greatest numbers, induction over the natural numbers and over *)
(* finite sets in a form without operator parameters, and what the lists   *)
(* of Rankings and of Fingerprints hold.                                   *)
(***************************************************************************)
EXTENDS Fingerprints, FiniteSetTheorems, SequenceTheorems, TLAPS

-----------------------------------------------------------------------------
(* Minimal sets and numbers.                                               *)

\* Of some finite sets one contains no other.
LEMMA MinimalSet ==
  ASSUME NEW F, F # {}, \A X \in F : IsFiniteSet(X)
  PROVE  \E X \in F : \A Y \in F : ~(Y \subseteq X /\ Y # X)
<1> DEFINE S == UNION F
<1>1. F \subseteq FiniteSubsetsOf(S)
  BY DEF FiniteSubsetsOf
<1>2. PICK X \in F : \A Y \in F : ~(<<Y, X>> \in StrictSubsetOrdering(S))
  BY <1>1, FS_StrictSubsetOrderingWellFounded, WFMin
<1>3. \A Y \in F : Y \in SUBSET S  OBVIOUS
<1> QED  BY <1>2, <1>3 DEF StrictSubsetOrdering

LEMMA LeastElement ==
  ASSUME NEW T, T \subseteq Nat, T # {}
  PROVE  \E x \in T : \A y \in T : x <= y
<1> DEFINE F == {0..n : n \in T}
<1>1. F # {} /\ \A X \in F : IsFiniteSet(X)
  <2>1. \A n \in T : n \in Int  OBVIOUS
  <2>2. \A n \in T : IsFiniteSet(0..n)  BY <2>1, FS_Interval
  <2> QED  BY <2>2
<1>2. PICK X \in F : \A Y \in F : ~(Y \subseteq X /\ Y # X)
  <2> HIDE DEF F
  <2> QED  BY <1>1, MinimalSet
<1>3. PICK x \in T : X = 0..x
  BY <1>2
<1>4. ASSUME NEW y \in T, ~(x <= y) PROVE FALSE
  <2>1. y \in Nat /\ x \in Nat /\ y < x  BY <1>4
  <2>2. 0..y \subseteq 0..x /\ x \in 0..x /\ x \notin 0..y  BY <2>1
  <2> QED  BY <1>2, <1>3, <2>2
<1> QED  BY <1>4

\* Induction, for a set of numbers.
LEMMA NaturalInduction ==
  ASSUME NEW T, 0 \in T, \A n \in Nat : n \in T => n + 1 \in T
  PROVE  Nat \subseteq T
<1> SUFFICES ASSUME ~(Nat \subseteq T) PROVE FALSE
  OBVIOUS
<1> DEFINE U == {n \in Nat : n \notin T}
<1>1. U # {} /\ U \subseteq Nat
  OBVIOUS
<1>2. PICK x \in U : \A y \in U : x <= y
  BY <1>1, LeastElement
<1>3. x # 0 /\ x \in Nat  BY <1>2
<1>4. x - 1 \in Nat /\ x - 1 \notin U  BY <1>2, <1>3
<1> QED  BY <1>2, <1>3, <1>4

\* Induction, for a family of subsets of a finite set.
LEMMA SubsetInduction ==
  ASSUME NEW S, IsFiniteSet(S), NEW F, {} \in F,
         \A X \in SUBSET S, x \in S : X \in F /\ x \notin X => X \cup {x} \in F
  PROVE  \A X \in SUBSET S : X \in F
<1> SUFFICES ASSUME ~(\A X \in SUBSET S : X \in F) PROVE FALSE
  OBVIOUS
<1> DEFINE U == {X \in SUBSET S : X \notin F}
<1>1. U \subseteq SUBSET S /\ U # {} /\ \A X \in U : IsFiniteSet(X)
  BY FS_Subset
<1>2. PICK X \in U : \A Y \in U : ~(Y \subseteq X /\ Y # X)
  <2> HIDE DEF U
  <2> QED  BY <1>1, MinimalSet
<1>3. PICK x \in X : TRUE  BY <1>2
<1>4. x \in S /\ X \ {x} \in SUBSET S /\ X \ {x} \notin U /\ (X \ {x}) \cup {x} = X
  BY <1>2, <1>3
<1> QED  BY <1>2, <1>4

\* A finite set of numbers has a greatest member and a least one.
LEMMA GreatestElement ==
  ASSUME NEW S, IsFiniteSet(S), S \subseteq Int, S # {}
  PROVE  /\ \E x \in S : \A y \in S : y <= x
         /\ \E x \in S : \A y \in S : x <= y
<1> DEFINE F == {X \in SUBSET S : X # {} => /\ \E x \in X : \A y \in X : y <= x
                                            /\ \E x \in X : \A y \in X : x <= y}
<1>1. {} \in F  OBVIOUS
<1>2. ASSUME NEW X \in SUBSET S, NEW z \in S, X \in F, z \notin X
      PROVE  X \cup {z} \in F
  <2>1. CASE X = {}
    <3>1. z <= z  OBVIOUS
    <3> QED  BY <2>1, <3>1
  <2>2. CASE X # {}
    <3>1. PICK g \in X : \A y \in X : y <= g  BY <1>2, <2>2
    <3>2. PICK l \in X : \A y \in X : l <= y  BY <1>2, <2>2
    <3>3. /\ z <= z /\ g \in Int /\ l \in Int /\ z \in Int
          /\ \A y \in X : y \in Int
      OBVIOUS
    <3>4. \E x \in X \cup {z} : \A y \in X \cup {z} : y <= x
      <4>1. CASE z <= g  BY <3>1, <4>1
      <4>2. CASE ~(z <= g)
        <5>1. \A y \in X : y <= z  BY <3>1, <3>3, <4>2
        <5> QED  BY <3>3, <5>1
      <4> QED  BY <4>1, <4>2
    <3>5. \E x \in X \cup {z} : \A y \in X \cup {z} : x <= y
      <4>1. CASE l <= z  BY <3>2, <4>1
      <4>2. CASE ~(l <= z)
        <5>1. \A y \in X : z <= y  BY <3>2, <3>3, <4>2
        <5> QED  BY <3>3, <5>1
      <4> QED  BY <4>1, <4>2
    <3> QED  BY <3>4, <3>5
  <2> QED  BY <2>1, <2>2
<1> HIDE DEF F
<1>3. \A X \in SUBSET S : X \in F  BY <1>1, <1>2, SubsetInduction
<1> QED  BY <1>3 DEF F
\* What Min and Max of the community modules return.
LEMMA MinOfFinite ==
  ASSUME NEW S, IsFiniteSet(S), S \subseteq Int, S # {}
  PROVE  Min(S) \in S /\ \A y \in S : Min(S) <= y
<1>1. \E x \in S : \A y \in S : x <= y  BY GreatestElement
<1> QED  BY <1>1 DEF Min

LEMMA MaxOfFinite ==
  ASSUME NEW S, IsFiniteSet(S), S \subseteq Int, S # {}
  PROVE  Max(S) \in S /\ \A y \in S : y <= Max(S)
<1>1. \E x \in S : \A y \in S : y <= x  BY GreatestElement
<1>2. \A x, y \in S : y <= x <=> x >= y  OBVIOUS
<1> QED  BY <1>1, <1>2 DEF Max

LEMMA OfTwo ==
  ASSUME NEW a \in Int, NEW b \in Int
  PROVE  /\ Min({a, b}) = IF a <= b THEN a ELSE b
         /\ Max({a, b}) = IF a <= b THEN b ELSE a
<1>1. IsFiniteSet({a, b}) /\ {a, b} \subseteq Int /\ {a, b} # {}
  <2>1. IsFiniteSet({a})  BY FS_Singleton
  <2>2. IsFiniteSet({a} \cup {b})  BY <2>1, FS_AddElement
  <2>3. {a, b} = {a} \cup {b}  OBVIOUS
  <2> QED  BY <2>2, <2>3
<1>2. Min({a, b}) \in {a, b} /\ Min({a, b}) <= a /\ Min({a, b}) <= b
  BY <1>1, MinOfFinite
<1>3. Max({a, b}) \in {a, b} /\ a <= Max({a, b}) /\ b <= Max({a, b})
  BY <1>1, MaxOfFinite
<1> QED  BY <1>2, <1>3

LEMMA SeqOfItself ==
  ASSUME NEW S, NEW s \in Seq(S)
  PROVE  s \in Seq(ToSet(s))
<1>1. Len(s) \in Nat /\ DOMAIN s = 1..Len(s) /\ s \in [1..Len(s) -> S]
  BY LenProperties
<1>2. s \in [1..Len(s) -> ToSet(s)]  BY <1>1 DEF ToSet
<1> QED  BY <1>1, <1>2, SeqDef

LEMMA FiniteContents ==
  ASSUME NEW S, NEW s \in Seq(S)
  PROVE  IsFiniteSet(ToSet(s)) /\ ToSet(s) \subseteq S
<1>1. Len(s) \in Nat /\ s \in [1..Len(s) -> S] /\ DOMAIN s = 1..Len(s)
  BY LenProperties
<1>2. s \in Surjection(1..Len(s), ToSet(s))
  BY <1>1 DEF Surjection, ToSet
<1>3. IsFiniteSet(1..Len(s))  BY <1>1, FS_Interval
<1> QED  BY <1>1, <1>2, <1>3, FS_Surjection DEF ToSet

-----------------------------------------------------------------------------
(* Ranked lists.                                                           *)

IsStrictOrder(S, R) ==
  /\ \A x \in S : <<x, x>> \notin R
  /\ \A x, y, z \in S : <<x, y>> \in R /\ <<y, z>> \in R => <<x, z>> \in R

IsTotalOrder(S, R) ==
  /\ IsStrictOrder(S, R)
  /\ \A x, y \in S : x # y => <<x, y>> \in R \/ <<y, x>> \in R

\* Each member has fewer predecessors than those that follow it.
LEMMA RankGrows ==
  ASSUME NEW S, IsFiniteSet(S), NEW R, IsStrictOrder(S, R), NEW x \in S
  PROVE  /\ Cardinality({y \in S : <<y, x>> \in R}) \in 0..(Cardinality(S) - 1)
         /\ \A z \in S : <<x, z>> \in R =>
              Cardinality({y \in S : <<y, x>> \in R}) < Cardinality({y \in S : <<y, z>> \in R})
<1> DEFINE Below(z) == {y \in S : <<y, z>> \in R}
<1>1. \A z \in S : Below(z) \subseteq S /\ z \notin Below(z)
  BY DEF IsStrictOrder
<1>2. \A z \in S : <<x, z>> \in R => Below(x) \subseteq Below(z) /\ x \in Below(z)
  BY DEF IsStrictOrder
<1> HIDE DEF Below
<1>3. \A z \in S : IsFiniteSet(Below(z)) /\ Cardinality(Below(z)) \in Nat
  BY <1>1, FS_Subset, FS_CardinalityType
<1>4. Cardinality(S) \in Nat  BY FS_CardinalityType
<1>5. Cardinality(Below(x)) <= Cardinality(S) /\ Cardinality(Below(x)) # Cardinality(S)
  BY <1>1, FS_Subset
<1>6. ASSUME NEW z \in S, <<x, z>> \in R
      PROVE  Cardinality(Below(x)) < Cardinality(Below(z))
  <2>1. /\ Cardinality(Below(x)) <= Cardinality(Below(z))
        /\ Cardinality(Below(x)) # Cardinality(Below(z))
    BY <1>1, <1>2, <1>3, <1>6, FS_Subset
  <2> QED  BY <1>3, <2>1
<1>7. Cardinality(Below(x)) \in 0..(Cardinality(S) - 1)
  BY <1>3, <1>4, <1>5
<1> QED  BY <1>6, <1>7 DEF Below

\* The ranks of a total order are the numbers below the size of the set.
LEMMA RanksEnumerate ==
  ASSUME NEW S, IsFiniteSet(S), NEW R, IsTotalOrder(S, R)
  PROVE  \A n \in 1..Cardinality(S) :
           \E x \in S : Cardinality({y \in S : <<y, x>> \in R}) = n - 1
<1> DEFINE rank == [x \in S |-> Cardinality({y \in S : <<y, x>> \in R})]
           T == 0..(Cardinality(S) - 1)
<1>1. IsStrictOrder(S, R)  BY DEF IsTotalOrder
<1>2. /\ \A x \in S : rank[x] \in T
      /\ \A x, z \in S : <<x, z>> \in R => rank[x] < rank[z]
  BY <1>1, RankGrows
<1>3. rank \in [S -> T]
  <2>1. \A x \in S : Cardinality({y \in S : <<y, x>> \in R}) \in T
    BY <1>1, RankGrows
  <2> HIDE DEF T
  <2> QED  BY <2>1
<1>4. Cardinality(S) \in Nat  BY FS_CardinalityType
<1>5. IsFiniteSet(T) /\ Cardinality(T) = Cardinality(S)
  BY <1>4, FS_Interval
<1> HIDE DEF rank
<1>6. \A x, z \in S : rank[x] = rank[z] => x = z
  <2>1. \A x \in S : rank[x] \in Int  BY <1>2, <1>4
  <2>2. \A x, z \in S : x # z => rank[x] < rank[z] \/ rank[z] < rank[x]
    BY <1>2 DEF IsTotalOrder
  <2> QED  BY <2>1, <2>2
<1> HIDE DEF T
<1>7. rank \in Injection(S, T)
  BY <1>3, <1>6 DEF Injection, IsInjective
<1>8. rank \in Surjection(S, T)
  BY <1>5, <1>7, FS_Injection
<1>9. \A k \in T : \E x \in S : rank[x] = k
  BY <1>8 DEF Surjection
<1>10. \A n \in 1..Cardinality(S) : n - 1 \in T
  BY <1>4 DEF T
<1> QED  BY <1>9, <1>10 DEF rank

\* A ranked list holds each member of the set once, in the order.
LEMMA RankedList ==
  ASSUME NEW S, IsFiniteSet(S), NEW R, IsTotalOrder(S, R)
  PROVE  LET s == Ranked(S, R)
         IN  /\ s \in Seq(S) /\ Len(s) = Cardinality(S)
             /\ \A x \in S : \E n \in 1..Len(s) : s[n] = x
             /\ \A m, n \in 1..Len(s) : m < n => <<s[m], s[n]>> \in R
             /\ \A m, n \in 1..Len(s) : s[m] = s[n] => m = n
<1> DEFINE s == Ranked(S, R)
           N == Cardinality(S)
           Rank(x) == Cardinality({y \in S : <<y, x>> \in R})
<1>1. IsStrictOrder(S, R)  BY DEF IsTotalOrder
<1>2. N \in Nat  BY FS_CardinalityType
<1>3. s = [n \in 1..N |-> CHOOSE x \in S : Rank(x) = n - 1]
  BY DEF Ranked
<1>4. \A n \in 1..N : \E x \in S : Rank(x) = n - 1
  BY RanksEnumerate
<1>5. /\ \A x \in S : Rank(x) \in 0..(N - 1)
      /\ \A x, z \in S : <<x, z>> \in R => Rank(x) < Rank(z)
  BY <1>1, RankGrows
<1> HIDE DEF s, N, Rank
<1>6. \A n \in 1..N : s[n] \in S /\ Rank(s[n]) = n - 1
  BY <1>3, <1>4
<1>7. s \in [1..N -> S]  BY <1>3, <1>6
<1>8. s \in Seq(S) /\ Len(s) = N
  BY <1>2, <1>7, SeqDef
<1>9. \A m, n \in 1..N : s[m] = s[n] => m = n
  BY <1>2, <1>6
<1>10. \A x, y \in S : Rank(x) = Rank(y) => x = y
  <2>1. \A x, y \in S : x # y => Rank(x) < Rank(y) \/ Rank(y) < Rank(x)
    BY <1>5 DEF IsTotalOrder
  <2>2. \A x \in S : Rank(x) \in Int  BY <1>2, <1>5
  <2> QED  BY <2>1, <2>2
<1>11. \A x \in S : \E n \in 1..N : s[n] = x
  <2> SUFFICES ASSUME NEW x \in S PROVE \E n \in 1..N : s[n] = x
    OBVIOUS
  <2>1. Rank(x) + 1 \in 1..N  BY <1>2, <1>5
  <2>2. Rank(s[Rank(x) + 1]) = Rank(x) /\ s[Rank(x) + 1] \in S  BY <1>2, <1>5, <1>6, <2>1
  <2> QED  BY <1>10, <2>1, <2>2
<1>12. \A m, n \in 1..N : m < n => <<s[m], s[n]>> \in R
  <2> SUFFICES ASSUME NEW m \in 1..N, NEW n \in 1..N, m < n PROVE <<s[m], s[n]>> \in R
    OBVIOUS
  <2>1. s[m] \in S /\ s[n] \in S /\ Rank(s[m]) < Rank(s[n])
    BY <1>2, <1>6
  <2>2. s[m] # s[n] /\ ~(Rank(s[n]) < Rank(s[m]))
    BY <1>2, <1>6, <2>1
  <2>3. <<s[n], s[m]>> \notin R  BY <1>5, <2>1, <2>2
  <2> QED  BY <2>1, <2>2, <2>3 DEF IsTotalOrder
<1> QED  BY <1>8, <1>9, <1>11, <1>12 DEF s, N

LEMMA AscendingList ==
  ASSUME NEW K, IsFiniteSet(K), K \subseteq Int
  PROVE  LET s == Ascending(K)
         IN  /\ s \in Seq(K) /\ Len(s) = Cardinality(K)
             /\ \A k \in K : \E n \in 1..Len(s) : s[n] = k
             /\ \A m, n \in 1..Len(s) : m < n => s[m] < s[n]
<1> DEFINE R == {p \in K \X K : p[1] < p[2]}
           s == Ascending(K)
<1>1. \A x, y \in K : <<x, y>> \in R <=> x < y
  OBVIOUS
<1>2. \A x \in K : x \in Int  OBVIOUS
<1>3. s = Ranked(K, R)  BY DEF Ascending
<1> HIDE DEF R
<1>4. IsTotalOrder(K, R)
  <2>1. \A x \in K : ~(x < x)  BY <1>2
  <2>2. \A x, y, z \in K : x < y /\ y < z => x < z  BY <1>2
  <2>3. \A x, y \in K : x # y => x < y \/ y < x  BY <1>2
  <2> QED  BY <1>1, <2>1, <2>2, <2>3 DEF IsTotalOrder, IsStrictOrder
<1> HIDE DEF s
<1>5. /\ s \in Seq(K) /\ Len(s) = Cardinality(K)
      /\ \A k \in K : \E n \in 1..Len(s) : s[n] = k
      /\ \A m, n \in 1..Len(s) : m < n => <<s[m], s[n]>> \in R
  BY <1>3, <1>4, RankedList
<1>6. \A m, n \in 1..Len(s) : m < n => s[m] < s[n]
  <2>1. \A m \in 1..Len(s) : s[m] \in K  BY <1>5, ElementOfSeq
  <2> QED  BY <1>1, <1>5, <2>1
<1> QED  BY <1>5, <1>6 DEF s

\* What is picked keeps its order: place n of the list is place p[n] of s.
LEMMA PickedList ==
  ASSUME NEW S, NEW s \in Seq(S), NEW K, K \subseteq 1..Len(s)
  PROVE  LET t == AtPlaces(s, K)
             p == Ascending(K)
         IN  /\ t \in Seq(S) /\ Len(t) = Cardinality(K) /\ Cardinality(K) \in Nat
             /\ \A n \in 1..Len(t) : p[n] \in K /\ t[n] = s[p[n]]
             /\ \A m, n \in 1..Len(t) : m < n => p[m] < p[n]
             /\ \A k \in K : \E n \in 1..Len(t) : t[n] = s[k] /\ p[n] = k
<1> DEFINE t == AtPlaces(s, K)
           p == Ascending(K)
           N == Cardinality(K)
<1>1. Len(s) \in Nat /\ s \in [1..Len(s) -> S]  BY LenProperties
<1>2. IsFiniteSet(K) /\ K \subseteq Int /\ N \in Nat
  <2>1. IsFiniteSet(1..Len(s))  BY <1>1, FS_Interval
  <2>2. IsFiniteSet(K)  BY <2>1, FS_Subset
  <2> QED  BY <1>1, <2>2, FS_CardinalityType
<1>3. t = [n \in 1..N |-> s[p[n]]]  BY DEF AtPlaces
<1>4. /\ p \in Seq(K) /\ Len(p) = N
      /\ \A k \in K : \E n \in 1..N : p[n] = k
      /\ \A m, n \in 1..N : m < n => p[m] < p[n]
  BY <1>2, AscendingList
<1> HIDE DEF t, p, N
<1>5. \A n \in 1..N : p[n] \in K  BY <1>4, ElementOfSeq
<1>6. \A n \in 1..N : s[p[n]] \in S  BY <1>1, <1>5
<1>7. t \in [1..N -> S]  BY <1>3, <1>6
<1>8. t \in Seq(S) /\ Len(t) = N  BY <1>2, <1>7, SeqDef
<1> QED  BY <1>2, <1>3, <1>4, <1>5, <1>8 DEF t, p, N

-----------------------------------------------------------------------------
(* Fractions.                                                              *)

LEMMA Scaled ==
  ASSUME NEW x \in Int, NEW y \in Int, NEW k \in Nat, x <= y
  PROVE  x * k <= y * k
OBVIOUS

LEMMA Unscaled ==
  ASSUME NEW x \in Int, NEW y \in Int, NEW k \in Nat \ {0}, x * k <= y * k
  PROVE  x <= y
<1> SUFFICES ASSUME y < x PROVE FALSE
  OBVIOUS
<1>1. y + 1 <= x /\ y + 1 \in Int  OBVIOUS
<1>2. (y + 1) * k <= x * k  BY <1>1, Scaled
<1>3. (y + 1) * k = y * k + k  OBVIOUS
<1> QED  BY <1>2, <1>3

\* No fraction exceeds one that an intermediate one does not exceed.
LEMMA FractionsInOrder ==
  ASSUME NEW x1 \in Int, NEW x2 \in Nat \ {0}, NEW y1 \in Int, NEW y2 \in Nat \ {0},
         NEW z1 \in Int, NEW z2 \in Nat \ {0},
         y1 * x2 <= x1 * y2, z1 * y2 <= y1 * z2
  PROVE  z1 * x2 <= x1 * z2
<1>1. (z1 * y2) * x2 <= (y1 * z2) * x2  BY Scaled
<1>2. (y1 * x2) * z2 <= (x1 * y2) * z2  BY Scaled
<1>3. /\ (z1 * y2) * x2 = (z1 * x2) * y2 /\ (y1 * z2) * x2 = (y1 * x2) * z2
      /\ (x1 * y2) * z2 = (x1 * z2) * y2
  OBVIOUS
<1>4. (z1 * x2) * y2 <= (x1 * z2) * y2  BY <1>1, <1>2, <1>3
<1> QED  BY <1>4, Unscaled

IsFraction(x) == x[1] \in Int /\ x[2] \in Nat \ {0}

LEMMA ExceedingIsWeak ==
  ASSUME NEW x, IsFraction(x), NEW y, IsFraction(y), NEW z, IsFraction(z)
  PROVE  /\ Exceeds(x, y) => ~Exceeds(y, x)
         /\ ~Exceeds(y, x) /\ ~Exceeds(z, y) => ~Exceeds(z, x)
<1>1. /\ x[1] \in Int /\ x[2] \in Nat \ {0} /\ y[1] \in Int /\ y[2] \in Nat \ {0}
      /\ z[1] \in Int /\ z[2] \in Nat \ {0}
  BY DEF IsFraction
<1>2. /\ x[1] * y[2] \in Int /\ y[1] * x[2] \in Int /\ y[1] * z[2] \in Int
      /\ z[1] * y[2] \in Int /\ x[1] * z[2] \in Int /\ z[1] * x[2] \in Int
  BY <1>1
<1>3. Exceeds(x, y) => ~Exceeds(y, x)  BY <1>2 DEF Exceeds
<1>4. ASSUME ~Exceeds(y, x), ~Exceeds(z, y) PROVE ~Exceeds(z, x)
  <2>1. y[1] * x[2] <= x[1] * y[2] /\ z[1] * y[2] <= y[1] * z[2]
    BY <1>2, <1>4 DEF Exceeds
  <2>2. z[1] * x[2] <= x[1] * z[2]  BY <1>1, <2>1, FractionsInOrder
  <2> QED  BY <1>2, <2>2 DEF Exceeds
<1> QED  BY <1>3, <1>4

\* The larger fraction first, and equal ones in some order of their own.
LEMMA LargerFirst ==
  ASSUME NEW S, NEW v, \A i \in S : IsFraction(v[i]),
         NEW Q, IsTotalOrder(S, Q), NEW R,
         \A i, j \in S : <<i, j>> \in R <=>
           Exceeds(v[i], v[j]) \/ (~Exceeds(v[j], v[i]) /\ <<i, j>> \in Q)
  PROVE  IsTotalOrder(S, R)
<1>1. \A i, j \in S : Exceeds(v[i], v[j]) => ~Exceeds(v[j], v[i])
  BY ExceedingIsWeak
<1>2. \A i, j, k \in S :
        ~Exceeds(v[j], v[i]) /\ ~Exceeds(v[k], v[j]) => ~Exceeds(v[k], v[i])
  BY ExceedingIsWeak
<1>3. \A i, j \in S : <<i, j>> \in R <=>
        Exceeds(v[i], v[j]) \/ (~Exceeds(v[j], v[i]) /\ <<i, j>> \in Q)
  OBVIOUS
<1>4. /\ \A i \in S : <<i, i>> \notin Q
      /\ \A i, j \in S : i # j => <<i, j>> \in Q \/ <<j, i>> \in Q
      /\ \A i, j, k \in S : <<i, j>> \in Q /\ <<j, k>> \in Q => <<i, k>> \in Q
  BY DEF IsTotalOrder, IsStrictOrder
<1>5. \A i \in S : <<i, i>> \notin R  BY <1>1, <1>3, <1>4
<1>6. \A i, j \in S : i # j => <<i, j>> \in R \/ <<j, i>> \in R
  BY <1>3, <1>4
<1>7. ASSUME NEW i \in S, NEW j \in S, NEW k \in S, <<i, j>> \in R, <<j, k>> \in R
      PROVE  <<i, k>> \in R
  <2>1. ~Exceeds(v[j], v[i]) /\ ~Exceeds(v[k], v[j])  BY <1>1, <1>3, <1>7
  <2>2. ~Exceeds(v[k], v[i])  BY <1>2, <2>1
  <2>3. ~Exceeds(v[i], v[k]) => ~Exceeds(v[i], v[j]) /\ ~Exceeds(v[j], v[k])
    BY <1>2, <2>1
  <2>4. ~Exceeds(v[i], v[k]) => <<i, j>> \in Q /\ <<j, k>> \in Q  BY <1>3, <1>7, <2>3
  <2> QED  BY <1>3, <1>4, <2>2, <2>4
<1> QED  BY <1>5, <1>6, <1>7 DEF IsTotalOrder, IsStrictOrder

LEMMA LesserFirst ==
  ASSUME NEW S, S \subseteq Int, NEW Q, \A i, j \in S : <<i, j>> \in Q <=> i < j
  PROVE  IsTotalOrder(S, Q)
<1>1. \A i \in S : i \in Int  OBVIOUS
<1>2. \A i \in S : <<i, i>> \notin Q  BY <1>1
<1>3. \A i, j \in S : i # j => <<i, j>> \in Q \/ <<j, i>> \in Q  BY <1>1
<1>4. \A i, j, k \in S : <<i, j>> \in Q /\ <<j, k>> \in Q => <<i, k>> \in Q  BY <1>1
<1> QED  BY <1>2, <1>3, <1>4 DEF IsTotalOrder, IsStrictOrder

-----------------------------------------------------------------------------
(* Lists of similar keys and of distinct members.                          *)

\* The similarity of two finite sets that share a word is a fraction.
LEMMA SimilarityIsAFraction ==
  ASSUME NEW f, IsFiniteSet(f), NEW g, IsFiniteSet(g), Related(f, g)
  PROVE  IsFraction(Similarity(f, g))
<1>1. IsFiniteSet(f \cap g)  BY FS_Intersection
<1>2. /\ Cardinality(f \cap g) \in Nat /\ Cardinality(f) \in Nat /\ Cardinality(g) \in Nat
  BY <1>1, FS_CardinalityType
<1>3. f # {} /\ g # {}  BY DEF Related
<1>4. Cardinality(f) # 0 /\ Cardinality(g) # 0  BY <1>3, FS_EmptySet
<1>5. Max({Cardinality(f), Cardinality(g)}) \in Nat \ {0}
  <2> DEFINE a == Cardinality(f)
             b == Cardinality(g)
  <2>1. a \in Nat \ {0} /\ b \in Nat \ {0}  BY <1>2, <1>4
  <2> HIDE DEF a, b
  <2>2. a \in Int /\ b \in Int  BY <2>1
  <2>4. Max({a, b}) = IF a <= b THEN b ELSE a  BY ONLY <2>2, OfTwo, Zenon
  <2>3. Max({a, b}) \in Nat \ {0}  BY <2>1, <2>4
  <2> QED  BY <2>3 DEF a, b
<1> QED  BY <1>2, <1>5 DEF Similarity, IsFraction

\* MostSimilar lists places of keys that share a word with f.
LEMMA SimilarPlaces ==
  ASSUME NEW keys, NEW n \in Nat, DOMAIN keys = 1..n,
         \A i \in 1..n : IsFiniteSet(keys[i]),
         NEW f, IsFiniteSet(f), NEW k \in Nat
  PROVE  MostSimilar(keys, f, k) \in Seq({i \in 1..n : Related(keys[i], f)})
<1> DEFINE related == {i \in DOMAIN keys : Related(keys[i], f)}
           v == [i \in related |-> Similarity(keys[i], f)]
           Q == {p \in related \X related : p[1] < p[2]}
           closer == {p \in related \X related :
                        \/ Exceeds(Similarity(keys[p[1]], f), Similarity(keys[p[2]], f))
                        \/ /\ ~Exceeds(Similarity(keys[p[2]], f), Similarity(keys[p[1]], f))
                           /\ p[1] < p[2]}
<1>1. related \subseteq 1..n /\ IsFiniteSet(related)
  <2>1. related \subseteq 1..n  OBVIOUS
  <2>2. IsFiniteSet(1..n)  BY FS_Interval
  <2> HIDE DEF related
  <2> QED  BY <2>1, <2>2, FS_Subset
<1>2. \A i \in related : IsFraction(v[i])
  BY SimilarityIsAFraction
<1>3. \A i, j \in related : <<i, j>> \in Q <=> i < j  OBVIOUS
<1>4. \A i, j \in related : <<i, j>> \in closer <=>
        Exceeds(v[i], v[j]) \/ (~Exceeds(v[j], v[i]) /\ <<i, j>> \in Q)
  BY <1>3
<1>5. IsTotalOrder(related, closer)
  <2>1. related \subseteq Int  BY <1>1
  <2> HIDE DEF related, v, Q, closer
  <2>2. IsTotalOrder(related, Q)  BY <1>3, <2>1, LesserFirst
  <2> QED  BY <1>2, <1>4, <2>2, LargerFirst
<1>6. MostSimilar(keys, f, k) = SubSeq(Ranked(related, closer), 1, Min({k, Cardinality(related)}))
  BY DEF MostSimilar
<1> HIDE DEF related, closer
<1>7. Ranked(related, closer) \in Seq(related) /\ Len(Ranked(related, closer)) = Cardinality(related)
  BY <1>1, <1>5, RankedList
<1>8. Cardinality(related) \in Nat  BY <1>1, FS_CardinalityType
<1> DEFINE m == Min({k, Cardinality(related)})
           s == Ranked(related, closer)
<1>9. m \in 0..Cardinality(related)
  BY <1>8, OfTwo
<1> HIDE DEF m, s
<1>10. \A i \in 1..m : s[i] \in related
  <2>1. s \in Seq(related) /\ Len(s) = Cardinality(related)  BY <1>7 DEF s
  <2>2. \A i \in 1..Len(s) : s[i] \in related  BY <2>1, ElementOfSeq
  <2>3. \A i \in 1..m : i \in 1..Len(s)  BY <1>8, <1>9, <2>1
  <2> QED  BY <2>2, <2>3
<1>11. SubSeq(s, 1, m) \in Seq(related)
  <2>1. m \in Int  BY <1>8, <1>9
  <2> QED  BY <1>10, <2>1, SubSeqProperties
<1>12. related = {i \in 1..n : Related(keys[i], f)}  BY DEF related
<1> QED  BY <1>6, <1>11, <1>12 DEF m, s

\* What is picked for being in a set is in it.
LEMMA MembersPicked ==
  ASSUME NEW T, NEW s \in Seq(T), NEW L
  PROVE  AtPlaces(s, {i \in DOMAIN s : s[i] \in L}) \in Seq(L)
<1> DEFINE K == {i \in DOMAIN s : s[i] \in L}
           t == AtPlaces(s, K)
           p == Ascending(K)
<1>1. K \subseteq 1..Len(s) /\ \A k \in K : s[k] \in L  BY LenProperties
<1> HIDE DEF K
<1>2. t \in Seq(T) /\ \A n \in 1..Len(t) : p[n] \in K /\ t[n] = s[p[n]]
  <2>1. t \in Seq(T)  BY <1>1, PickedList
  <2>2. \A n \in 1..Len(t) : p[n] \in K /\ t[n] = s[p[n]]
    <3>1. ASSUME NEW n \in 1..Len(t) PROVE p[n] \in K  BY <1>1, PickedList
    <3>2. Len(t) = Cardinality(K)  BY <1>1, PickedList
    <3> QED  BY <3>1, <3>2 DEF AtPlaces
  <2> QED  BY <2>1, <2>2
<1> HIDE DEF t, p
<1>3. Len(t) \in Nat /\ t \in [1..Len(t) -> T]  BY <1>2, LenProperties
<1>4. \A n \in 1..Len(t) : t[n] \in L  BY <1>1, <1>2
<1>5. t \in [1..Len(t) -> L]  BY <1>3, <1>4
<1>6. t \in Seq(L)  BY <1>3, <1>5, SeqDef
<1> QED  BY <1>6 DEF t, K

\* FirstDistinct lists members of the sequence.
LEMMA FirstDistinctIsOf ==
  ASSUME NEW S, NEW s \in Seq(S), NEW k \in Nat
  PROVE  FirstDistinct(s, k) \in Seq(S)
<1> DEFINE firsts == {i \in DOMAIN s : \A j \in 1..(i - 1) : s[j] # s[i]}
           m == Min({k, Cardinality(firsts)})
<1>1. firsts \subseteq 1..Len(s)  BY LenProperties
<1>2. FirstDistinct(s, k) = SubSeq(AtPlaces(s, firsts), 1, m)  BY DEF FirstDistinct
<1> HIDE DEF firsts, m
<1>3. /\ AtPlaces(s, firsts) \in Seq(S) /\ Len(AtPlaces(s, firsts)) = Cardinality(firsts)
      /\ Cardinality(firsts) \in Nat
  BY <1>1, PickedList
<1>4. m \in 0..Cardinality(firsts)  BY <1>3, OfTwo DEF m
<1>5. \A i \in 1..m : AtPlaces(s, firsts)[i] \in S
  BY <1>3, <1>4, ElementOfSeq
<1> QED  BY <1>2, <1>4, <1>5, SubSeqProperties
=============================================================================
