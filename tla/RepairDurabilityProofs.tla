----------------------- MODULE RepairDurabilityProofs -----------------------
(***************************************************************************)
(* Proofs about RepairDurability for any families, choices, replays, cap   *)
(* and assertion mode.  The store holds a rule only once the family's      *)
(* first repair is done, and the snapshot that ends the family is empty:   *)
(* the first keeps the store to one rule, the second empties it.  The cap  *)
(* holds because the ranking scores order any active entries totally, so   *)
(* that the lowest of one too many is retired.                             *)
(***************************************************************************)
EXTENDS RepairDurability, RankingTheorems

StoreInvariant ==
  /\ snapshot = <<>>
  /\ rules = <<>> \/ \E r : rules = <<r>>
  /\ phase \in {"family", "done"} => rules = <<>>
  /\ phase \in {"search", "write"} /\ ~first_repair_done => rules = <<>>

LEMMA StartsEmpty == Init => StoreInvariant
BY DEF Init, StoreInvariant

\* The variants that follow keep what the step leaves in the store.
LEMMA NextVariantPhase == NextVariant => phase' \in {"search", "restore"}
BY DEF NextVariant

LEMMA StepKeepsStore == StoreInvariant /\ [Next]_vars => StoreInvariant'
<1> SUFFICES ASSUME StoreInvariant, [Next]_vars PROVE StoreInvariant'
  OBVIOUS
<1>1. CASE StartFamily  BY <1>1 DEF StartFamily, StoreInvariant
<1>2. CASE Exclude
  BY <1>2, NextVariantPhase DEF Exclude, StoreInvariant
<1>3. CASE Search  BY <1>3 DEF Search, StoreInvariant
<1>4. CASE Reuse
  BY <1>4, NextVariantPhase DEF Reuse, StoreInvariant
<1>5. CASE WriteBack
  <2>1. /\ rules = <<>> /\ snapshot' = <<>>
        /\ phase' \in {"search", "restore"}
    BY <1>5, NextVariantPhase DEF WriteBack, Seeks, StoreInvariant
  <2>2. CASE read = NoChoice
    BY <1>5, <2>1, <2>2 DEF WriteBack, StoreInvariant
  <2>3. CASE read # NoChoice
    <3>1. PICK gains \in ReplayGains : \E passes \in PassesReplay(gains) :
            LET written == /\ Admitted(Fingerprint, read, gains, passes)
                           /\ CanWrite(Fingerprint, read)
            IN  /\ rules' = IF written THEN Append(rules, Rule(Fingerprint, read))
                            ELSE rules
                /\ first_repair_done' = written
      BY <1>5, <2>3 DEF WriteBack
    <3>2. PICK written :
            /\ rules' = IF written THEN Append(rules, Rule(Fingerprint, read))
                        ELSE rules
            /\ first_repair_done' = written
      BY <3>1
    <3>3. CASE written
      <4>1. rules' = <<Rule(Fingerprint, read)>>  BY <3>2, <3>3, <2>1
      <4> QED  BY <4>1, <2>1, <3>2, <3>3 DEF StoreInvariant
    <3>4. CASE ~written  BY <3>2, <3>4, <2>1 DEF StoreInvariant
    <3> QED  BY <3>3, <3>4
  <2> QED  BY <2>2, <2>3
<1>6. CASE Restore  BY <1>6 DEF Restore, Restored, StoreInvariant
<1>7. CASE Ended  BY <1>7 DEF Ended, vars, StoreInvariant
<1>8. CASE UNCHANGED vars  BY <1>8 DEF vars, StoreInvariant
<1> QED
  BY <1>1, <1>2, <1>3, <1>4, <1>5, <1>6, <1>7, <1>8 DEF Next

\* The strengthened invariant of the durable store.
THEOREM StoreStaysSimple == Spec => []StoreInvariant
BY StartsEmpty, StepKeepsStore, PTL DEF Spec

\* Whatever the searches find and the gate decides, no family of the experiment
\* meets a rule of another.
THEOREM EveryFamilyStartsClean == Spec => []FamiliesStartClean
<1>1. StoreInvariant => FamiliesStartClean
  BY DEF StoreInvariant, FamiliesStartClean
<1> QED  BY <1>1, StoreStaysSimple, PTL

\* The store never holds two rules, whatever the number of variants.
THEOREM OneRuleAtMost == Spec => []AtMostOneRule
<1>1. StoreInvariant => AtMostOneRule
  <2>1. CASE rules = <<>>  BY <2>1 DEF AtMostOneRule
  <2>2. ASSUME NEW r, rules = <<r>> PROVE AtMostOneRule
    <3>1. Len(<<r>>) = 1  OBVIOUS
    <3> QED  BY <3>1, <2>2 DEF AtMostOneRule
  <2> QED  BY <2>1, <2>2 DEF StoreInvariant
<1> QED  BY <1>1, StoreStaysSimple, PTL
-----------------------------------------------------------------------------
(* The rule and the ledger.                                                *)

\* An entry has every field of NewEntry.
IsEntry(e) ==
  e = [fingerprint |-> e.fingerprint, operator |-> e.operator,
       observations |-> e.observations, gain_sum |-> e.gain_sum,
       applied |-> e.applied, succeeded |-> e.succeeded,
       consecutive_failures |-> e.consecutive_failures,
       last_success_generation |-> e.last_success_generation,
       admitted_generation |-> e.admitted_generation,
       low_evidence |-> e.low_evidence, retired |-> e.retired]

IsLedger(l) ==
  /\ l \in Seq(ToSet(l))
  /\ \A i \in DOMAIN l : IsEntry(l[i])

GovernedInvariant == StoreInvariant /\ IsLedger(ledger) /\ RuleIsGoverned

\* A ledger rewritten entry by entry is a ledger.
LEMMA RewrittenLedger ==
  ASSUME NEW l, IsLedger(l), NEW m, DOMAIN m = DOMAIN l,
         m = [i \in DOMAIN m |-> m[i]], \A i \in DOMAIN m : IsEntry(m[i])
  PROVE  IsLedger(m)
<1>1. Len(l) \in Nat /\ DOMAIN l = 1..Len(l)  BY LenProperties DEF IsLedger
<1>2. m \in [1..Len(l) -> ToSet(m)]  BY <1>1 DEF ToSet
<1>3. m \in Seq(ToSet(m))  BY <1>1, <1>2, SeqDef
<1> QED  BY <1>3 DEF IsLedger

LEMMA AppendedLedger ==
  ASSUME NEW l, IsLedger(l), NEW e, IsEntry(e)
  PROVE  /\ IsLedger(Append(l, e))
         /\ DOMAIN Append(l, e) = DOMAIN l \cup {Len(l) + 1}
         /\ \A i \in DOMAIN l : Append(l, e)[i] = l[i]
         /\ Append(l, e)[Len(l) + 1] = e
<1> DEFINE S == ToSet(l) \cup {e}
           m == Append(l, e)
<1>1. Len(l) \in Nat /\ DOMAIN l = 1..Len(l)  BY LenProperties DEF IsLedger
<1>2. l \in Seq(S) /\ e \in S  BY SeqMonotonic DEF IsLedger
<1> HIDE DEF S
<1>3. /\ m \in Seq(S) /\ Len(m) = Len(l) + 1
      /\ \A i \in 1..Len(l) : m[i] = l[i]
      /\ m[Len(l) + 1] = e
  BY <1>2, AppendProperties
<1>4. DOMAIN m = 1..(Len(l) + 1) /\ m \in [1..(Len(l) + 1) -> S]
  BY <1>3, LenProperties
<1> HIDE DEF m
<1>5. m \in [1..(Len(l) + 1) -> ToSet(m)]  BY <1>4 DEF ToSet
<1>6. m \in Seq(ToSet(m))  BY <1>1, <1>5, SeqDef
<1>7. DOMAIN m = DOMAIN l \cup {Len(l) + 1}  BY <1>1, <1>4
<1>8. \A i \in DOMAIN m : IsEntry(m[i])  BY <1>1, <1>3, <1>7 DEF IsLedger
<1> QED  BY <1>1, <1>3, <1>6, <1>7, <1>8 DEF IsLedger, m

\* The cap changes who is retired and nothing else.
LEMMA CapRetiresOnly ==
  ASSUME NEW l, IsLedger(l), NEW fp
  PROVE  /\ IsLedger(EnforceActiveCap(l, fp))
         /\ DOMAIN EnforceActiveCap(l, fp) = DOMAIN l
         /\ \A i \in DOMAIN l :
              /\ EnforceActiveCap(l, fp)[i].fingerprint = l[i].fingerprint
              /\ EnforceActiveCap(l, fp)[i].operator = l[i].operator
              /\ EnforceActiveCap(l, fp)[i].admitted_generation = l[i].admitted_generation
<1> DEFINE m == EnforceActiveCap(l, fp)
           Retired(i) == l[i].retired \/ i \in Overflow(l, fp)
<1>1. /\ m = [i \in DOMAIN l |-> [l[i] EXCEPT !.retired = Retired(i)]]
  BY DEF EnforceActiveCap
<1> HIDE DEF m, Retired
<1>2. ASSUME NEW i \in DOMAIN l
      PROVE  /\ IsEntry(m[i]) /\ m[i].fingerprint = l[i].fingerprint
             /\ m[i].operator = l[i].operator
             /\ m[i].admitted_generation = l[i].admitted_generation
  <2>1. IsEntry(l[i]) /\ m[i] = [l[i] EXCEPT !.retired = Retired(i)]
    BY <1>1 DEF IsLedger
  <2>2. m[i] = [fingerprint |-> l[i].fingerprint, operator |-> l[i].operator,
       observations |-> l[i].observations, gain_sum |-> l[i].gain_sum,
       applied |-> l[i].applied, succeeded |-> l[i].succeeded,
       consecutive_failures |-> l[i].consecutive_failures,
       last_success_generation |-> l[i].last_success_generation,
       admitted_generation |-> l[i].admitted_generation,
       low_evidence |-> l[i].low_evidence, retired |-> Retired(i)]
    BY <2>1 DEF IsEntry
  <2> QED  BY <2>2 DEF IsEntry
<1>3. DOMAIN m = DOMAIN l /\ m = [i \in DOMAIN m |-> m[i]]  BY <1>1
<1>4. IsLedger(m)  BY <1>2, <1>3, RewrittenLedger
<1> QED  BY <1>2, <1>3, <1>4 DEF m

LEMMA DeduplicateKeepsLedger ==
  ASSUME NEW l, IsLedger(l), NEW fp, NEW op, NEW gains
  PROVE  IsLedger(Deduplicate(l, fp, op, gains))
<1> DEFINE m == Deduplicate(l, fp, op, gains)
           n(i) == l[i].observations + Len(gains)
           g(i) == l[i].gain_sum + Total(gains)
           w(i) == l[i].low_evidence /\ LowEvidence(gains)
<1>1. /\ DOMAIN m = DOMAIN l /\ m = [i \in DOMAIN m |-> m[i]]
      /\ \A i \in DOMAIN l :
           m[i] = IF i \in Entries(l, fp, op)
                  THEN [l[i] EXCEPT !.observations = n(i), !.gain_sum = g(i),
                                    !.low_evidence = w(i)]
                  ELSE l[i]
  BY DEF Deduplicate
<1> HIDE DEF m, n, g, w
<1>2. ASSUME NEW i \in DOMAIN l PROVE IsEntry(m[i])
  <2>1. IsEntry(l[i])  BY DEF IsLedger
  <2>2. CASE i \in Entries(l, fp, op)
    <3>1. m[i] = [l[i] EXCEPT !.observations = n(i), !.gain_sum = g(i),
                              !.low_evidence = w(i)]
      BY <1>1, <2>2
    <3>2. m[i] = [fingerprint |-> l[i].fingerprint, operator |-> l[i].operator,
       observations |-> n(i), gain_sum |-> g(i),
       applied |-> l[i].applied, succeeded |-> l[i].succeeded,
       consecutive_failures |-> l[i].consecutive_failures,
       last_success_generation |-> l[i].last_success_generation,
       admitted_generation |-> l[i].admitted_generation,
       low_evidence |-> w(i), retired |-> l[i].retired]
      BY <2>1, <3>1 DEF IsEntry
    <3> QED  BY <3>2 DEF IsEntry
  <2>3. CASE i \notin Entries(l, fp, op)  BY <1>1, <2>1, <2>3
  <2> QED  BY <2>2, <2>3
<1>3. IsLedger(m)  BY <1>1, <1>2, RewrittenLedger
<1> QED  BY <1>3 DEF m

LEMMA NewEntryIsEntry ==
  ASSUME NEW fp, NEW op, NEW gains, NEW generation
  PROVE  IsEntry(NewEntry(fp, op, gains, generation))
BY DEF IsEntry, NewEntry

LEMMA AdmitKeepsLedger ==
  ASSUME NEW l, IsLedger(l), NEW fp, NEW op, NEW gains, NEW generation, NEW passes
  PROVE  IsLedger(Admit(l, fp, op, gains, generation, passes))
<1>1. IsLedger(EnforceActiveCap(Append(l, NewEntry(fp, op, gains, generation)), fp))
  BY NewEntryIsEntry, AppendedLedger, CapRetiresOnly
<1> QED  BY <1>1, DeduplicateKeepsLedger DEF Admit

\* What the decision admits is an active entry of this generation.
LEMMA AdmittedIsNew ==
  ASSUME NEW l, IsLedger(l), NEW fp, NEW op, NEW gains, NEW generation, NEW passes,
         IsAdmitted(l, fp, op, gains, generation, passes)
  PROVE  LET m == Admit(l, fp, op, gains, generation, passes)
         IN  \E i \in Entries(m, fp, op) :
               ~m[i].retired /\ m[i].admitted_generation = generation
<1> DEFINE e == NewEntry(fp, op, gains, generation)
           m == Admit(l, fp, op, gains, generation, passes)
           a == Append(l, e)
<1>1. Entries(l, fp, op) = {}  BY DEF IsAdmitted, Known
<1>2. PICK i \in Entries(m, fp, op) : ~m[i].retired  BY DEF IsAdmitted
<1>3. m = EnforceActiveCap(a, fp)
  BY <1>1, <1>2 DEF Admit, Known
<1>4. e.admitted_generation = generation /\ IsEntry(e)
  BY NewEntryIsEntry DEF NewEntry
<1> HIDE DEF m, e
<1>5. /\ IsLedger(a) /\ DOMAIN a = DOMAIN l \cup {Len(l) + 1}
      /\ \A j \in DOMAIN l : a[j] = l[j]
      /\ a[Len(l) + 1] = e
  BY <1>4, AppendedLedger
<1> HIDE DEF a
<1>6. /\ DOMAIN m = DOMAIN a
      /\ \A j \in DOMAIN a :
           /\ m[j].fingerprint = a[j].fingerprint /\ m[j].operator = a[j].operator
           /\ m[j].admitted_generation = a[j].admitted_generation
  BY <1>3, <1>5, CapRetiresOnly
<1>7. i \in DOMAIN a /\ m[i].fingerprint = fp /\ m[i].operator = op
  BY <1>2, <1>6 DEF Entries
<1>8. i \notin DOMAIN l  BY <1>1, <1>5, <1>6, <1>7 DEF Entries
<1>9. m[i].admitted_generation = generation  BY <1>4, <1>5, <1>6, <1>7, <1>8
<1> QED  BY <1>2, <1>9 DEF m

LEMMA StartsGoverned == Init => GovernedInvariant
<1> SUFFICES ASSUME Init PROVE GovernedInvariant
  OBVIOUS
<1>1. ledger = <<>> /\ rules = <<>>  BY DEF Init
<1>2. <<>> \in Seq(ToSet(<<>>))  BY EmptySeq
<1> QED  BY <1>1, <1>2, StartsEmpty DEF GovernedInvariant, IsLedger, RuleIsGoverned

\* Steps that leave the ledger alone and add no rule.
LEMMA GovernedStays ==
  ASSUME IsLedger(ledger), RuleIsGoverned, ledger' = ledger,
         rules' = rules \/ rules' = <<>>
  PROVE  IsLedger(ledger)' /\ RuleIsGoverned'
<1>1. IsLedger(ledger')  OBVIOUS
<1>2. RuleIsGoverned'  BY DEF RuleIsGoverned
<1> QED  BY <1>1, <1>2

LEMMA StepKeepsGoverned == GovernedInvariant /\ [Next]_vars => GovernedInvariant'
<1> SUFFICES ASSUME GovernedInvariant, [Next]_vars PROVE GovernedInvariant'
  OBVIOUS
<1>0. StoreInvariant /\ IsLedger(ledger) /\ RuleIsGoverned /\ StoreInvariant'
  BY StepKeepsStore DEF GovernedInvariant
<1> SUFFICES IsLedger(ledger)' /\ RuleIsGoverned'  BY <1>0 DEF GovernedInvariant
<1>1. CASE StartFamily  BY <1>0, <1>1, GovernedStays DEF StartFamily
<1>2. CASE Exclude  BY <1>0, <1>2, GovernedStays DEF Exclude
<1>3. CASE Search  BY <1>0, <1>3, GovernedStays DEF Search
<1>4. CASE Reuse  BY <1>0, <1>4, GovernedStays DEF Reuse
<1>5. CASE WriteBack
  <2>1. rules = <<>>  BY <1>0, <1>5 DEF WriteBack, Seeks, StoreInvariant
  <2>2. CASE read = NoChoice  BY <1>0, <1>5, <2>2, GovernedStays DEF WriteBack
  <2>3. CASE read # NoChoice
    <3>1. PICK gains \in ReplayGains : \E passes \in PassesReplay(gains) :
            /\ ledger' = Admit(ledger, Fingerprint, read, gains, family_index, passes)
            /\ rules' = IF /\ Admitted(Fingerprint, read, gains, passes)
                           /\ CanWrite(Fingerprint, read)
                        THEN Append(rules, Rule(Fingerprint, read)) ELSE rules
      BY <1>5, <2>3 DEF WriteBack
    <3>2. PICK passes \in PassesReplay(gains) :
            /\ ledger' = Admit(ledger, Fingerprint, read, gains, family_index, passes)
            /\ rules' = IF /\ Admitted(Fingerprint, read, gains, passes)
                           /\ CanWrite(Fingerprint, read)
                        THEN Append(rules, Rule(Fingerprint, read)) ELSE rules
      BY <3>1
    <3>3. IsLedger(ledger')  BY <1>0, <3>2, AdmitKeepsLedger
    <3>4. CASE ~(Admitted(Fingerprint, read, gains, passes) /\ CanWrite(Fingerprint, read))
      <4>1. rules' = <<>>  BY <2>1, <3>2, <3>4
      <4> QED  BY <3>3, <4>1 DEF RuleIsGoverned
    <3>5. CASE Admitted(Fingerprint, read, gains, passes) /\ CanWrite(Fingerprint, read)
      <4>1. rules' = <<Rule(Fingerprint, read)>>  BY <2>1, <3>2, <3>5
      <4>2. \E i \in Entries(ledger', Fingerprint, read) :
              ~ledger'[i].retired /\ ledger'[i].admitted_generation = family_index
        BY <1>0, <3>2, <3>5, AdmittedIsNew DEF Admitted
      <4>3. DOMAIN rules' = {1} /\ rules'[1] = Rule(Fingerprint, read)
        BY <4>1
      <4>4. /\ rules'[1].fingerprint = Fingerprint /\ rules'[1].operator = read
            /\ rules'[1].family = family_index
        BY <4>3 DEF Rule
      <4>5. RuleIsGoverned'  BY <4>2, <4>3, <4>4 DEF RuleIsGoverned
      <4> QED  BY <3>3, <4>5
    <3> QED  BY <3>4, <3>5
  <2> QED  BY <2>2, <2>3
<1>6. CASE Restore
  <2>1. rules' = <<>>  BY <1>0, <1>6 DEF Restore, Restored, StoreInvariant
  <2> QED  BY <1>0, <1>6, <2>1, GovernedStays DEF Restore
<1>7. CASE Ended  BY <1>0, <1>7, GovernedStays DEF Ended, vars
<1>8. CASE UNCHANGED vars  BY <1>0, <1>8, GovernedStays DEF vars
<1> QED
  BY <1>1, <1>2, <1>3, <1>4, <1>5, <1>6, <1>7, <1>8 DEF Next

\* Whatever the replays return and however the cap ranks, a durable rule has an
\* active entry in the ledger that its own family admitted.
THEOREM RuleAlwaysGoverned == Spec => []RuleIsGoverned
<1>1. GovernedInvariant => RuleIsGoverned  BY DEF GovernedInvariant
<1> QED  BY <1>1, StartsGoverned, StepKeepsGoverned, PTL DEF Spec

\* The three together, for any families, gains and cap.
THEOREM StoreAlwaysGoverned == Spec => []StoreIsGoverned
<1>1. FamiliesStartClean /\ AtMostOneRule /\ RuleIsGoverned => StoreIsGoverned
  BY DEF StoreIsGoverned
<1> QED
  BY <1>1, EveryFamilyStartsClean, OneRuleAtMost, RuleAlwaysGoverned, PTL
-----------------------------------------------------------------------------
(* The cap.                                                                *)

\* The gains of a replay have a total.
LEMMA TotalOfGains ==
  ASSUME NEW gains \in Seq(Int)
  PROVE  Total(gains) \in Int /\ (Len(gains) = 0 => Total(gains) = 0)
<1> DEFINE N == Len(gains)
           Def(f) == f = [n \in 0..N |-> IF n = 0 THEN 0 ELSE f[n - 1] + gains[n]]
           Upto(n, f) == f = [m \in 0..n |-> IF m = 0 THEN 0 ELSE f[m - 1] + gains[m]]
           T == {n \in Nat : n <= N => \E f : Upto(n, f) /\ \A m \in 0..n : f[m] \in Int}
<1>1. N \in Nat /\ \A n \in 1..N : gains[n] \in Int
  BY LenProperties, ElementOfSeq
<1>2. 0 \in T
  <2>1. Upto(0, [m \in 0..0 |-> 0])  OBVIOUS
  <2>2. \A m \in 0..0 : [k \in 0..0 |-> 0][m] \in Int  OBVIOUS
  <2> QED  BY <2>1, <2>2
<1>3. ASSUME NEW n \in Nat, n \in T PROVE n + 1 \in T
  <2> SUFFICES ASSUME n + 1 <= N
               PROVE  \E f : Upto(n + 1, f) /\ \A m \in 0..(n + 1) : f[m] \in Int
    OBVIOUS
  <2>1. PICK f : Upto(n, f) /\ \A m \in 0..n : f[m] \in Int  BY <1>1, <1>3
  <2> DEFINE g == [m \in 0..(n + 1) |-> IF m = n + 1 THEN f[n] + gains[n + 1] ELSE f[m]]
  <2>2. \A m \in 0..n : f[m] = IF m = 0 THEN 0 ELSE f[m - 1] + gains[m]  BY <2>1
  <2>3. ASSUME NEW m \in 0..(n + 1)
        PROVE  g[m] = IF m = 0 THEN 0 ELSE g[m - 1] + gains[m]
    <3>1. CASE m = n + 1
      <4>1. g[m] = f[n] + gains[m] /\ m # 0 /\ g[m - 1] = f[n]  BY <3>1
      <4> QED  BY <4>1
    <3>2. CASE m # n + 1 /\ m # 0
      <4>1. m \in 0..n /\ m - 1 \in 0..n /\ m - 1 # n + 1  BY <3>2
      <4>2. g[m] = f[m] /\ g[m - 1] = f[m - 1]  BY <3>2, <4>1
      <4> QED  BY <2>2, <3>2, <4>1, <4>2
    <3>3. CASE m = 0
      <4>1. g[0] = f[0] /\ f[0] = 0  BY <2>2
      <4> QED  BY <3>3, <4>1
    <3> QED  BY <3>1, <3>2, <3>3
  <2>4. \A m \in 0..(n + 1) : g[m] \in Int  BY <1>1, <2>1
  <2>5. g = [m \in 0..(n + 1) |-> g[m]]  OBVIOUS
  <2> HIDE DEF g
  <2>6. Upto(n + 1, g)  BY <2>3, <2>5
  <2> QED  BY <2>4, <2>6
<1>4. N \in T  BY <1>1, <1>2, <1>3, NaturalInduction
<1>5. PICK f : Upto(N, f) /\ \A m \in 0..N : f[m] \in Int  BY <1>1, <1>4
<1> DEFINE s == CHOOSE h : Def(h)
<1>6. Def(s)  BY <1>5
<1>7. Total(gains) = s[N]  BY DEF Total
<1> HIDE DEF s
<1>8. \A n \in 0..N : s[n] = IF n = 0 THEN 0 ELSE s[n - 1] + gains[n]  BY <1>6
<1> DEFINE U == {n \in Nat : n <= N => s[n] \in Int}
<1>9. 0 \in U /\ s[0] = 0  BY <1>1, <1>8
<1>10. ASSUME NEW n \in Nat, n \in U PROVE n + 1 \in U
  BY <1>1, <1>8, <1>10
<1>11. N \in U  BY <1>1, <1>9, <1>10, NaturalInduction
<1>12. s[N] \in Int  BY <1>1, <1>11
<1> QED  BY <1>7, <1>9, <1>12

\* A comparison that may leave some members equal.
IsWeakOrder(S, W) ==
  /\ \A x, y \in S : <<x, y>> \in W => <<y, x>> \notin W
  /\ \A x, y, z \in S : <<x, z>> \in W => <<x, y>> \in W \/ <<y, z>> \in W

\* A total order that decides between equals makes a comparison total.
LEMMA Refined ==
  ASSUME NEW S, NEW W, IsWeakOrder(S, W), NEW R, IsTotalOrder(S, R), NEW T,
         \A x, y \in S : <<x, y>> \in T <=>
           <<x, y>> \in W \/ (<<y, x>> \notin W /\ <<x, y>> \in R)
  PROVE  IsTotalOrder(S, T)
<1>1. \A x \in S : <<x, x>> \notin T
  BY DEF IsWeakOrder, IsTotalOrder, IsStrictOrder
<1>2. ASSUME NEW x \in S, NEW y \in S, NEW z \in S, <<x, y>> \in T, <<y, z>> \in T
      PROVE  <<x, z>> \in T
  BY <1>2 DEF IsWeakOrder, IsTotalOrder, IsStrictOrder
<1>3. \A x, y \in S : x # y => <<x, y>> \in T \/ <<y, x>> \in T
  BY DEF IsWeakOrder, IsTotalOrder
<1> QED  BY <1>1, <1>2, <1>3 DEF IsTotalOrder, IsStrictOrder

LEMMA FractionsCompare ==
  ASSUME NEW S, NEW num \in [S -> Int], NEW den \in [S -> Nat \ {0}], NEW W,
         \A x, y \in S : <<x, y>> \in W <=> num[x] * den[y] < num[y] * den[x]
  PROVE  IsWeakOrder(S, W)
<1>0. \A x, y \in S : num[x] * den[y] \in Int  OBVIOUS
<1>1. \A x, y \in S : <<x, y>> \in W => <<y, x>> \notin W
  BY <1>0
<1>2. ASSUME NEW x \in S, NEW y \in S, NEW z \in S, <<x, y>> \notin W, <<y, z>> \notin W
      PROVE  <<x, z>> \notin W
  <2>1. num[y] * den[x] <= num[x] * den[y] /\ num[z] * den[y] <= num[y] * den[z]
    BY <1>0, <1>2
  <2>2. num[z] * den[x] <= num[x] * den[z]
    BY <2>1, FractionsInOrder
  <2> QED  BY <1>0, <2>2
<1> QED  BY <1>1, <1>2 DEF IsWeakOrder

LEMMA KeysCompare ==
  ASSUME NEW S, NEW key \in [S -> Int], NEW W,
         \A x, y \in S : <<x, y>> \in W <=> key[x] < key[y]
  PROVE  IsWeakOrder(S, W)
<1>1. \A x \in S : key[x] \in Int  OBVIOUS
<1> QED  BY <1>1 DEF IsWeakOrder

LEMMA NumbersCompare ==
  ASSUME NEW S, S \subseteq Int, NEW R, \A x, y \in S : <<x, y>> \in R <=> x < y
  PROVE  IsTotalOrder(S, R)
BY DEF IsTotalOrder, IsStrictOrder

\* What the counts of an entry may be.
CountedEntry(e) ==
  /\ e.observations \in Nat \ {0} /\ e.gain_sum \in Int
  /\ e.applied \in Nat /\ e.succeeded \in Nat
  /\ e.last_success_generation \in Int /\ e.admitted_generation \in Int

CountedLedger(l) == IsLedger(l) /\ \A i \in DOMAIN l : CountedEntry(l[i])

\* The first component that differs decides.
LEMMA Lexicographic ==
  ASSUME NEW l, NEW i, NEW j,
         NEW a \in Int, NEW b \in Int, NEW c \in Int, NEW d \in Int, NEW e \in Int,
         ScoreDifference(l[i], l[j]) = <<a, b, c, d, e>>
  PROVE  RanksBelow(l, i, j) <=>
           a < 0 \/ (a = 0 /\ (b < 0 \/ (b = 0 /\ (c < 0 \/ (c = 0 /\
             (d < 0 \/ (d = 0 /\ (e < 0 \/ (e = 0 /\ i < j)))))))))
<1> DEFINE t == <<a, b, c, d, e>>
           differs == {k \in DOMAIN t : t[k] # 0}
<1>1. /\ DOMAIN t = 1..5
      /\ t[1] = a /\ t[2] = b /\ t[3] = c /\ t[4] = d /\ t[5] = e
  OBVIOUS
<1>2. RanksBelow(l, i, j) <=> IF differs = {} THEN i < j ELSE t[Min(differs)] < 0
  BY DEF RanksBelow
<1> HIDE DEF t
<1>3. \A k : k \in differs <=> k \in 1..5 /\ t[k] # 0  BY <1>1
<1>4. \A k \in 1..5 : k = 1 \/ k = 2 \/ k = 3 \/ k = 4 \/ k = 5  OBVIOUS
<1>5. differs \subseteq Int  BY <1>3
<1>6. \A n \in Int : IsFiniteSet(1..n)  BY FS_Interval
<1>7. IsFiniteSet(1..5)
  <2>1. 5 \in Int  OBVIOUS
  <2> QED  BY <1>6, <2>1, Zenon
<1>8. differs \subseteq 1..5  BY <1>3
<1> HIDE DEF differs
<1>9. IsFiniteSet(differs)  BY <1>7, <1>8, FS_Subset
<1>10. CASE differs = {}
  BY <1>1, <1>2, <1>3, <1>10
<1>11. CASE differs # {}
  <2> DEFINE m == Min(differs)
  <2>1. m \in differs /\ \A k \in differs : m <= k
    BY <1>5, <1>9, <1>11, MinOfFinite
  <2>2. RanksBelow(l, i, j) <=> t[m] < 0  BY <1>2, <1>11
  <2> HIDE DEF m
  <2>3. m \in 1..5 /\ t[m] # 0 /\ \A k \in 1..5 : k < m => t[k] = 0
    BY <1>3, <2>1
  <2>4. CASE m = 1  BY <1>1, <2>2, <2>3, <2>4
  <2>5. CASE m = 2  BY <1>1, <2>2, <2>3, <2>5
  <2>6. CASE m = 3  BY <1>1, <2>2, <2>3, <2>6
  <2>7. CASE m = 4  BY <1>1, <2>2, <2>3, <2>7
  <2>8. CASE m = 5  BY <1>1, <2>2, <2>3, <2>8
  <2> QED  BY <1>4, <2>3, <2>4, <2>5, <2>6, <2>7, <2>8
<1> QED  BY <1>10, <1>11

\* Ranking scores, ties broken by age, are a total order.
LEMMA RankingIsTotal ==
  ASSUME NEW l, CountedLedger(l), NEW S, S \subseteq DOMAIN l, NEW T,
         \A i, j \in S : <<i, j>> \in T <=> RanksBelow(l, i, j)
  PROVE  IsTotalOrder(S, T)
<1> DEFINE num == [i \in S |-> l[i].succeeded + 1]
           den == [i \in S |-> l[i].applied + 2]
           on == [i \in S |-> IF Probation(l[i]) THEN 0 ELSE 1]
           sum == [i \in S |-> l[i].gain_sum]
           obs == [i \in S |-> l[i].observations]
           last == [i \in S |-> LastSuccess(l[i])]
           age == [i \in S |-> -l[i].admitted_generation]
           W1 == {p \in S \X S : num[p[1]] * den[p[2]] < num[p[2]] * den[p[1]]}
           W2 == {p \in S \X S : on[p[1]] < on[p[2]]}
           W3 == {p \in S \X S : sum[p[1]] * obs[p[2]] < sum[p[2]] * obs[p[1]]}
           W4 == {p \in S \X S : last[p[1]] < last[p[2]]}
           W5 == {p \in S \X S : age[p[1]] < age[p[2]]}
           R5 == {p \in S \X S : p[1] < p[2]}
           Refine(W, R) == {p \in S \X S : p \in W \/ (<<p[2], p[1]>> \notin W /\ p \in R)}
           R4 == Refine(W5, R5)
           R3 == Refine(W4, R4)
           R2 == Refine(W3, R3)
           R1 == Refine(W2, R2)
<1>1. S \subseteq Int
  <2>1. DOMAIN l = 1..Len(l)  BY LenProperties DEF CountedLedger, IsLedger
  <2> QED  BY <2>1
<1>2. ASSUME NEW i \in S
      PROVE  /\ l[i].succeeded \in Nat /\ l[i].applied \in Nat
             /\ l[i].gain_sum \in Int /\ l[i].observations \in Nat \ {0}
             /\ l[i].admitted_generation \in Int /\ LastSuccess(l[i]) \in Int
  BY DEF CountedLedger, CountedEntry, LastSuccess, NeverSucceeded
<1>3. /\ num \in [S -> Int] /\ den \in [S -> Nat \ {0}] /\ on \in [S -> Int]
      /\ sum \in [S -> Int] /\ obs \in [S -> Nat \ {0}]
      /\ last \in [S -> Int] /\ age \in [S -> Int]
  BY <1>2
<1>4. ASSUME NEW i \in S, NEW j \in S
      PROVE  ScoreDifference(l[i], l[j]) =
               <<num[i] * den[j] - num[j] * den[i], on[i] - on[j],
                 sum[i] * obs[j] - sum[j] * obs[i], last[i] - last[j], age[i] - age[j]>>
  <2>1. /\ Eta(l[i])[1] = num[i] /\ Eta(l[i])[2] = den[i]
        /\ Eta(l[j])[1] = num[j] /\ Eta(l[j])[2] = den[j]
    BY DEF Eta
  <2>2. (IF Probation(l[j]) THEN 1 ELSE 0) - (IF Probation(l[i]) THEN 1 ELSE 0) = on[i] - on[j]
    BY Z3
  <2>3. l[j].admitted_generation - l[i].admitted_generation = age[i] - age[j]
    BY <1>2
  <2> HIDE DEF num, den, on, age
  <2>4. /\ l[i].gain_sum * l[j].observations - l[j].gain_sum * l[i].observations
           = sum[i] * obs[j] - sum[j] * obs[i]
        /\ LastSuccess(l[i]) - LastSuccess(l[j]) = last[i] - last[j]
    OBVIOUS
  <2> HIDE DEF sum, obs, last
  <2> QED  BY <2>1, <2>2, <2>3, <2>4 DEF ScoreDifference
<1> HIDE DEF num, den, on, sum, obs, last, age
<1>5. /\ \A x, y \in S : <<x, y>> \in W1 <=> num[x] * den[y] < num[y] * den[x]
      /\ \A x, y \in S : <<x, y>> \in W2 <=> on[x] < on[y]
      /\ \A x, y \in S : <<x, y>> \in W3 <=> sum[x] * obs[y] < sum[y] * obs[x]
      /\ \A x, y \in S : <<x, y>> \in W4 <=> last[x] < last[y]
      /\ \A x, y \in S : <<x, y>> \in W5 <=> age[x] < age[y]
      /\ \A x, y \in S : <<x, y>> \in R5 <=> x < y
  OBVIOUS
<1>6. /\ \A x, y \in S : <<x, y>> \in R4 <=> <<x, y>> \in W5 \/ (<<y, x>> \notin W5 /\ <<x, y>> \in R5)
      /\ \A x, y \in S : <<x, y>> \in R3 <=> <<x, y>> \in W4 \/ (<<y, x>> \notin W4 /\ <<x, y>> \in R4)
      /\ \A x, y \in S : <<x, y>> \in R2 <=> <<x, y>> \in W3 \/ (<<y, x>> \notin W3 /\ <<x, y>> \in R3)
      /\ \A x, y \in S : <<x, y>> \in R1 <=> <<x, y>> \in W2 \/ (<<y, x>> \notin W2 /\ <<x, y>> \in R2)
  <2> HIDE DEF W1, W2, W3, W4, W5, R5
  <2> QED  OBVIOUS
<1> HIDE DEF W1, W2, W3, W4, W5, R5, R4, R3, R2, R1, Refine
<1>7. /\ IsWeakOrder(S, W1) /\ IsWeakOrder(S, W3)
  BY <1>3, <1>5, FractionsCompare
<1>8. IsWeakOrder(S, W2) /\ IsWeakOrder(S, W4) /\ IsWeakOrder(S, W5)
  BY <1>3, <1>5, KeysCompare
<1>9. IsTotalOrder(S, R5)  BY <1>1, <1>5, NumbersCompare
<1>10. IsTotalOrder(S, R4)  BY <1>6, <1>8, <1>9, Refined
<1>11. IsTotalOrder(S, R3)  BY <1>6, <1>8, <1>10, Refined
<1>12. IsTotalOrder(S, R2)  BY <1>6, <1>7, <1>11, Refined
<1>13. IsTotalOrder(S, R1)  BY <1>6, <1>8, <1>12, Refined
<1>14. ASSUME NEW x \in S, NEW y \in S
       PROVE  <<x, y>> \in T <=> <<x, y>> \in W1 \/ (<<y, x>> \notin W1 /\ <<x, y>> \in R1)
  <2> DEFINE a == num[x] * den[y] - num[y] * den[x]
             b == on[x] - on[y]
             c == sum[x] * obs[y] - sum[y] * obs[x]
             d == last[x] - last[y]
             e == age[x] - age[y]
  <2>1. /\ num[x] * den[y] \in Int /\ num[y] * den[x] \in Int
        /\ sum[x] * obs[y] \in Int /\ sum[y] * obs[x] \in Int
    BY <1>3
  <2>2. /\ a \in Int /\ c \in Int
        /\ num[x] * den[y] < num[y] * den[x] <=> a < 0
        /\ num[y] * den[x] < num[x] * den[y] <=> a > 0
        /\ sum[x] * obs[y] < sum[y] * obs[x] <=> c < 0
        /\ sum[y] * obs[x] < sum[x] * obs[y] <=> c > 0
    BY <2>1
  <2>3. /\ b \in Int /\ d \in Int /\ e \in Int
        /\ on[x] < on[y] <=> b < 0
        /\ on[y] < on[x] <=> b > 0
        /\ last[x] < last[y] <=> d < 0
        /\ last[y] < last[x] <=> d > 0
        /\ age[x] < age[y] <=> e < 0
        /\ age[y] < age[x] <=> e > 0
    BY <1>3
  <2>4. ScoreDifference(l[x], l[y]) = <<a, b, c, d, e>>  BY <1>4
  <2> HIDE DEF a, b, c, d, e
  <2>5. RanksBelow(l, x, y) <=>
           a < 0 \/ (a = 0 /\ (b < 0 \/ (b = 0 /\ (c < 0 \/ (c = 0 /\
             (d < 0 \/ (d = 0 /\ (e < 0 \/ (e = 0 /\ x < y)))))))))
    BY <2>2, <2>3, <2>4, Lexicographic
  <2>6. <<x, y>> \in R4 <=> e < 0 \/ (~(e > 0) /\ x < y)  BY <1>5, <1>6, <2>3
  <2>7. <<x, y>> \in R3 <=> d < 0 \/ (~(d > 0) /\ <<x, y>> \in R4)  BY <1>5, <1>6, <2>3
  <2>8. <<x, y>> \in R2 <=> c < 0 \/ (~(c > 0) /\ <<x, y>> \in R3)  BY <1>5, <1>6, <2>2
  <2>9. <<x, y>> \in R1 <=> b < 0 \/ (~(b > 0) /\ <<x, y>> \in R2)  BY <1>5, <1>6, <2>3
  <2>10. /\ <<x, y>> \in W1 <=> a < 0
         /\ <<y, x>> \in W1 <=> a > 0
    BY <1>5, <2>2
  <2>11. <<x, y>> \in T <=> RanksBelow(l, x, y)  OBVIOUS
  <2> QED  BY <2>2, <2>3, <2>5, <2>6, <2>7, <2>8, <2>9, <2>10, <2>11
<1> QED  BY <1>7, <1>13, <1>14, Refined
\* Retiring leaves the rest of an entry alone.
LEMMA CapKeepsCounts ==
  ASSUME NEW l, CountedLedger(l), NEW fp
  PROVE  /\ CountedLedger(EnforceActiveCap(l, fp))
         /\ \A g : Active(EnforceActiveCap(l, fp), g) \subseteq Active(l, g)
         /\ \A i \in Overflow(l, fp) : i \notin Active(EnforceActiveCap(l, fp), fp)
<1> DEFINE m == EnforceActiveCap(l, fp)
           Retired(i) == l[i].retired \/ i \in Overflow(l, fp)
<1>1. m = [i \in DOMAIN l |-> [l[i] EXCEPT !.retired = Retired(i)]]
  BY DEF EnforceActiveCap
<1>2. IsLedger(m) /\ DOMAIN m = DOMAIN l  BY CapRetiresOnly DEF CountedLedger
<1>3. Overflow(l, fp) \subseteq DOMAIN l  BY DEF Overflow, Active
<1> HIDE DEF m
<1>4. ASSUME NEW i \in DOMAIN l
      PROVE  /\ CountedEntry(m[i]) /\ m[i].fingerprint = l[i].fingerprint
             /\ m[i].retired <=> Retired(i)
  <2>1. IsEntry(l[i]) /\ CountedEntry(l[i])  BY DEF CountedLedger, IsLedger
  <2> HIDE DEF Retired
  <2>2. m[i] = [l[i] EXCEPT !.retired = Retired(i)]  BY <1>1
  <2>3. m[i] = [fingerprint |-> l[i].fingerprint, operator |-> l[i].operator,
       observations |-> l[i].observations, gain_sum |-> l[i].gain_sum,
       applied |-> l[i].applied, succeeded |-> l[i].succeeded,
       consecutive_failures |-> l[i].consecutive_failures,
       last_success_generation |-> l[i].last_success_generation,
       admitted_generation |-> l[i].admitted_generation,
       low_evidence |-> l[i].low_evidence, retired |-> Retired(i)]
    BY <2>1, <2>2 DEF IsEntry
  <2> QED  BY <2>1, <2>3 DEF CountedEntry
<1>5. CountedLedger(m)  BY <1>2, <1>4 DEF CountedLedger
<1>6. \A g : Active(m, g) \subseteq Active(l, g)  BY <1>2, <1>4 DEF Active
<1>7. \A i \in Overflow(l, fp) : i \notin Active(m, fp)  BY <1>3, <1>4 DEF Active
<1> QED  BY <1>5, <1>6, <1>7 DEF m

LEMMA DeduplicateKeepsCounts ==
  ASSUME NEW l, CountedLedger(l), NEW fp, NEW op, NEW gains \in Seq(Int)
  PROVE  /\ CountedLedger(Deduplicate(l, fp, op, gains))
         /\ \A g : Active(Deduplicate(l, fp, op, gains), g) = Active(l, g)
<1> DEFINE m == Deduplicate(l, fp, op, gains)
           n(i) == l[i].observations + Len(gains)
           g(i) == l[i].gain_sum + Total(gains)
           w(i) == l[i].low_evidence /\ LowEvidence(gains)
<1>1. /\ DOMAIN m = DOMAIN l
      /\ \A i \in DOMAIN l :
           m[i] = IF i \in Entries(l, fp, op)
                  THEN [l[i] EXCEPT !.observations = n(i), !.gain_sum = g(i),
                                    !.low_evidence = w(i)]
                  ELSE l[i]
  BY DEF Deduplicate
<1>2. IsLedger(m)  BY DeduplicateKeepsLedger DEF CountedLedger
<1>3. Total(gains) \in Int /\ Len(gains) \in Nat  BY TotalOfGains, LenProperties
<1> HIDE DEF m
<1>4. ASSUME NEW i \in DOMAIN l
      PROVE  /\ CountedEntry(m[i]) /\ m[i].fingerprint = l[i].fingerprint
             /\ m[i].retired = l[i].retired
  <2>1. IsEntry(l[i]) /\ CountedEntry(l[i])  BY DEF CountedLedger, IsLedger
  <2>2. CASE i \in Entries(l, fp, op)
    <3>0. n(i) \in Nat \ {0} /\ g(i) \in Int  BY <1>3, <2>1 DEF CountedEntry
    <3> HIDE DEF n, g, w
    <3>1. m[i] = [l[i] EXCEPT !.observations = n(i), !.gain_sum = g(i),
                              !.low_evidence = w(i)]
      BY <1>1, <2>2
    <3>2. m[i] = [fingerprint |-> l[i].fingerprint, operator |-> l[i].operator,
       observations |-> n(i), gain_sum |-> g(i),
       applied |-> l[i].applied, succeeded |-> l[i].succeeded,
       consecutive_failures |-> l[i].consecutive_failures,
       last_success_generation |-> l[i].last_success_generation,
       admitted_generation |-> l[i].admitted_generation,
       low_evidence |-> w(i), retired |-> l[i].retired]
      BY <2>1, <3>1 DEF IsEntry
    <3> QED  BY <2>1, <3>0, <3>2 DEF CountedEntry
  <2>3. CASE i \notin Entries(l, fp, op)  BY <1>1, <2>1, <2>3
  <2> QED  BY <2>2, <2>3
<1>5. CountedLedger(m)  BY <1>1, <1>2, <1>4 DEF CountedLedger
<1>6. \A f : Active(m, f) = Active(l, f)  BY <1>1, <1>4 DEF Active
<1> QED  BY <1>5, <1>6 DEF m

\* A replay without gains never passes.
LEMMA PassingHasGains ==
  ASSUME NEW gains \in Seq(Int), TRUE \in PassesReplay(gains)
  PROVE  Len(gains) \in Nat \ {0}
<1>1. Len(gains) \in Nat  BY LenProperties
<1>2. CASE Len(gains) = 0
  <2>1. Total(gains) = 0  BY <1>2, TotalOfGains
  <2>2. LowEvidence(gains)  BY <1>2 DEF LowEvidence
  <2>3. TRUE \in {Total(gains) > 0}  BY <2>2 DEF PassesReplay
  <2>4. Total(gains) > 0  BY <2>3
  <2> QED  BY <2>1, <2>4
<1> QED  BY <1>1, <1>2

\* Every ledger's Active sets are finite.
LEMMA ActiveIsFinite ==
  ASSUME NEW l, IsLedger(l), NEW fp
  PROVE  /\ Active(l, fp) \subseteq DOMAIN l
         /\ IsFiniteSet(Active(l, fp)) /\ Cardinality(Active(l, fp)) \in Nat
<1>1. Len(l) \in Nat /\ DOMAIN l = 1..Len(l)  BY LenProperties DEF IsLedger
<1>2. IsFiniteSet(DOMAIN l)
  <2>1. \A n \in Int : IsFiniteSet(1..n)  BY FS_Interval
  <2>2. Len(l) \in Int  BY <1>1
  <2> QED  BY <1>1, <2>1, <2>2
<1>3. Active(l, fp) \subseteq DOMAIN l  BY DEF Active
<1> QED  BY <1>2, <1>3, FS_Subset, FS_CardinalityType

WithinCap(l) == \A fp : Cardinality(Active(l, fp)) <= active_cap

\* One over the cap: the lowest ranking entry overflows.
LEMMA LowestOverflows ==
  ASSUME NEW l, CountedLedger(l), NEW fp, Cardinality(Active(l, fp)) > active_cap
  PROVE  Overflow(l, fp) \cap Active(l, fp) # {}
<1> DEFINE A == Active(l, fp)
           T == {p \in A \X A : RanksBelow(l, p[1], p[2])}
<1>1. A \subseteq DOMAIN l /\ IsFiniteSet(A) /\ Cardinality(A) \in Nat
  BY ActiveIsFinite DEF CountedLedger
<1>2. \A i, j \in A : <<i, j>> \in T <=> RanksBelow(l, i, j)  OBVIOUS
<1>3. Overflow(l, fp) = {i \in A : Cardinality({j \in A : RanksBelow(l, j, i)})
                                    < Cardinality(A) - active_cap}
  BY DEF Overflow
<1>4. Cardinality(A) > active_cap /\ active_cap \in Nat  BY GovernanceAssumption
<1> HIDE DEF A, T
<1>5. IsTotalOrder(A, T)  BY <1>1, <1>2, RankingIsTotal
<1>6. 1 \in 1..Cardinality(A)  BY <1>1, <1>4
<1>7. PICK x \in A : Cardinality({y \in A : <<y, x>> \in T}) = 1 - 1
  BY <1>1, <1>5, <1>6, RanksEnumerate
<1>8. {y \in A : <<y, x>> \in T} = {j \in A : RanksBelow(l, j, x)}  BY <1>2
<1>9. Cardinality({j \in A : RanksBelow(l, j, x)}) < Cardinality(A) - active_cap
  <2>1. Cardinality({j \in A : RanksBelow(l, j, x)}) = 1 - 1  BY <1>7, <1>8
  <2> QED  BY <1>1, <1>4, <2>1
<1>10. x \in Overflow(l, fp)  BY <1>3, <1>9
<1> QED  BY <1>10 DEF A

\* Admission keeps every fingerprint within the cap.
LEMMA AdmitKeepsCap ==
  ASSUME NEW l, CountedLedger(l), WithinCap(l), NEW fp, NEW op, NEW gains \in Seq(Int),
         NEW generation \in Int, NEW passes \in PassesReplay(gains)
  PROVE  LET m == Admit(l, fp, op, gains, generation, passes)
         IN  CountedLedger(m) /\ WithinCap(m)
<1> DEFINE m == Admit(l, fp, op, gains, generation, passes)
           e == NewEntry(fp, op, gains, generation)
           a == Append(l, e)
<1>1. CASE Known(l, fp, op)
  <2>1. m = Deduplicate(l, fp, op, gains)  BY <1>1 DEF Admit
  <2> HIDE DEF m
  <2>2. CountedLedger(m) /\ \A g : Active(m, g) = Active(l, g)
    BY <2>1, DeduplicateKeepsCounts
  <2>3. WithinCap(m)  BY <2>2 DEF WithinCap
  <2> QED  BY <2>2, <2>3 DEF m
<1>2. CASE ~Known(l, fp, op) /\ ~passes
  <2>1. m = l  BY <1>2 DEF Admit
  <2> QED  BY <2>1
<1>3. CASE ~Known(l, fp, op) /\ passes
  <2>1. m = EnforceActiveCap(a, fp)  BY <1>3 DEF Admit
  <2>2. passes = TRUE
    BY <1>3 DEF PassesReplay, LowerBoundIsPositive
  <2>3. Len(gains) \in Nat \ {0} /\ Total(gains) \in Int
    BY <2>2, PassingHasGains, TotalOfGains
  <2>4. IsEntry(e) /\ CountedEntry(e) /\ e.fingerprint = fp
    BY <2>3, NewEntryIsEntry DEF NewEntry, CountedEntry, NeverSucceeded
  <2> HIDE DEF e, m
  <2>5. /\ IsLedger(a) /\ DOMAIN a = DOMAIN l \cup {Len(l) + 1}
        /\ \A i \in DOMAIN l : a[i] = l[i]
        /\ a[Len(l) + 1] = e
    BY <2>4, AppendedLedger DEF CountedLedger
  <2> HIDE DEF a
  <2>6. CountedLedger(a)  BY <2>4, <2>5 DEF CountedLedger
  <2>7. /\ CountedLedger(m) /\ \A g : Active(m, g) \subseteq Active(a, g)
        /\ \A i \in Overflow(a, fp) : i \notin Active(m, fp)
    BY <2>1, <2>6, CapKeepsCounts
  <2>8. IsLedger(l) /\ IsLedger(m)  BY <2>7 DEF CountedLedger
  <2>9. ASSUME NEW g PROVE Cardinality(Active(m, g)) <= active_cap
    <3>1. /\ IsFiniteSet(Active(m, g)) /\ Cardinality(Active(m, g)) \in Nat
          /\ IsFiniteSet(Active(a, g)) /\ Cardinality(Active(a, g)) \in Nat
          /\ IsFiniteSet(Active(l, g)) /\ Cardinality(Active(l, g)) \in Nat
      BY <2>5, <2>8, ActiveIsFinite
    <3>2. /\ Cardinality(Active(l, g)) <= active_cap
          /\ active_cap \in Nat
      BY GovernanceAssumption DEF WithinCap
    <3>3. CASE g # fp
      <4>1. Active(a, g) \subseteq Active(l, g)  BY <2>4, <2>5, <3>3 DEF Active
      <4>2. Active(m, g) \subseteq Active(l, g)  BY <2>7, <4>1
      <4>3. Cardinality(Active(m, g)) <= Cardinality(Active(l, g))
        BY <3>1, <4>2, FS_Subset
      <4> QED  BY <3>1, <3>2, <4>3
    <3>4. CASE g = fp
      <4>1. Active(a, g) \subseteq Active(l, g) \cup {Len(l) + 1}  BY <2>5 DEF Active
      <4> DEFINE B == Active(l, g)
                 C == B \cup {Len(l) + 1}
      <4>2. IsFiniteSet(C) /\ Cardinality(C) <= Cardinality(B) + 1 /\ Cardinality(C) \in Nat
        <5>1. IsFiniteSet(B) /\ Cardinality(B) \in Nat  BY <3>1
        <5> HIDE DEF B
        <5>2. /\ IsFiniteSet(C)
              /\ Cardinality(C) = Cardinality(B) \/ Cardinality(C) = Cardinality(B) + 1
          BY <5>1, FS_AddElement
        <5> QED  BY <5>1, <5>2
      <4>3. Cardinality(Active(a, g)) <= active_cap + 1
        <5>1. Cardinality(Active(a, g)) <= Cardinality(C)
          BY <4>1, <4>2, FS_Subset
        <5> QED  BY <3>1, <3>2, <4>2, <5>1
      <4>4. CASE Cardinality(Active(a, g)) <= active_cap
        <5>1. Cardinality(Active(m, g)) <= Cardinality(Active(a, g))
          BY <2>7, <3>1, FS_Subset
        <5> QED  BY <3>1, <3>2, <4>4, <5>1
      <4>5. CASE Cardinality(Active(a, g)) > active_cap
        <5>1. PICK x : x \in Overflow(a, fp) /\ x \in Active(a, fp)
          BY <2>6, <3>4, <4>5, LowestOverflows
        <5>2. Active(m, g) \subseteq Active(a, g) /\ Active(m, g) # Active(a, g)
          BY <2>7, <3>4, <5>1
        <5>3. /\ Cardinality(Active(m, g)) <= Cardinality(Active(a, g))
              /\ Cardinality(Active(m, g)) # Cardinality(Active(a, g))
          BY <3>1, <5>2, FS_Subset
        <5> QED  BY <3>1, <3>2, <4>3, <5>3
      <4> QED  BY <3>1, <3>2, <4>4, <4>5
    <3> QED  BY <3>3, <3>4
  <2>10. WithinCap(m)  BY <2>9 DEF WithinCap
  <2> QED  BY <2>7, <2>10 DEF m
<1> QED  BY <1>1, <1>2, <1>3

CapInvariant ==
  /\ family_index \in Nat
  /\ CountedLedger(ledger) /\ WithinCap(ledger)

LEMMA StartsWithinCap == Init => CapInvariant
<1> SUFFICES ASSUME Init PROVE CapInvariant
  OBVIOUS
<1>1. ledger = <<>> /\ family_index = 0  BY DEF Init
<1>2. <<>> \in Seq(ToSet(<<>>)) /\ DOMAIN <<>> = {}  BY EmptySeq
<1>3. \A fp : Active(<<>>, fp) = {}  BY <1>2 DEF Active
<1>4. \A fp : Cardinality(Active(<<>>, fp)) = 0  BY <1>3, FS_EmptySet
<1> QED
  BY <1>1, <1>2, <1>4, GovernanceAssumption
     DEF CapInvariant, CountedLedger, IsLedger, WithinCap

LEMMA StepKeepsCap == CapInvariant /\ [Next]_vars => CapInvariant'
<1> SUFFICES ASSUME CapInvariant, [Next]_vars PROVE CapInvariant'
  OBVIOUS
<1>0. /\ family_index \in Nat /\ CountedLedger(ledger) /\ WithinCap(ledger)
  BY DEF CapInvariant
<1>1. CASE ledger' = ledger /\ family_index' \in Nat
  BY <1>0, <1>1 DEF CapInvariant
<1>2. CASE StartFamily
  <2>1. ledger' = ledger /\ family_index' = family_index + 1  BY <1>2 DEF StartFamily
  <2> QED  BY <1>0, <1>1, <2>1
<1>3. CASE Exclude  BY <1>0, <1>1, <1>3 DEF Exclude
<1>4. CASE Search  BY <1>0, <1>1, <1>4 DEF Search
<1>5. CASE Reuse  BY <1>0, <1>1, <1>5 DEF Reuse
<1>6. CASE WriteBack
  <2>1. family_index' = family_index  BY <1>6 DEF WriteBack
  <2>2. CASE read = NoChoice  BY <1>0, <1>1, <1>6, <2>1, <2>2 DEF WriteBack
  <2>3. CASE read # NoChoice
    <3>1. PICK gains \in ReplayGains : \E passes \in PassesReplay(gains) :
            ledger' = Admit(ledger, Fingerprint, read, gains, family_index, passes)
      BY <1>6, <2>3 DEF WriteBack
    <3>2. PICK passes \in PassesReplay(gains) :
            ledger' = Admit(ledger, Fingerprint, read, gains, family_index, passes)
      BY <3>1
    <3>3. gains \in Seq(Int) /\ family_index \in Int  BY <1>0, DurabilityAssumption
    <3>4. CountedLedger(ledger') /\ WithinCap(ledger')
      BY <1>0, <3>2, <3>3, AdmitKeepsCap
    <3> QED  BY <1>0, <2>1, <3>4 DEF CapInvariant
  <2> QED  BY <2>2, <2>3
<1>7. CASE Restore  BY <1>0, <1>1, <1>7 DEF Restore
<1>8. CASE Ended  BY <1>0, <1>1, <1>8 DEF Ended, vars
<1>9. CASE UNCHANGED vars  BY <1>0, <1>1, <1>9 DEF vars
<1> QED
  BY <1>2, <1>3, <1>4, <1>5, <1>6, <1>7, <1>8, <1>9 DEF Next

\* However many families share a fingerprint and whatever their replays return,
\* enforce_active_cap leaves no more than active_cap operators active for it.
THEOREM AlwaysWithinCap == Spec => []ActiveWithinCap
<1>1. CapInvariant => ActiveWithinCap
  BY DEF CapInvariant, WithinCap, ActiveWithinCap
<1> QED  BY <1>1, StartsWithinCap, StepKeepsCap, PTL DEF Spec
=============================================================================
