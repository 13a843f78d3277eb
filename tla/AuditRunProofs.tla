--------------------------- MODULE AuditRunProofs ---------------------------
(***************************************************************************)
(* The report of a search accounts for every legal action, an attribution  *)
(* rests on what was measured, and the repair follows its credits, for any *)
(* number of cases, any memory and any outcomes.                           *)
(***************************************************************************)
EXTENDS AuditRun, RankingTheorems

\* What the report needs to hold at every step: nothing is kept from the case
\* before, the identity rollout was measured before any other, and until the
\* search is settled nothing has been attributed.
Accounting ==
  /\ truncated \in BOOLEAN
  /\ phase \in {"hook", "reuse", "search"} =>
       /\ pending = {} /\ credits = <<>> /\ observed = <<>> /\ timed_out = {} /\ unscored = {} /\ ~truncated
  /\ phase \in {"hook", "reuse", "search", "measure", "attribute"} =>
       attribution = NoAttribution
  /\ phase = "measure" => "identity" \in DOMAIN observed /\ observed["identity"] # Timeout

AccountingInv == Accounting /\ EveryActionIsAccounted

-----------------------------------------------------------------------------
(* Facts about labels and scores.                                          *)

\* Some action is always legal, and identity is never one of them.
LEMMA LegalActions ==
  ASSUME NEW c
  PROVE  Legal(c) # {} /\ "identity" \notin Legal(c)
<1>1. NamesDown[2] = "retrieval_error" /\ 2 \in DOMAIN NamesDown
  BY DEF NamesDown
<1>2. "retrieval_error" \in StepActions
  BY <1>1 DEF StepActions, ToSet
<1>3. "identity" \notin StepActions
  BY DEF StepActions, ToSet, NamesDown
<1> QED  BY <1>2, <1>3 DEF Legal

\* Only a timeout scores NaN.
LEMMA OnlyTimeoutsAreNaN ==
  ASSUME NEW outcome \in Outcomes
  PROVE  IsNaN(Score(outcome)) <=> outcome = Timeout
BY AuditRunAssumption DEF IsNaN, Score, Outcomes, AuditRunAssumption

\* What follows an attribution leaves the report of the search alone.
LEMMA ConcludeSettles ==
  ASSUME NEW att, Conclude(att)
  PROVE  attribution' = att /\ phase' \in {"repair", "report"}
BY DEF Conclude

LEMMA NothingIsEmpty == DOMAIN <<>> = {}
OBVIOUS

-----------------------------------------------------------------------------

LEMMA AccountingHoldsAtStart == Init => AccountingInv
<1> SUFFICES ASSUME Init PROVE AccountingInv
  OBVIOUS
<1> QED  BY DEF Init, AccountingInv, Accounting, EveryActionIsAccounted, Settled

LEMMA MeasureIdentityAccounts ==
  AccountingInv /\ MeasureIdentity => AccountingInv'
<1> SUFFICES ASSUME AccountingInv, MeasureIdentity PROVE AccountingInv'
  OBVIOUS
<1>1. PICK outcome \in Outcomes :
        /\ observed' = [x \in {"identity"} |-> outcome]
        /\ IF IsNaN(Score(outcome))
           THEN /\ timed_out' = {"identity"} /\ unscored' = Legal(case)
                /\ truncated' = TRUE
                /\ phase' = "attribute"
                /\ UNCHANGED <<pending, credits>>
           ELSE /\ pending' = Legal(case) /\ credits' = [x \in {"identity"} |-> 0]
                /\ phase' = "measure"
                /\ UNCHANGED <<timed_out, unscored, truncated>>
  BY DEF MeasureIdentity
<1>2. /\ attribution = NoAttribution /\ attribution' = attribution /\ case' = case
      /\ timed_out = {} /\ unscored = {} /\ ~truncated /\ credits = <<>>
  BY DEF MeasureIdentity, AccountingInv, Accounting
<1>3. DOMAIN observed' = {"identity"} /\ observed'["identity"] = outcome /\ Begun' = {}
  BY <1>1 DEF Begun
<1>4. Legal(case) # {} /\ "identity" \notin Legal(case)
  BY LegalActions
<1>5. CASE outcome = Timeout
  <2>1. /\ timed_out' = {"identity"} /\ unscored' = Legal(case)
        /\ truncated' = TRUE /\ phase' = "attribute"
    BY <1>1, <1>5, OnlyTimeoutsAreNaN
  <2>2. DOMAIN credits' = {}
    BY <1>1, <1>2, <1>5, OnlyTimeoutsAreNaN, NothingIsEmpty
  <2>3. Accounting'
    BY <1>2, <2>1 DEF Accounting
  <2> QED
    BY <1>2, <1>3, <1>4, <1>5, <2>1, <2>2, <2>3 DEF AccountingInv, EveryActionIsAccounted, Settled, Legal
<1>6. CASE outcome # Timeout
  <2>1. /\ pending' = Legal(case) /\ credits' = [x \in {"identity"} |-> 0]
        /\ phase' = "measure" /\ timed_out' = {} /\ unscored' = {} /\ ~truncated'
    BY <1>1, <1>2, <1>6, OnlyTimeoutsAreNaN
  <2>2. truncated' \in BOOLEAN
    BY <1>1, <1>6, OnlyTimeoutsAreNaN DEF AccountingInv, Accounting
  <2>3. Accounting'
    BY <1>2, <1>3, <1>6, <2>1, <2>2 DEF Accounting
  <2> QED
    BY <1>2, <1>3, <1>4, <1>6, <2>1, <2>3 DEF AccountingInv, EveryActionIsAccounted, Settled, Legal
<1> QED  BY <1>5, <1>6

\* One more action is begun, and leaves what was pending.
LEMMA MeasureNextAccounts ==
  AccountingInv /\ MeasureNext => AccountingInv'
<1> SUFFICES ASSUME AccountingInv, MeasureNext PROVE AccountingInv'
  OBVIOUS
<1>1. PICK a \in pending, outcome \in Outcomes :
        /\ pending' = pending \ {a}
        /\ observed' = [x \in DOMAIN observed \cup {a} |-> IF x = a THEN outcome ELSE observed[x]]
        /\ IF IsNaN(Score(outcome))
           THEN timed_out' = timed_out \cup {a} /\ UNCHANGED credits
           ELSE /\ credits' = [x \in DOMAIN credits \cup {a} |->
                                 IF x = a THEN Score(outcome) - Score(observed["identity"])
                                 ELSE credits[x]]
                /\ UNCHANGED timed_out
  BY DEF MeasureNext
<1>2. /\ phase = "measure" /\ phase' = "measure" /\ case' = case
      /\ unscored' = unscored /\ truncated' = truncated /\ attribution' = attribution
  BY DEF MeasureNext
<1>3. /\ attribution = NoAttribution /\ unscored = {} /\ ~truncated /\ truncated \in BOOLEAN
      /\ "identity" \in DOMAIN observed /\ observed["identity"] # Timeout
      /\ pending \cap Begun = {} /\ pending \cup Begun = Legal(case)
  BY <1>2 DEF AccountingInv, Accounting, EveryActionIsAccounted
<1>4. /\ timed_out = {x \in DOMAIN observed : observed[x] = Timeout}
      /\ DOMAIN credits = DOMAIN observed \ timed_out
  BY <1>3, NothingIsEmpty DEF AccountingInv, EveryActionIsAccounted, NoAttribution
<1>5. a # "identity" /\ a \notin DOMAIN observed
  BY <1>1, <1>3, LegalActions DEF Begun
<1>6. /\ DOMAIN observed' = DOMAIN observed \cup {a} /\ observed'[a] = outcome
      /\ \A x \in DOMAIN observed : observed'[x] = observed[x]
      /\ Begun' = Begun \cup {a}
  BY <1>1, <1>5 DEF Begun
<1>7. /\ timed_out' = {x \in DOMAIN observed' : observed'[x] = Timeout}
      /\ DOMAIN credits' = DOMAIN observed' \ timed_out'
  <2>1. CASE outcome = Timeout
    <3>1. timed_out' = timed_out \cup {a} /\ credits' = credits
      BY <1>1, <2>1, OnlyTimeoutsAreNaN
    <3> QED  BY <1>4, <1>5, <1>6, <2>1, <3>1
  <2>2. CASE outcome # Timeout
    <3>1. timed_out' = timed_out /\ DOMAIN credits' = DOMAIN credits \cup {a}
      BY <1>1, <2>2, OnlyTimeoutsAreNaN
    <3> QED  BY <1>4, <1>5, <1>6, <2>2, <3>1
  <2> QED  BY <2>1, <2>2
<1>8. pending' \cap Begun' = {} /\ pending' \cup Begun' = Legal(case')
  BY <1>1, <1>2, <1>3, <1>6 DEF Legal
<1>9. Accounting'
  BY <1>2, <1>3, <1>6 DEF Accounting
<1> QED
  BY <1>2, <1>3, <1>7, <1>8, <1>9 DEF AccountingInv, EveryActionIsAccounted, Settled

\* The search ends with what is pending reported as not scored.
LEMMA EndAccounts ==
  AccountingInv /\ (GiveUp \/ Truncate \/ EndSearch) => AccountingInv'
<1> SUFFICES ASSUME AccountingInv, GiveUp \/ Truncate \/ EndSearch PROVE AccountingInv'
  OBVIOUS
<1>1. /\ phase' = "attribute" /\ attribution' = attribution /\ attribution = NoAttribution
      /\ case' = case /\ observed' = observed /\ timed_out' = timed_out /\ credits' = credits
  BY DEF GiveUp, Truncate, EndSearch, search, AccountingInv, Accounting
<1>2. Begun' = Begun /\ Legal(case') = Legal(case)
  BY <1>1 DEF Begun
<1>3. CASE GiveUp
  <2>1. observed' = <<>> /\ truncated'
    BY <1>1, <1>3 DEF GiveUp, AccountingInv, Accounting
  <2> QED
    BY <1>1, <1>3, <2>1 DEF GiveUp, AccountingInv, Accounting, EveryActionIsAccounted
<1>4. CASE Truncate \/ EndSearch
  <2>1. /\ timed_out = {x \in DOMAIN observed : observed[x] = Timeout}
        /\ DOMAIN credits = DOMAIN observed \ timed_out
        /\ "identity" \notin timed_out /\ observed # <<>>
        /\ pending \cap Begun = {} /\ pending \cup Begun = Legal(case)
        /\ unscored = {} /\ ~truncated /\ truncated \in BOOLEAN
    BY <1>1, <1>4, NothingIsEmpty
    DEF Truncate, EndSearch, AccountingInv, Accounting, EveryActionIsAccounted, NoAttribution
  <2>2. unscored' = pending /\ (pending # {} <=> truncated') /\ truncated' \in BOOLEAN
    <3>1. CASE Truncate
      BY <3>1 DEF Truncate
    <3>2. CASE EndSearch
      <4>1. unscored' = unscored /\ truncated' = truncated /\ pending = {}
        BY <3>2 DEF EndSearch, search
      <4> QED  BY <2>1, <4>1
    <3> QED  BY <1>4, <3>1, <3>2
  <2>3. unscored' = Legal(case) \ Begun
    BY <2>1, <2>2
  <2>4. Accounting'
    BY <1>1, <2>2 DEF Accounting
  <2> QED
    BY <1>1, <1>2, <2>1, <2>2, <2>3, <2>4 DEF AccountingInv, EveryActionIsAccounted
<1> QED  BY <1>3, <1>4

\* Whatever is attributed after a search, its report stays as it was.
LEMMA SettledStaysAccounted ==
  ASSUME AccountingInv, UNCHANGED <<case, search>>,
         phase \in {"attribute", "repair"}, phase' \in {"repair", "report", "raised"},
         \/ attribution' = attribution
         \/ phase = "attribute"
  PROVE  AccountingInv'
<1>1. attribution.source = "skill" => attribution' = attribution
  BY DEF AccountingInv, Accounting, NoAttribution
<1>2. Begun' = Begun /\ Legal(case') = Legal(case)
  BY DEF Begun, search
<1>3. Accounting'
  BY DEF AccountingInv, Accounting, search
<1> QED
  BY <1>1, <1>2, <1>3 DEF AccountingInv, EveryActionIsAccounted, Settled, search

LEMMA AttributeAccounts ==
  AccountingInv /\ Attribute => AccountingInv'
<1> SUFFICES ASSUME AccountingInv, Attribute PROVE AccountingInv'
  OBVIOUS
<1>1. phase = "attribute" /\ UNCHANGED <<case, search>>
  BY DEF Attribute
<1>2. phase' \in {"repair", "report"}
  BY ConcludeSettles DEF Attribute
<1> QED  BY <1>1, <1>2, SettledStaysAccounted

LEMMA RepairAccounts ==
  AccountingInv /\ (FailToSelect \/ Repair \/ RepairRaises) => AccountingInv'
<1> SUFFICES ASSUME AccountingInv, FailToSelect \/ Repair \/ RepairRaises PROVE AccountingInv'
  OBVIOUS
<1>1. phase = "repair" /\ UNCHANGED <<case, search, attribution>>
  BY DEF FailToSelect, Repair, RepairRaises
<1>2. phase' \in {"repair", "report", "raised"}
  BY <1>1 DEF FailToSelect, Repair, RepairRaises, Attempted
<1> QED  BY <1>1, <1>2, SettledStaysAccounted

\* Nothing was searched when the hook closes a case or hands it on.
LEMMA HookAccounts ==
  AccountingInv /\ Hook => AccountingInv'
<1> SUFFICES ASSUME AccountingInv, Hook PROVE AccountingInv'
  OBVIOUS
<1>1. /\ observed' = <<>> /\ pending' = {} /\ credits' = <<>> /\ timed_out' = {}
      /\ unscored' = {} /\ ~truncated' /\ truncated' \in BOOLEAN
  BY DEF Hook, search, AccountingInv, Accounting
<1>2. \/ phase' = "reuse" /\ attribution' = NoAttribution
      \/ phase' \in {"repair", "report"}
  BY ConcludeSettles DEF Hook, AccountingInv, Accounting
<1> QED  BY <1>1, <1>2 DEF AccountingInv, Accounting, EveryActionIsAccounted

\* What an operator is tried on is not a search, and leaves no report behind.
LEMMA ReuseAccounts ==
  AccountingInv /\ Reuse => AccountingInv'
<1> SUFFICES ASSUME AccountingInv, Reuse PROVE AccountingInv'
  OBVIOUS
<1>1. /\ pending' = {} /\ credits' = <<>> /\ timed_out' = {} /\ unscored' = {}
      /\ ~truncated' /\ truncated' \in BOOLEAN
      /\ observed = <<>> /\ attribution = NoAttribution
  BY DEF Reuse, AccountingInv, Accounting
<1>2. CASE phase' = "search" /\ UNCHANGED <<observed, attribution, repair>>
  BY <1>1, <1>2 DEF AccountingInv, Accounting, EveryActionIsAccounted
<1>3. CASE attribution'.source = "skill" /\ phase' \in {"repair", "report"}
  BY <1>1, <1>3 DEF AccountingInv, Accounting, EveryActionIsAccounted
<1>4. \/ phase' = "search" /\ UNCHANGED <<observed, attribution, repair>>
      \/ \E att : att.source = "skill" /\ Conclude(att)
  BY DEF Reuse
<1> QED  BY <1>2, <1>3, <1>4, ConcludeSettles

LEMMA ReportAccounts ==
  AccountingInv /\ Report => AccountingInv'
<1> SUFFICES ASSUME AccountingInv, Report PROVE AccountingInv'
  OBVIOUS
<1>1. CASE case = N
  <2>1. /\ phase = "report" /\ phase' = "done" /\ UNCHANGED <<case, search, attribution>>
    BY <1>1 DEF Report
  <2>2. Begun' = Begun /\ Legal(case') = Legal(case)
    BY <2>1 DEF Begun, search
  <2> QED
    BY <2>1, <2>2 DEF AccountingInv, Accounting, EveryActionIsAccounted, Settled, search
<1>2. CASE case # N
  BY <1>2 DEF Report, AccountingInv, Accounting, EveryActionIsAccounted, Settled
<1> QED  BY <1>1, <1>2

LEMMA AccountingIsKept ==
  AccountingInv /\ [Next]_vars => AccountingInv'
<1> SUFFICES ASSUME AccountingInv, [Next]_vars PROVE AccountingInv'
  OBVIOUS
<1>1. CASE UNCHANGED vars
  <2>1. Begun' = Begun /\ Legal(case') = Legal(case)
    BY <1>1 DEF vars, search, Begun
  <2> QED
    BY <1>1, <2>1 DEF vars, search, AccountingInv, Accounting, EveryActionIsAccounted, Settled
<1>2. CASE Next
  BY <1>2, HookAccounts, ReuseAccounts, MeasureIdentityAccounts, MeasureNextAccounts,
     EndAccounts, AttributeAccounts, RepairAccounts, ReportAccounts DEF Next
<1> QED  BY <1>1, <1>2

\* In every run of cases, whatever times out or fails, the report of each search
\* accounts for every legal action: scored, timed out, or left out by a search
\* that says it was truncated.
THEOREM SearchReportIsHonest == Spec => []EveryActionIsAccounted
<1>1. AccountingInv => EveryActionIsAccounted
  BY DEF AccountingInv
<1> QED  BY <1>1, AccountingHoldsAtStart, AccountingIsKept, PTL DEF Spec
-----------------------------------------------------------------------------
(* The order of the labels.                                                *)

Labels == StepActions \cup {StructuralGap[c] : c \in 1..N}

\* A ranking starts with the attributed label, names none twice, and its credits
\* fall.
WellRanked(att) ==
  /\ att.ranking \in Seq(Labels) /\ att.ranking # <<>> /\ att.ranking[1] = att.label
  /\ \A i, j \in 1..Len(att.ranking) : i < j =>
       /\ att.credit[att.ranking[i]] >= att.credit[att.ranking[j]]
       /\ att.ranking[i] # att.ranking[j]

\* What is tried keeps the order of the ranking and its first label.
LEMMA LabelsInOrder ==
  ASSUME NEW att, WellRanked(att)
  PROVE  LET s == LabelsToTry(att)
         IN  /\ s \in Seq(Labels) /\ s # <<>> /\ s[1] = att.label
             /\ \A i, j \in 1..Len(s) : i < j =>
                  att.credit[s[i]] >= att.credit[s[j]] /\ s[i] # s[j]
             /\ \A x : (\E n \in 1..Len(s) : s[n] = x) <=>
                  \E i \in 1..Len(att.ranking) :
                    att.ranking[i] = x /\ (x = att.label \/ att.credit[x] > 0)
<1> DEFINE r == att.ranking
           K == {i \in DOMAIN r : r[i] = att.label \/ AboveThreshold(att.credit[r[i]])}
           s == LabelsToTry(att)
           p == Ascending(K)
<1>1. s = AtPlaces(r, K)  BY DEF LabelsToTry
<1>2. r \in Seq(Labels) /\ Len(r) \in Nat /\ DOMAIN r = 1..Len(r) /\ r # <<>> /\ r[1] = att.label
  BY LenProperties DEF WellRanked
<1>3. K = {i \in 1..Len(r) : r[i] = att.label \/ att.credit[r[i]] > 0}
  BY <1>2 DEF AboveThreshold
<1>4. 1 \in 1..Len(r)  BY <1>2, EmptySeq
<1>5. K \subseteq 1..Len(r) /\ 1 \in K  BY <1>2, <1>3, <1>4
<1>6. \A i, j \in 1..Len(r) : i < j => att.credit[r[i]] >= att.credit[r[j]] /\ r[i] # r[j]
  BY DEF WellRanked
<1> HIDE DEF r, K, s, p
<1>7. /\ s \in Seq(Labels) /\ Len(s) \in Nat
      /\ \A n \in 1..Len(s) : p[n] \in K /\ s[n] = r[p[n]]
      /\ \A m, n \in 1..Len(s) : m < n => p[m] < p[n]
      /\ \A k \in K : \E n \in 1..Len(s) : s[n] = r[k] /\ p[n] = k
  <2> DEFINE t == AtPlaces(r, K)
             q == Ascending(K)
  <2>1. /\ t \in Seq(Labels)
        /\ \A n \in 1..Len(t) : q[n] \in K /\ t[n] = r[q[n]]
        /\ \A m, n \in 1..Len(t) : m < n => q[m] < q[n]
        /\ \A k \in K : \E n \in 1..Len(t) : t[n] = r[k] /\ q[n] = k
    <3>1. t \in Seq(Labels) /\ Len(t) = Cardinality(K)  BY <1>2, <1>5, PickedList
    <3>2. ASSUME NEW n \in 1..Len(t) PROVE q[n] \in K  BY <1>2, <1>5, PickedList
    <3>3. ASSUME NEW m \in 1..Len(t), NEW n \in 1..Len(t), m < n PROVE q[m] < q[n]
      BY <1>2, <1>5, <3>3, PickedList
    <3>4. \A n \in 1..Len(t) : t[n] = r[q[n]]  BY <3>1 DEF AtPlaces
    <3>5. ASSUME NEW k \in K PROVE \E n \in 1..Len(t) : t[n] = r[k] /\ q[n] = k
      <4>1. IsFiniteSet(1..Len(r))  BY <1>2, FS_Interval
      <4>2. IsFiniteSet(K) /\ K \subseteq Int
        <5>1. IsFiniteSet(K)  BY <1>5, <4>1, FS_Subset
        <5>2. K \subseteq Int  BY <1>5
        <5> QED  BY <5>1, <5>2
      <4>3. Len(q) = Cardinality(K)  BY <4>2, AscendingList
      <4>4. \E n \in 1..Len(q) : q[n] = k  BY <4>2, AscendingList
      <4> HIDE DEF t, q
      <4> QED  BY <3>1, <3>4, <4>3, <4>4
    <3> HIDE DEF t, q
    <3> QED  BY <3>1, <3>2, <3>3, <3>4, <3>5
  <2> HIDE DEF t, q
  <2>2. t = s /\ q = p  BY <1>1 DEF t, q, p
  <2>3. Len(t) \in Nat  BY <2>1, LenProperties
  <2> QED  BY <2>1, <2>2, <2>3
<1>8. PICK n \in 1..Len(s) : s[n] = r[1] /\ p[n] = 1  BY <1>5, <1>7
<1>9. n = 1
  <2> SUFFICES ASSUME n # 1 PROVE FALSE
    OBVIOUS
  <2>1. Len(s) \in Nat  BY <1>7
  <2>2. 1 \in 1..Len(s) /\ 1 < n  BY <2>1
  <2>3. p[1] \in K /\ p[1] < 1  BY <1>7, <1>8, <2>2
  <2>4. p[1] \in 1..Len(r)  BY <1>5, <2>3
  <2> QED  BY <1>2, <2>3, <2>4
<1>10. s # <<>> /\ s[1] = att.label  BY <1>2, <1>7, <1>8, <1>9
<1>11. ASSUME NEW i \in 1..Len(s), NEW j \in 1..Len(s), i < j
       PROVE  att.credit[s[i]] >= att.credit[s[j]] /\ s[i] # s[j]
  <2>1. p[i] < p[j] /\ p[i] \in 1..Len(r) /\ p[j] \in 1..Len(r)  BY <1>5, <1>7, <1>11
  <2>2. s[i] = r[p[i]] /\ s[j] = r[p[j]]  BY <1>7
  <2> QED  BY <1>6, <2>1, <2>2
<1>12. ASSUME NEW x
       PROVE  (\E m \in 1..Len(s) : s[m] = x) <=>
                \E i \in 1..Len(r) : r[i] = x /\ (x = att.label \/ att.credit[x] > 0)
  <2>1. ASSUME NEW m \in 1..Len(s), s[m] = x
        PROVE  \E i \in 1..Len(r) : r[i] = x /\ (x = att.label \/ att.credit[x] > 0)
    BY <1>3, <1>7, <2>1
  <2>2. ASSUME NEW i \in 1..Len(r), r[i] = x, x = att.label \/ att.credit[x] > 0
        PROVE  \E m \in 1..Len(s) : s[m] = x
    BY <1>3, <1>7, <2>2
  <2> QED  BY <2>1, <2>2
<1> QED  BY <1>7, <1>10, <1>11, <1>12 DEF r, s

\* Moving the head of one list to the end of another keeps both together.
LEMMA HeadMoves ==
  ASSUME NEW S, NEW s \in Seq(S), NEW t \in Seq(S), t # <<>>
  PROVE  Append(s, Head(t)) \o Tail(t) = s \o t
<1>1. /\ Head(t) \in S /\ Tail(t) \in Seq(S) /\ Head(t) = t[1]
      /\ Len(Tail(t)) = Len(t) - 1
      /\ \A i \in 1..Len(Tail(t)) : Tail(t)[i] = t[i + 1]
  BY HeadTailProperties
<1> DEFINE h == Head(t)
           u == Tail(t)
           a == Append(s, h)
<1>2. h \in S /\ u \in Seq(S) /\ h = t[1] /\ Len(u) = Len(t) - 1
  BY <1>1
<1>3. \A i \in 1..Len(u) : u[i] = t[i + 1]  BY <1>1
<1> HIDE DEF h, u
<1>4. /\ a \in Seq(S) /\ Len(a) = Len(s) + 1 /\ a[Len(s) + 1] = h
      /\ \A i \in 1..Len(s) : a[i] = s[i]
  BY <1>2, AppendProperties
<1> HIDE DEF a
<1>5. Len(s) \in Nat /\ Len(t) \in Nat /\ Len(u) \in Nat /\ Len(a) \in Nat
  BY <1>2, <1>4, LenProperties
<1>6. /\ a \o u \in Seq(S) /\ Len(a \o u) = Len(a) + Len(u)
      /\ \A i \in 1..(Len(a) + Len(u)) :
           (a \o u)[i] = IF i <= Len(a) THEN a[i] ELSE u[i - Len(a)]
  BY <1>2, <1>4, ConcatProperties
<1>7. /\ s \o t \in Seq(S) /\ Len(s \o t) = Len(s) + Len(t)
      /\ \A i \in 1..(Len(s) + Len(t)) :
           (s \o t)[i] = IF i <= Len(s) THEN s[i] ELSE t[i - Len(s)]
  BY ConcatProperties
<1>8. Len(a \o u) = Len(s \o t)  BY <1>2, <1>4, <1>5, <1>6, <1>7
<1>9. ASSUME NEW i \in 1..Len(a \o u) PROVE (a \o u)[i] = (s \o t)[i]
  <2>1. i \in Int /\ i \in 1..(Len(a) + Len(u)) /\ i \in 1..(Len(s) + Len(t))
    BY <1>5, <1>6, <1>7, <1>8
  <2>2. CASE i <= Len(s)
    <3>1. (a \o u)[i] = a[i] /\ a[i] = s[i]  BY <1>4, <1>5, <1>6, <2>1, <2>2
    <3> QED  BY <1>7, <2>1, <2>2, <3>1
  <2>3. CASE i = Len(s) + 1
    <3>1. (a \o u)[i] = h  BY <1>4, <1>5, <1>6, <2>1, <2>3
    <3>2. (s \o t)[i] = t[1]  BY <1>5, <1>7, <2>1, <2>3
    <3> QED  BY <1>2, <3>1, <3>2
  <2>4. CASE i > Len(s) + 1
    <3>1. (a \o u)[i] = u[i - Len(a)]  BY <1>4, <1>5, <1>6, <2>1, <2>4
    <3>2. (s \o t)[i] = t[i - Len(s)]  BY <1>5, <1>7, <2>1, <2>4
    <3>3. i - Len(a) \in 1..Len(u) /\ (i - Len(a)) + 1 = i - Len(s)
      BY <1>2, <1>4, <1>5, <2>1, <2>4
    <3>4. u[i - Len(a)] = t[(i - Len(a)) + 1]  BY <1>3, <3>3
    <3> QED  BY <3>1, <3>2, <3>3, <3>4
  <2> QED  BY <1>5, <2>1, <2>2, <2>3, <2>4
<1>10. a \o u = s \o t  BY <1>6, <1>7, <1>8, <1>9, SeqEqual
<1> QED  BY <1>10 DEF a, h, u

-----------------------------------------------------------------------------
(* What is attributed and what is tried.                                   *)

Learned == [case : 1..N, key : {Key(c) : c \in 1..N}, label : StepActions]

Attempts == [label : Labels, assessment : {Assessment[c] : c \in 1..N} \cup {"action_selection_failed"}]

Undecided == {"hook", "reuse", "search", "measure", "attribute"}

\* A credit is what its rollout scored above identity.
Credited ==
  /\ \A a \in DOMAIN credits :
       /\ a \in DOMAIN observed /\ observed[a] # Timeout
       /\ credits[a] = Score(observed[a]) - Score(observed["identity"])
       /\ a # "identity" => a \in Legal(case)
  /\ DOMAIN credits # {} => "identity" \in DOMAIN observed /\ observed["identity"] # Timeout

\* The memory holds cases that came before, and nothing is tried before a label
\* is attributed.
AuditInvariant ==
  /\ case \in 1..N
  /\ records \in Seq(Learned)
  /\ phase \in Undecided => \A i \in 1..Len(records) : records[i].case < case
  /\ \A i \in 1..Len(records) : records[i].case <= case
  /\ \A x \in DOMAIN observed : observed[x] \in Outcomes
  /\ Credited
  /\ phase \in Undecided => attempts = <<>> /\ to_try = <<>>
  /\ attempts \in Seq(Attempts) /\ to_try \in Seq(Labels)
  /\ phase = "repair" => to_try # <<>> /\ config.adapter # "none" /\ attribution # NoAttribution
  /\ AttributionIsFounded
  /\ RepairsFollowTheCredits

LEMMA ScoresAreNumbers ==
  ASSUME NEW outcome \in Outcomes, outcome # Timeout
  PROVE  /\ Score(outcome) \in Nat
         /\ Score(outcome) # 0 => outcome \in Scores
         /\ outcome \in Scores => Score(outcome) = outcome
BY AuditRunAssumption DEF Score, Outcomes

LEMMA KeysAreFinite ==
  ASSUME NEW c \in 1..N
  PROVE  IsFiniteSet(Key(c))
<1>1. IsFiniteSet(QueryWords[c])  BY AuditRunAssumption
<1>2. MemoryWords[c] \in Seq(ToSet(MemoryWords[c]))  BY AuditRunAssumption
<1>3. IsFiniteSet(ToSet(MemoryWords[c]))  BY <1>2, FiniteContents
<1>4. MostFrequent(MemoryWords[c], top_k) \subseteq ToSet(MemoryWords[c])  BY DEF MostFrequent
<1>5. IsFiniteSet(MostFrequent(MemoryWords[c], top_k))  BY <1>3, <1>4, FS_Subset
<1> QED  BY <1>1, <1>5 DEF Key

\* The names of the actions are told apart by their places.
LEMMA PlacesDiffer ==
  /\ IsFiniteSet(StepActions)
  /\ \A a \in StepActions : Place(a) \in Int
  /\ \A a, b \in StepActions : Place(a) = Place(b) => a = b
<1>1. NamesDown \in Seq(StepActions)
  <2>1. NamesDown \in Seq({"safety_error", "retrieval_error", "injection_error", "granularity_error"})
    BY DEF NamesDown
  <2> QED  BY <2>1, SeqOfItself DEF StepActions
<1>2. IsFiniteSet(StepActions)  BY <1>1, FiniteContents DEF StepActions
<1>3. DOMAIN NamesDown = 1..4  BY DEF NamesDown
<1>4. ASSUME NEW a \in StepActions
      PROVE  Place(a) \in 1..4 /\ NamesDown[Place(a)] = a
  <2> DEFINE T == {n \in DOMAIN NamesDown : NamesDown[n] = a}
  <2>1. T # {}  BY DEF StepActions, ToSet
  <2>2. T \subseteq 1..4 /\ T \subseteq Int  BY <1>3
  <2>3. IsFiniteSet(1..4)
    <3>1. \A n \in Int : IsFiniteSet(1..n)  BY FS_Interval
    <3>2. 4 \in Int  OBVIOUS
    <3> QED  BY <3>1, <3>2, Zenon
  <2>4. IsFiniteSet(T)
    <3> HIDE DEF T
    <3> QED  BY <2>2, <2>3, FS_Subset
  <2>5. Min(T) \in T
    <3> HIDE DEF T
    <3> QED  BY <2>1, <2>2, <2>4, MinOfFinite
  <2>6. Place(a) = Min(T)  BY DEF Place, FirstPlace
  <2> QED  BY <2>2, <2>5, <2>6
<1> QED  BY <1>2, <1>4

\* The search ranks the scored actions: its order is total.
LEMMA RankingIsSorted ==
  ASSUME AuditInvariant
  PROVE  /\ \A x \in DOMAIN credits \ {"identity"} : credits[x] \in Int
         /\ Ranking \in Seq(DOMAIN credits \ {"identity"})
         /\ \A x \in DOMAIN credits \ {"identity"} : \E n \in 1..Len(Ranking) : Ranking[n] = x
         /\ \A m, n \in 1..Len(Ranking) : m < n =>
              credits[Ranking[m]] >= credits[Ranking[n]] /\ Ranking[m] # Ranking[n]
<1> DEFINE scored == DOMAIN credits \ {"identity"}
           better == {p \in scored \X scored :
                        \/ credits[p[1]] > credits[p[2]]
                        \/ credits[p[1]] = credits[p[2]] /\ Before(p[1], p[2])}
<1>1. scored \subseteq StepActions
  BY DEF AuditInvariant, Credited, Legal
<1>2. IsFiniteSet(scored)  BY <1>1, PlacesDiffer, FS_Subset
<1>3. \A a \in scored : credits[a] \in Int
  <2> SUFFICES ASSUME NEW a \in scored PROVE credits[a] \in Int
    OBVIOUS
  <2>1. /\ observed[a] \in Outcomes /\ observed[a] # Timeout
        /\ observed["identity"] \in Outcomes /\ observed["identity"] # Timeout
        /\ credits[a] = Score(observed[a]) - Score(observed["identity"])
    BY DEF AuditInvariant, Credited
  <2> QED  BY <2>1, ScoresAreNumbers
<1>4. \A a, b \in scored : <<a, b>> \in better <=>
        \/ credits[a] > credits[b]
        \/ credits[a] = credits[b] /\ Before(a, b)
  OBVIOUS
<1>5. \A a \in scored : Place(a) \in Int /\ \A b \in scored : Place(a) = Place(b) => a = b
  BY <1>1, PlacesDiffer
<1>6. Ranking = Ranked(scored, better)  BY DEF Ranking
<1> HIDE DEF scored, better
<1>7. \A a \in scored : ~Before(a, a)  BY <1>5 DEF Before
<1>8. \A a, b \in scored : a # b => Before(a, b) \/ Before(b, a)  BY <1>5 DEF Before
<1>9. \A a, b, c \in scored : Before(a, b) /\ Before(b, c) => Before(a, c)  BY <1>5 DEF Before
<1>10. IsTotalOrder(scored, better)
  <2>1. \A a \in scored : <<a, a>> \notin better  BY <1>3, <1>4, <1>7
  <2>2. ASSUME NEW a \in scored, NEW b \in scored, NEW c \in scored,
               <<a, b>> \in better, <<b, c>> \in better
        PROVE  <<a, c>> \in better
    <3>1. credits[a] \in Int /\ credits[b] \in Int /\ credits[c] \in Int  BY <1>3
    <3>2. credits[a] > credits[b] \/ (credits[a] = credits[b] /\ Before(a, b))  BY <1>4, <2>2
    <3>3. credits[b] > credits[c] \/ (credits[b] = credits[c] /\ Before(b, c))  BY <1>4, <2>2
    <3>4. CASE credits[a] > credits[c]  BY <1>4, <3>4
    <3>5. CASE ~(credits[a] > credits[c])
      <4>1. credits[a] = credits[c] /\ Before(a, b) /\ Before(b, c)  BY <3>1, <3>2, <3>3, <3>5
      <4> QED  BY <1>4, <1>9, <4>1
    <3> QED  BY <3>4, <3>5
  <2>3. \A a, b \in scored : a # b => <<a, b>> \in better \/ <<b, a>> \in better
    BY <1>3, <1>4, <1>8
  <2> QED  BY <2>1, <2>2, <2>3 DEF IsTotalOrder, IsStrictOrder
<1> DEFINE r == Ranked(scored, better)
<1>11. /\ r \in Seq(scored)
       /\ \A x \in scored : \E n \in 1..Len(r) : r[n] = x
       /\ \A m, n \in 1..Len(r) : m < n => <<r[m], r[n]>> \in better
       /\ \A m, n \in 1..Len(r) : r[m] = r[n] => m = n
  BY <1>2, <1>10, RankedList
<1> HIDE DEF r
<1>12. ASSUME NEW m \in 1..Len(r), NEW n \in 1..Len(r), m < n
       PROVE  credits[r[m]] >= credits[r[n]] /\ r[m] # r[n]
  <2>1. <<r[m], r[n]>> \in better /\ r[m] \in scored /\ r[n] \in scored
    BY <1>11, <1>12, ElementOfSeq
  <2>2. credits[r[m]] \in Int /\ credits[r[n]] \in Int
        /\ (credits[r[m]] > credits[r[n]] \/ credits[r[m]] = credits[r[n]])
    BY <1>3, <1>4, <2>1
  <2>3. r[m] # r[n]
    <3>1. r[m] = r[n] => m = n  BY <1>11
    <3> QED  BY <1>12, <3>1
  <2> QED  BY <2>2, <2>3
<1> QED  BY <1>3, <1>6, <1>11, <1>12 DEF r, scored

\* The ranking of a search that found a gain starts with the culprit.
LEMMA SearchIsWellRanked ==
  ASSUME AuditInvariant, Ranking # <<>>, NEW att,
         att = [source |-> "search", label |-> Ranking[1], ranking |-> Ranking, credit |-> credits]
  PROVE  WellRanked(att)
<1>1. DOMAIN credits \ {"identity"} \subseteq Labels
  BY DEF AuditInvariant, Credited, Legal, Labels
<1>2. Ranking \in Seq(Labels)  BY <1>1, RankingIsSorted, SeqMonotonic
<1> QED  BY <1>2, RankingIsSorted DEF WellRanked

\* A single label is well ranked.
LEMMA OneIsWellRanked ==
  ASSUME NEW att, att.label \in Labels, att.ranking = <<att.label>>
  PROVE  WellRanked(att)
<1>1. att.ranking \in Seq(Labels) /\ att.ranking # <<>> /\ Len(att.ranking) = 1
      /\ att.ranking[1] = att.label
  OBVIOUS
<1> QED  BY <1>1 DEF WellRanked

\* What was credited with a gain is what did better than identity.
LEMMA GainsWereMeasured ==
  ASSUME AuditInvariant, AccountingInv, attribution.source # "skill"
  PROVE  \A x : x \in DOMAIN credits \ {"identity"} /\ credits[x] > 0 <=>
                x \in Begun /\ observed[x] \in Scores /\ observed[x] > Score(observed["identity"])
<1>1. observed # <<>> =>
        /\ timed_out = {a \in DOMAIN observed : observed[a] = Timeout}
        /\ DOMAIN credits = DOMAIN observed \ timed_out
  BY DEF AccountingInv, EveryActionIsAccounted
<1>2. ASSUME NEW x, x \in DOMAIN credits \ {"identity"}, credits[x] > 0
      PROVE  x \in Begun /\ observed[x] \in Scores /\ observed[x] > Score(observed["identity"])
  <2>1. /\ x \in DOMAIN observed /\ observed[x] # Timeout /\ observed[x] \in Outcomes
        /\ observed["identity"] # Timeout /\ observed["identity"] \in Outcomes
        /\ credits[x] = Score(observed[x]) - Score(observed["identity"])
    BY <1>2 DEF AuditInvariant, Credited
  <2>2. Score(observed[x]) > Score(observed["identity"]) /\ Score(observed[x]) # 0
    BY <1>2, <2>1, ScoresAreNumbers
  <2>3. observed[x] \in Scores /\ Score(observed[x]) = observed[x]
    BY <2>1, <2>2, ScoresAreNumbers
  <2> QED  BY <1>2, <2>1, <2>2, <2>3 DEF Begun
<1>3. ASSUME NEW x, x \in Begun, observed[x] \in Scores, observed[x] > Score(observed["identity"])
      PROVE  x \in DOMAIN credits \ {"identity"} /\ credits[x] > 0
  <2>1. x \in DOMAIN observed /\ x # "identity" /\ observed # <<>>  BY <1>3, NothingIsEmpty DEF Begun
  <2>2. observed[x] # Timeout  BY <1>3, AuditRunAssumption
  <2>3. x \in DOMAIN credits  BY <1>1, <2>1, <2>2
  <2>4. /\ credits[x] = Score(observed[x]) - Score(observed["identity"])
        /\ observed["identity"] # Timeout /\ observed["identity"] \in Outcomes
        /\ observed[x] \in Outcomes
    BY <2>1, <2>3 DEF AuditInvariant, Credited
  <2>5. /\ Score(observed[x]) = observed[x] /\ observed[x] \in Nat
        /\ Score(observed["identity"]) \in Nat
    BY <1>3, <2>2, <2>4, ScoresAreNumbers
  <2> QED  BY <1>3, <2>1, <2>3, <2>4, <2>5
<1> QED  BY <1>2, <1>3

\* No credit means that nothing was measured to do better than identity.
LEMMA NoGainNoBetter ==
  ASSUME AuditInvariant, AccountingInv, attribution.source # "skill", phase = "attribute",
         ~(Ranking # <<>> /\ credits[Ranking[1]] > 0)
  PROVE  \A a \in Begun : observed[a] \in Scores => observed[a] <= Score(observed["identity"])
<1> SUFFICES ASSUME NEW a \in Begun, observed[a] \in Scores,
                    ~(observed[a] <= Score(observed["identity"]))
             PROVE  FALSE
  OBVIOUS
<1>1. a \in DOMAIN observed /\ observed # <<>> /\ a # "identity"  BY NothingIsEmpty DEF Begun
<1>2. observed[a] # Timeout  BY AuditRunAssumption
<1>3. a \in DOMAIN credits
  BY <1>1, <1>2 DEF AccountingInv, EveryActionIsAccounted
<1>4. observed["identity"] \in Outcomes /\ observed["identity"] # Timeout
  BY <1>3 DEF AuditInvariant, Credited
<1>5. Score(observed["identity"]) \in Nat /\ observed[a] \in Nat
  BY <1>4, ScoresAreNumbers, AuditRunAssumption
<1>6. observed[a] > Score(observed["identity"])  BY <1>5
<1>7. credits[a] > 0  BY <1>6, GainsWereMeasured
<1>8. PICK n \in 1..Len(Ranking) : Ranking[n] = a  BY <1>1, <1>3, RankingIsSorted
<1>9. Ranking # <<>> /\ Len(Ranking) \in Nat  BY <1>8, EmptySeq, RankingIsSorted, LenProperties
<1>10. n = 1 \/ (1 \in 1..Len(Ranking) /\ 1 < n)  BY <1>9
<1>11. credits[Ranking[1]] >= credits[a] /\ credits[a] \in Int /\ credits[Ranking[1]] \in Int
  <2>0. credits[a] \in Int  BY <1>1, <1>3, RankingIsSorted
  <2>3. credits[Ranking[1]] \in Int
    <3>1. 1 \in 1..Len(Ranking)  BY <1>9, EmptySeq, <1>10
    <3>2. Ranking[1] \in DOMAIN credits \ {"identity"}  BY <3>1, RankingIsSorted, ElementOfSeq
    <3> QED  BY <3>2, RankingIsSorted
  <2>1. CASE n = 1  BY <1>8, <2>0, <2>1
  <2>2. CASE n # 1  BY <1>8, <1>10, <2>2, RankingIsSorted
  <2> QED  BY <2>0, <2>1, <2>2, <2>3
<1> QED  BY <1>7, <1>9, <1>11

-----------------------------------------------------------------------------
(* Steps.                                                                  *)

Tried(s) == [i \in DOMAIN s |-> s[i].label]

LEMMA TriedLabels ==
  ASSUME NEW s \in Seq(Attempts)
  PROVE  /\ Tried(s) \in Seq(Labels) /\ Len(Tried(s)) = Len(s)
         /\ \A i \in 1..Len(s) : Tried(s)[i] = s[i].label
<1>1. Len(s) \in Nat /\ DOMAIN s = 1..Len(s) /\ s \in [1..Len(s) -> Attempts]
  BY LenProperties
<1>2. \A i \in 1..Len(s) : s[i].label \in Labels  BY <1>1 DEF Attempts
<1>3. Tried(s) \in [1..Len(s) -> Labels]  BY <1>1, <1>2 DEF Tried
<1>4. Tried(s) \in Seq(Labels)  BY <1>1, <1>3, SeqDef
<1>5. DOMAIN Tried(s) = 1..Len(s)  BY <1>1 DEF Tried
<1>6. Len(Tried(s)) = Len(s)  BY <1>1, <1>5
<1> QED  BY <1>1, <1>4, <1>6 DEF Tried

LEMMA TriedAppend ==
  ASSUME NEW s \in Seq(Attempts), NEW e \in Attempts
  PROVE  Tried(Append(s, e)) = Append(Tried(s), e.label)
<1> DEFINE t == Append(s, e)
           u == Append(Tried(s), e.label)
<1>1. /\ t \in Seq(Attempts) /\ Len(t) = Len(s) + 1 /\ t[Len(s) + 1] = e
      /\ \A i \in 1..Len(s) : t[i] = s[i]
  BY AppendProperties
<1>2. e.label \in Labels  BY DEF Attempts
<1>3. Tried(s) \in Seq(Labels) /\ Len(Tried(s)) = Len(s)
      /\ \A i \in 1..Len(s) : Tried(s)[i] = s[i].label
  BY TriedLabels
<1>4. /\ u \in Seq(Labels) /\ Len(u) = Len(s) + 1 /\ u[Len(s) + 1] = e.label
      /\ \A i \in 1..Len(s) : u[i] = Tried(s)[i]
  BY <1>2, <1>3, AppendProperties
<1> HIDE DEF t, u
<1>5. /\ Tried(t) \in Seq(Labels) /\ Len(Tried(t)) = Len(t)
      /\ \A i \in 1..Len(t) : Tried(t)[i] = t[i].label
  BY <1>1, TriedLabels
<1>6. Len(s) \in Nat  BY LenProperties
<1>7. \A i \in 1..Len(Tried(t)) : Tried(t)[i] = u[i]
  <2> SUFFICES ASSUME NEW i \in 1..Len(Tried(t)) PROVE Tried(t)[i] = u[i]
    OBVIOUS
  <2>1. i \in 1..Len(s) \/ i = Len(s) + 1  BY <1>1, <1>5, <1>6
  <2> QED  BY <1>1, <1>3, <1>4, <1>5, <2>1
<1>8. Tried(t) = u  BY <1>1, <1>4, <1>5, <1>7, SeqEqual
<1> QED  BY <1>8 DEF t, u

\* What RepairsFollowTheCredits asks of the labels tried and left.
Follows(order) ==
  /\ order[1] = attribution.label /\ IsInjective(order)
  /\ \A i, j \in DOMAIN order : i < j =>
       attribution.credit[order[i]] >= attribution.credit[order[j]]
  /\ attribution.source = "search" =>
       ToSet(order) = {a \in Begun : observed[a] \in Scores
                                      /\ observed[a] > Score(observed["identity"])}

LEMMA RepairsFollowIf ==
  RepairsFollowTheCredits <=>
    (phase \in {"repair", "report"} /\ attribution # NoAttribution /\ config.adapter # "none" =>
       /\ Follows(Tried(attempts) \o to_try)
       /\ \A i \in DOMAIN attempts : attempts[i].assessment = "recovered" =>
            i = Len(attempts) /\ phase = "report"
       /\ phase = "report" => to_try = <<>> \/ Last(attempts).assessment = "recovered")
BY DEF RepairsFollowTheCredits, Follows, Tried

\* What an attribution leaves to try follows its credits.
LEMMA ConcludeFollows ==
  ASSUME AuditInvariant, phase \in Undecided, NEW att, Conclude(att), config' = config,
         att = NoAttribution \/ WellRanked(att),
         att.source = "search" => \A x :
           (\E i \in 1..Len(att.ranking) :
              att.ranking[i] = x /\ (x = att.label \/ att.credit[x] > 0))
           <=> x \in Begun' /\ observed'[x] \in Scores /\ observed'[x] > Score(observed'["identity"])
  PROVE  /\ RepairsFollowTheCredits'
         /\ attempts' \in Seq(Attempts) /\ to_try' \in Seq(Labels)
         /\ phase' \in {"repair", "report"}
         /\ phase' = "repair" =>
              to_try' # <<>> /\ config'.adapter # "none" /\ attribution' # NoAttribution
<1>1. attempts = <<>> /\ to_try = <<>>  BY DEF AuditInvariant
<1>2. attempts' = <<>> /\ attempts' \in Seq(Attempts) /\ attribution' = att
  BY <1>1, EmptySeq DEF Conclude
<1>3. CASE config.adapter # "none" /\ att # NoAttribution
  <2>1. phase' = "repair" /\ to_try' = LabelsToTry(att)  BY <1>3 DEF Conclude
  <2>2. WellRanked(att)  BY <1>3
  <2> DEFINE s == LabelsToTry(att)
  <2>3. /\ s \in Seq(Labels) /\ s # <<>> /\ s[1] = att.label
        /\ \A i, j \in 1..Len(s) : i < j =>
             att.credit[s[i]] >= att.credit[s[j]] /\ s[i] # s[j]
        /\ \A x : (\E n \in 1..Len(s) : s[n] = x) <=>
             \E i \in 1..Len(att.ranking) :
               att.ranking[i] = x /\ (x = att.label \/ att.credit[x] > 0)
    BY <2>2, LabelsInOrder
  <2> HIDE DEF s
  <2>4. Tried(attempts') \o s = s
    <3>1. Tried(attempts') \in Seq(Labels) /\ Len(Tried(attempts')) = Len(attempts')
      BY <1>2, TriedLabels
    <3>2. Len(attempts') = 0  BY <1>2, EmptySeq
    <3>3. Tried(attempts') = <<>>  BY <3>1, <3>2, EmptySeq
    <3> QED  BY <2>3, <3>3, ConcatEmptySeq
  <2>5. Len(s) \in Nat /\ DOMAIN s = 1..Len(s)  BY <2>3, LenProperties
  <2>6. IsInjective(s)
    <3> SUFFICES ASSUME NEW i \in 1..Len(s), NEW j \in 1..Len(s), s[i] = s[j] PROVE i = j
      BY <2>5 DEF IsInjective
    <3>1. i < j \/ j < i \/ i = j  OBVIOUS
    <3> QED  BY <2>3, <3>1
  <2>7. att.source = "search" =>
          ToSet(s) = {a \in Begun' : observed'[a] \in Scores
                                      /\ observed'[a] > Score(observed'["identity"])}
    <3> SUFFICES ASSUME att.source = "search", NEW x
                 PROVE  x \in ToSet(s) <=>
                          x \in Begun' /\ observed'[x] \in Scores
                            /\ observed'[x] > Score(observed'["identity"])
      OBVIOUS
    <3>1. x \in ToSet(s) <=> \E n \in 1..Len(s) : s[n] = x  BY <2>5 DEF ToSet
    <3> QED  BY <2>3, <3>1
  <2>8. \A i, j \in DOMAIN s : i < j => att.credit[s[i]] >= att.credit[s[j]]
    BY <2>3, <2>5
  <2>9. Follows(s)'
    <3>1. s' = s  BY DEF s, LabelsToTry
    <3> QED  BY <1>2, <2>3, <2>6, <2>7, <2>8, <3>1 DEF Follows
  <2>10. Follows(Tried(attempts) \o to_try)'
    <3>1. (Tried(attempts) \o to_try)' = s'  BY <2>1, <2>4 DEF Tried, s, LabelsToTry
    <3> QED  BY <2>9, <3>1 DEF Follows
  <2>11. DOMAIN attempts' = {}  BY <1>2
  <2>12. RepairsFollowTheCredits'
    BY <2>1, <2>10, <2>11 DEF RepairsFollowTheCredits, Follows, Tried
  <2> QED  BY <1>2, <1>3, <2>1, <2>3, <2>12 DEF s
<1>4. CASE ~(config.adapter # "none" /\ att # NoAttribution)
  <2>1. phase' = "report" /\ to_try' = <<>>  BY <1>1, <1>4 DEF Conclude
  <2>2. RepairsFollowTheCredits'  BY <1>2, <1>4 DEF RepairsFollowTheCredits
  <2> QED  BY <1>2, <2>1, <2>2, EmptySeq
<1> QED  BY <1>3, <1>4

\* What does not touch a case's results leaves the invariant as it was.
LEMMA ResultsStay ==
  ASSUME AuditInvariant,
         UNCHANGED <<config, case, records, credits, observed, attribution, to_try, attempts>>,
         phase' \in Undecided => phase \in Undecided,
         phase' = "repair" => phase = "repair",
         phase' = "report" => phase = "report" \/ attribution = NoAttribution
  PROVE  AuditInvariant'
<1>1. Begun' = Begun  BY DEF Begun
<1>2. AttributionIsFounded'  BY <1>1 DEF AuditInvariant, AttributionIsFounded
<1>3. RepairsFollowTheCredits'
  BY <1>1 DEF AuditInvariant, RepairsFollowTheCredits
<1>4. Credited'  BY DEF AuditInvariant, Credited
<1> QED  BY <1>2, <1>3, <1>4 DEF AuditInvariant

\* While nothing is attributed there is nothing to follow.
LEMMA NothingAttributed ==
  ASSUME attribution' = NoAttribution
  PROVE  AttributionIsFounded' /\ RepairsFollowTheCredits'
BY DEF AttributionIsFounded, RepairsFollowTheCredits, NoAttribution

\* The gap of the trace is one label, for which nothing was measured.
LEMMA GapIsWellRanked ==
  ASSUME NEW c \in 1..N, NEW att, att = GapAttribution(c)
  PROVE  /\ att = NoAttribution \/ WellRanked(att)
         /\ att.source \in {"none", "gap"}
<1>1. CASE StructuralGap[c] = None
  BY <1>1 DEF GapAttribution, NoAttribution
<1>2. CASE StructuralGap[c] # None
  <2>1. /\ att.source = "gap" /\ att.label = StructuralGap[c]
        /\ att.ranking = <<StructuralGap[c]>>
    BY <1>2 DEF GapAttribution
  <2>2. att.label \in Labels  BY <2>1 DEF Labels
  <2>3. WellRanked(att)  BY <2>1, <2>2, OneIsWellRanked
  <2> QED  BY <2>1, <2>3
<1> QED  BY <1>1, <1>2

LEMMA StartsUnaudited == Init => AuditInvariant
<1> SUFFICES ASSUME Init PROVE AuditInvariant
  OBVIOUS
<1>1. /\ case = 1 /\ phase = "hook" /\ records = <<>> /\ credits = <<>> /\ observed = <<>>
      /\ attribution = NoAttribution /\ to_try = <<>> /\ attempts = <<>>
  BY DEF Init
<1>2. /\ records \in Seq(Learned) /\ attempts \in Seq(Attempts) /\ to_try \in Seq(Labels)
      /\ Len(records) = 0
  BY <1>1, EmptySeq
<1>3. case \in 1..N  BY <1>1, AuditRunAssumption
<1>4. AttributionIsFounded /\ RepairsFollowTheCredits
  BY <1>1 DEF AttributionIsFounded, RepairsFollowTheCredits, NoAttribution
<1>5. Credited  BY <1>1 DEF Credited
<1>6. \A i \in 1..Len(records) : FALSE  BY <1>2
<1>7. DOMAIN observed = {}  BY <1>1
<1> QED  BY <1>1, <1>2, <1>3, <1>4, <1>5, <1>6, <1>7 DEF AuditInvariant

LEMMA IdentityStep ==
  ASSUME AuditInvariant, AccountingInv, MeasureIdentity
  PROVE  AuditInvariant'
<1>1. PICK outcome \in Outcomes :
        /\ observed' = [x \in {"identity"} |-> outcome]
        /\ IF IsNaN(Score(outcome))
           THEN credits' = credits /\ phase' = "attribute"
           ELSE credits' = [x \in {"identity"} |-> 0] /\ phase' = "measure"
  BY DEF MeasureIdentity
<1>2. /\ phase = "search" /\ UNCHANGED <<config, case, records, attribution, repair>>
  BY DEF MeasureIdentity
<1>3. attribution = NoAttribution /\ credits = <<>>
  BY <1>2 DEF AccountingInv, Accounting
<1>4. phase \in Undecided /\ phase' \in Undecided /\ phase' # "repair"
  BY <1>1, <1>2 DEF Undecided
<1>5. AttributionIsFounded' /\ RepairsFollowTheCredits'  BY <1>2, <1>3, NothingAttributed
<1>6. Credited'
  <2>1. CASE IsNaN(Score(outcome))
    <3>1. DOMAIN credits' = {}  BY <1>1, <1>3, <2>1
    <3> QED  BY <3>1 DEF Credited
  <2>2. CASE ~IsNaN(Score(outcome))
    <3>1. credits' = [x \in {"identity"} |-> 0] /\ outcome # Timeout
      BY <1>1, <2>2, OnlyTimeoutsAreNaN
    <3>2. Score(outcome) \in Nat  BY <3>1, ScoresAreNumbers
    <3>3. Score(outcome) - Score(outcome) = 0  BY <3>2
    <3>4. /\ DOMAIN credits' = {"identity"} /\ credits'["identity"] = 0
          /\ DOMAIN observed' = {"identity"} /\ observed'["identity"] = outcome
      BY <1>1, <3>1
    <3> QED  BY <3>1, <3>3, <3>4 DEF Credited
  <2> QED  BY <2>1, <2>2
<1>7. \A x \in DOMAIN observed' : observed'[x] \in Outcomes  BY <1>1
<1> QED  BY <1>2, <1>4, <1>5, <1>6, <1>7 DEF AuditInvariant, repair

LEMMA MeasureStep ==
  ASSUME AuditInvariant, AccountingInv, MeasureNext
  PROVE  AuditInvariant'
<1>1. PICK a \in pending, outcome \in Outcomes :
        /\ observed' = [x \in DOMAIN observed \cup {a} |-> IF x = a THEN outcome ELSE observed[x]]
        /\ IF IsNaN(Score(outcome)) THEN credits' = credits
           ELSE credits' = [x \in DOMAIN credits \cup {a} |->
                              IF x = a THEN Score(outcome) - Score(observed["identity"])
                              ELSE credits[x]]
  BY DEF MeasureNext
<1>2. phase = "measure" /\ UNCHANGED <<config, case, phase, records, attribution, repair>>
  BY DEF MeasureNext
<1>3. attribution = NoAttribution /\ "identity" \in DOMAIN observed /\ observed["identity"] # Timeout
  BY <1>2 DEF AccountingInv, Accounting
<1>4. AttributionIsFounded' /\ RepairsFollowTheCredits'  BY <1>2, <1>3, NothingAttributed
<1>5. a \in Legal(case) /\ a \notin Begun /\ a # "identity"
  BY <1>2, LegalActions DEF AccountingInv, EveryActionIsAccounted
<1>6. a \notin DOMAIN observed  BY <1>5 DEF Begun
<1>7. /\ DOMAIN observed' = DOMAIN observed \cup {a} /\ observed'[a] = outcome
      /\ \A x \in DOMAIN observed : observed'[x] = observed[x]
  BY <1>1, <1>6
<1>8. a \notin DOMAIN credits  BY <1>6 DEF AuditInvariant, Credited
<1>9. Credited'
  <2>1. CASE IsNaN(Score(outcome))
    BY <1>1, <1>2, <1>3, <1>7, <2>1 DEF AuditInvariant, Credited
  <2>2. CASE ~IsNaN(Score(outcome))
    <3>1. outcome # Timeout  BY <2>2, OnlyTimeoutsAreNaN
    <3>2. /\ DOMAIN credits' = DOMAIN credits \cup {a}
          /\ credits'[a] = Score(outcome) - Score(observed["identity"])
          /\ \A x \in DOMAIN credits : credits'[x] = credits[x]
      BY <1>1, <1>8, <2>2
    <3>3. observed'["identity"] = observed["identity"]  BY <1>3, <1>7
    <3> QED  BY <1>2, <1>3, <1>5, <1>7, <3>1, <3>2, <3>3 DEF AuditInvariant, Credited
  <2> QED  BY <2>1, <2>2
<1>10. \A x \in DOMAIN observed' : observed'[x] \in Outcomes  BY <1>7 DEF AuditInvariant
<1> QED  BY <1>2, <1>4, <1>9, <1>10 DEF AuditInvariant, repair, Undecided

LEMMA LearnStep ==
  ASSUME AuditInvariant, AccountingInv, Attribute, Ranking # <<>> /\ credits[Ranking[1]] > 0
  PROVE  AuditInvariant'
<1> DEFINE att == [source |-> "search", label |-> Ranking[1], ranking |-> Ranking, credit |-> credits]
           learned == [case |-> case, key |-> Key(case), label |-> Ranking[1]]
           label == Ranking[1]
<1>1. /\ phase = "attribute" /\ records' = Append(records, learned) /\ Conclude(att)
      /\ UNCHANGED <<config, case, search>>
  BY DEF Attribute
<1>2. /\ attribution = NoAttribution /\ attribution.source # "skill"
  BY <1>1 DEF AccountingInv, Accounting, NoAttribution
<1>3. /\ Ranking \in Seq(DOMAIN credits \ {"identity"}) /\ 1 \in 1..Len(Ranking)
  BY RankingIsSorted, EmptySeq, LenProperties
<1>4. label \in DOMAIN credits \ {"identity"}  BY <1>3, ElementOfSeq
<1>5. label \in StepActions /\ case \in 1..N
  BY <1>4 DEF AuditInvariant, Credited, Legal
<1>6. /\ att.source = "search" /\ att.label = label /\ att.ranking = Ranking /\ att.credit = credits
      /\ WellRanked(att)
  BY SearchIsWellRanked
<1>7. learned \in Learned /\ learned.case = case  BY <1>5 DEF Learned
<1>8. Begun' = Begun /\ observed' = observed /\ credits' = credits  BY <1>1 DEF Begun, search
<1>9. attribution' = att  BY <1>1 DEF Conclude
<1>10. \A x : (\E i \in 1..Len(Ranking) : Ranking[i] = x /\ (x = label \/ credits[x] > 0))
              <=> x \in Begun /\ observed[x] \in Scores /\ observed[x] > Score(observed["identity"])
  <2>1. credits[label] > 0  OBVIOUS
  <2>2. \A x : (\E i \in 1..Len(Ranking) : Ranking[i] = x) <=> x \in DOMAIN credits \ {"identity"}
    BY RankingIsSorted, ElementOfSeq
  <2> HIDE DEF label
  <2> QED  BY <1>2, <2>1, <2>2, GainsWereMeasured
<1> HIDE DEF att, learned
<1>11. phase \in Undecided  BY <1>1 DEF Undecided
<1>12. /\ RepairsFollowTheCredits'
       /\ attempts' \in Seq(Attempts) /\ to_try' \in Seq(Labels)
       /\ phase' \in {"repair", "report"}
       /\ phase' = "repair" =>
            to_try' # <<>> /\ config'.adapter # "none" /\ attribution' # NoAttribution
  <2>1. config' = config  BY <1>1
  <2>2. \A x : (\E i \in 1..Len(att.ranking) :
                  att.ranking[i] = x /\ (x = att.label \/ att.credit[x] > 0))
               <=> x \in Begun' /\ observed'[x] \in Scores /\ observed'[x] > Score(observed'["identity"])
    BY <1>6, <1>8, <1>10
  <2> QED  BY <1>1, <1>6, <1>11, <2>1, <2>2, ConcludeFollows
<1>13. /\ records' \in Seq(Learned) /\ Len(records') = Len(records) + 1
       /\ records'[Len(records) + 1] = learned
       /\ \A i \in 1..Len(records) : records'[i] = records[i]
  BY <1>1, <1>7, AppendProperties DEF AuditInvariant
<1>14. Len(records) \in Nat  BY LenProperties DEF AuditInvariant
<1>15. \A i \in 1..Len(records') : records'[i].case <= case
  <2> SUFFICES ASSUME NEW i \in 1..Len(records') PROVE records'[i].case <= case
    OBVIOUS
  <2>1. i \in 1..Len(records) \/ i = Len(records) + 1  BY <1>13, <1>14
  <2> QED  BY <1>5, <1>7, <1>13, <2>1 DEF AuditInvariant
<1>16. /\ observed[label] \in Scores /\ observed[label] > Score(observed["identity"])
  BY <1>2, <1>4, GainsWereMeasured
<1>17. ASSUME NEW a \in Begun, observed[a] \in Scores
       PROVE  observed[a] <= observed[label]
  <2>1. /\ credits[label] = Score(observed[label]) - Score(observed["identity"])
        /\ observed["identity"] \in Outcomes /\ observed["identity"] # Timeout
    BY <1>4 DEF AuditInvariant, Credited
  <2>2. /\ Score(observed["identity"]) \in Nat
        /\ observed[label] \in Nat /\ Score(observed[label]) = observed[label]
        /\ observed[a] \in Nat /\ Score(observed[a]) = observed[a]
    BY <1>16, <1>17, <2>1, ScoresAreNumbers, AuditRunAssumption DEF Score
  <2>3. CASE observed[a] > Score(observed["identity"])
    <3>1. a \in DOMAIN credits \ {"identity"}  BY <1>2, <1>17, <2>3, GainsWereMeasured
    <3>2. credits[a] = observed[a] - Score(observed["identity"])
      BY <2>2, <3>1 DEF AuditInvariant, Credited
    <3>3. PICK n \in 1..Len(Ranking) : Ranking[n] = a  BY <3>1, RankingIsSorted
    <3>4. n = 1 \/ 1 < n  BY <1>3
    <3>5. credits[label] \in Int /\ credits[label] >= credits[a]
      <4>1. credits[label] \in Int  BY <2>1, <2>2
      <4>2. CASE n = 1  BY <3>3, <4>1, <4>2
      <4>3. CASE 1 < n  BY <1>3, <3>3, <4>1, <4>3, RankingIsSorted
      <4> QED  BY <3>4, <4>1, <4>2, <4>3
    <3> QED  BY <2>1, <2>2, <3>2, <3>5
  <2>4. CASE ~(observed[a] > Score(observed["identity"]))
    BY <1>16, <2>2, <2>4
  <2> QED  BY <2>3, <2>4
<1>18. Last(records') = learned  BY <1>13 DEF Last
<1>19. AttributionIsFounded'
  BY <1>1, <1>6, <1>8, <1>9, <1>16, <1>17, <1>18 DEF AttributionIsFounded, learned
<1>20. Credited'  BY <1>1, <1>8 DEF AuditInvariant, Credited
<1>21. phase' \notin Undecided  BY <1>12 DEF Undecided
<1> QED
  BY <1>1, <1>8, <1>12, <1>13, <1>15, <1>19, <1>20, <1>21 DEF AuditInvariant

\* Without a gain the gap of the trace is attributed, if there is one.
LEMMA GapStep ==
  ASSUME AuditInvariant, phase \in Undecided, Conclude(GapAttribution(case)),
         UNCHANGED <<config, case, records, search>>,
         \A a \in Begun : observed[a] \in Scores => observed[a] <= Score(observed["identity"])
  PROVE  AuditInvariant'
<1> DEFINE att == GapAttribution(case)
<1>1. Conclude(att) /\ attribution' = att  BY DEF Conclude
<1>2. (att = NoAttribution \/ WellRanked(att)) /\ att.source \in {"none", "gap"}
  BY GapIsWellRanked DEF AuditInvariant
<1> HIDE DEF att
<1>3. Begun' = Begun /\ observed' = observed /\ credits' = credits  BY DEF Begun, search
<1>4. /\ RepairsFollowTheCredits'
      /\ attempts' \in Seq(Attempts) /\ to_try' \in Seq(Labels)
      /\ phase' \in {"repair", "report"}
      /\ phase' = "repair" =>
           to_try' # <<>> /\ config'.adapter # "none" /\ attribution' # NoAttribution
  <2>1. att.source # "search"  BY <1>2
  <2> QED  BY <1>1, <1>2, <2>1, ConcludeFollows
<1>5. AttributionIsFounded'
  BY <1>1, <1>2, <1>3 DEF AttributionIsFounded
<1>6. Credited'  BY <1>3 DEF AuditInvariant, Credited
<1>7. phase' \notin Undecided  BY <1>4 DEF Undecided
<1> QED  BY <1>3, <1>4, <1>5, <1>6, <1>7 DEF AuditInvariant

LEMMA AttributeStep ==
  ASSUME AuditInvariant, AccountingInv, Attribute
  PROVE  AuditInvariant'
<1>1. phase = "attribute" /\ phase \in Undecided  BY DEF Attribute, Undecided
<1>2. CASE Ranking # <<>> /\ credits[Ranking[1]] > 0
  BY <1>2, LearnStep
<1>3. CASE ~(Ranking # <<>> /\ credits[Ranking[1]] > 0)
  <2>1. Conclude(GapAttribution(case)) /\ UNCHANGED <<config, case, records, search>>
    BY <1>3 DEF Attribute
  <2>2. attribution.source # "skill"
    BY <1>1 DEF AccountingInv, Accounting, NoAttribution
  <2> QED  BY <1>1, <1>3, <2>1, <2>2, NoGainNoBetter, GapStep
<1> QED  BY <1>2, <1>3

LEMMA HookStep ==
  ASSUME AuditInvariant, AccountingInv, Hook
  PROVE  AuditInvariant'
<1>1. /\ phase = "hook" /\ UNCHANGED <<config, case, records, search>>
      /\ attribution = NoAttribution /\ observed = <<>>
  BY DEF Hook, AccountingInv, Accounting
<1>2. phase \in Undecided  BY <1>1 DEF Undecided
<1>3. CASE phase' \in {"report", "reuse"} /\ UNCHANGED <<attribution, repair>>
  BY <1>1, <1>2, <1>3, ResultsStay DEF search, repair, Undecided
<1>4. CASE Conclude(GapAttribution(case))
  <2>1. Begun = {}  BY <1>1, NothingIsEmpty DEF Begun
  <2> QED  BY <1>1, <1>2, <1>4, <2>1, GapStep
<1> QED  BY <1>3, <1>4 DEF Hook

\* An operator that is reused recovered an earlier case with a similar memory.
LEMMA ReusedWasLearned ==
  ASSUME AuditInvariant, phase \in Undecided
  PROVE  /\ ReusableOperators(case) \in Seq(StepActions)
         /\ \A a \in ToSet(ReusableOperators(case)) : \E i \in 1..Len(records) :
              /\ records[i].label = a /\ records[i].case < case
              /\ Related(records[i].key, Key(case))
<1> DEFINE keys == [i \in DOMAIN records |-> records[i].key]
           near == MostSimilar(keys, Key(case), 6)
           found == [i \in DOMAIN near |-> records[near[i]].label]
           similar == {i \in 1..Len(records) : Related(keys[i], Key(case))}
           taught == {records[i].label : i \in similar}
<1>1. /\ Len(records) \in Nat /\ DOMAIN records = 1..Len(records)
      /\ \A i \in 1..Len(records) : records[i] \in Learned
  BY LenProperties DEF AuditInvariant
<1>2. \A i \in 1..Len(records) : IsFiniteSet(keys[i])  BY <1>1, KeysAreFinite DEF Learned
<1>3. DOMAIN keys = 1..Len(records)  BY <1>1
<1>4. IsFiniteSet(Key(case))  BY KeysAreFinite DEF AuditInvariant
<1> HIDE DEF keys
<1>5. near \in Seq(similar)
  <2>1. 6 \in Nat  OBVIOUS
  <2> QED  BY <1>1, <1>2, <1>3, <1>4, <2>1, SimilarPlaces
<1> HIDE DEF near, similar
<1>6. /\ Len(near) \in Nat /\ DOMAIN near = 1..Len(near)
      /\ \A i \in 1..Len(near) : near[i] \in similar
  BY <1>5, LenProperties
<1>7. found \in Seq(taught)
  <2>1. \A i \in 1..Len(near) : records[near[i]].label \in taught  BY <1>6
  <2>2. found \in [1..Len(near) -> taught]  BY <1>6, <2>1
  <2> QED  BY <1>6, <2>2, SeqDef
<1>8. ReusableOperators(case) = FirstDistinct(found, 2)
  BY DEF ReusableOperators, near, keys
<1> HIDE DEF found
<1>9. ReusableOperators(case) \in Seq(taught)
  <2>1. 2 \in Nat  OBVIOUS
  <2> HIDE DEF taught
  <2> QED  BY <1>7, <1>8, <2>1, FirstDistinctIsOf
<1>10. \A i \in similar : /\ i \in 1..Len(records) /\ Related(records[i].key, Key(case))
                          /\ records[i].label \in StepActions /\ records[i].case < case
  BY <1>1 DEF similar, keys, AuditInvariant, Learned
<1>11. taught \subseteq StepActions  BY <1>10
<1>12. ToSet(ReusableOperators(case)) \subseteq taught
  <2> HIDE DEF taught
  <2> QED  BY <1>9, FiniteContents
<1>13. ReusableOperators(case) \in Seq(StepActions)
  <2> HIDE DEF taught
  <2> QED  BY <1>9, <1>11, SeqMonotonic
<1> QED  BY <1>10, <1>12, <1>13

\* Of the improving operators one comes first.
LEMMA FirstImproving ==
  ASSUME NEW S, NEW specs \in Seq(S), NEW T, T \subseteq ToSet(specs), T # {}
  PROVE  \E x \in T : \A y \in T : FirstPlace(specs, x) <= FirstPlace(specs, y)
<1>1. Len(specs) \in Nat /\ DOMAIN specs = 1..Len(specs)  BY LenProperties
<1>2. \A x \in T : FirstPlace(specs, x) \in 1..Len(specs)
  <2> SUFFICES ASSUME NEW x \in T PROVE FirstPlace(specs, x) \in 1..Len(specs)
    OBVIOUS
  <2> DEFINE P == {n \in DOMAIN specs : specs[n] = x}
  <2>1. P # {} /\ P \subseteq 1..Len(specs) /\ P \subseteq Int  BY <1>1 DEF ToSet
  <2>2. FirstPlace(specs, x) = Min(P)  BY DEF FirstPlace
  <2>3. IsFiniteSet(1..Len(specs))  BY <1>1, FS_Interval
  <2> HIDE DEF P
  <2>4. IsFiniteSet(P)  BY <2>1, <2>3, FS_Subset
  <2>5. Min(P) \in P  BY <2>1, <2>4, MinOfFinite
  <2> QED  BY <2>1, <2>2, <2>5
<1> DEFINE F == {FirstPlace(specs, x) : x \in T}
<1>3. F # {} /\ F \subseteq Nat  BY <1>1, <1>2
<1>4. \E m \in F : \A n \in F : m <= n
  <2> HIDE DEF F
  <2> QED  BY <1>3, LeastElement
<1> QED  BY <1>4

LEMMA ReuseStep ==
  ASSUME AuditInvariant, AccountingInv, Reuse
  PROVE  AuditInvariant'
<1>1. /\ phase = "reuse" /\ attribution = NoAttribution
      /\ UNCHANGED <<config, case, records, credits>> /\ credits = <<>>
  BY DEF Reuse, AccountingInv, Accounting
<1>2. phase \in Undecided  BY <1>1 DEF Undecided
<1> DEFINE specs == ReusableOperators(case)
           First(tried) == CHOOSE x \in Improving(tried) :
             \A y \in Improving(tried) : FirstPlace(specs, x) <= FirstPlace(specs, y)
<1>3. CASE phase' = "search" /\ UNCHANGED <<observed, attribution, repair>>
  BY <1>1, <1>2, <1>3, ResultsStay DEF repair, Undecided
<1>4. ASSUME NEW tried \in [ToSet(specs) \cup {"identity"} -> Outcomes], Improving(tried) # {},
             NEW a, a = First(tried),
             observed' = tried,
             NEW att, att = [source |-> "skill", label |-> a, ranking |-> <<a>>,
                             credit |-> [x \in {a} |-> tried[a] - Score(tried["identity"])]],
             Conclude(att)
      PROVE  AuditInvariant'
  <2>1. /\ tried["identity"] \in Scores
        /\ \A x \in Improving(tried) :
             /\ x \in ToSet(specs) /\ tried[x] \in Scores /\ tried[x] - tried["identity"] > 0
    BY <1>4 DEF Improving
  <2>2. /\ specs \in Seq(StepActions)
        /\ \A x \in ToSet(specs) : \E i \in 1..Len(records) :
             /\ records[i].label = x /\ records[i].case < case
             /\ Related(records[i].key, Key(case))
    BY <1>2, ReusedWasLearned
  <2> HIDE DEF specs
  <2>3. Improving(tried) \subseteq ToSet(specs)  BY <2>1
  <2>4. \E x \in Improving(tried) :
          \A y \in Improving(tried) : FirstPlace(specs, x) <= FirstPlace(specs, y)
    BY <1>4, <2>2, <2>3, FirstImproving
  <2>5. a \in Improving(tried)  BY <1>4, <2>4
  <2>6. /\ tried[a] \in Scores /\ tried["identity"] \in Scores /\ tried[a] > tried["identity"]
        /\ a \in ToSet(specs)
    <3>1. tried[a] \in Nat /\ tried["identity"] \in Nat  BY <2>1, <2>5, AuditRunAssumption
    <3> QED  BY <2>1, <2>5, <3>1
  <2>7. a \in Labels
    <3>1. ToSet(specs) \subseteq StepActions  BY <2>2, FiniteContents
    <3> QED  BY <2>6, <3>1 DEF Labels
  <2>8. /\ att.source = "skill" /\ att.label = a /\ att.ranking = <<a>>
    BY <1>4
  <2>9. WellRanked(att)  BY <2>7, <2>8, OneIsWellRanked
  <2>10. attribution' = att  BY <1>4 DEF Conclude
  <2>11. /\ RepairsFollowTheCredits'
         /\ attempts' \in Seq(Attempts) /\ to_try' \in Seq(Labels)
         /\ phase' \in {"repair", "report"}
         /\ phase' = "repair" =>
              to_try' # <<>> /\ config'.adapter # "none" /\ attribution' # NoAttribution
    <3>1. att.source # "search" /\ config' = config  BY <1>1, <2>8
    <3> QED  BY <1>2, <1>4, <2>9, <3>1, ConcludeFollows
  <2>12. AttributionIsFounded'
    <3>1. PICK i \in 1..Len(records) : /\ records[i].label = a /\ records[i].case < case
                                       /\ Related(records[i].key, Key(case))
      BY <2>2, <2>6
    <3>2. i \in DOMAIN records  BY <3>1, LenProperties DEF AuditInvariant
    <3> QED  BY <1>1, <1>4, <2>6, <2>8, <2>10, <3>1, <3>2 DEF AttributionIsFounded
  <2>13. Credited'
    <3>1. DOMAIN credits' = {}  BY <1>1
    <3> QED  BY <3>1 DEF Credited
  <2>14. \A x \in DOMAIN observed' : observed'[x] \in Outcomes  BY <1>4
  <2>15. phase' \notin Undecided  BY <2>11 DEF Undecided
  <2> QED  BY <1>1, <2>11, <2>12, <2>13, <2>14, <2>15 DEF AuditInvariant
<1>5. \/ phase' = "search" /\ UNCHANGED <<observed, attribution, repair>>
      \/ \E tried \in [ToSet(specs) \cup {"identity"} -> Outcomes] :
           /\ Improving(tried) # {}
           /\ observed' = tried
           /\ Conclude([source |-> "skill", label |-> First(tried), ranking |-> <<First(tried)>>,
                        credit |-> [x \in {First(tried)} |->
                                      tried[First(tried)] - Score(tried["identity"])]])
  <2>1. CASE specs = <<>>  BY <2>1 DEF Reuse
  <2>2. CASE specs # <<>>
    <3>1. PICK tried \in [ToSet(specs) \cup {"identity"} -> Outcomes] :
            IF Improving(tried) = {}
            THEN phase' = "search" /\ UNCHANGED <<observed, attribution, repair>>
            ELSE LET a == First(tried)
                 IN  /\ observed' = tried
                     /\ Conclude([source |-> "skill", label |-> a, ranking |-> <<a>>,
                                  credit |-> [x \in {a} |-> tried[a] - Score(tried["identity"])]])
      BY <2>2 DEF Reuse
    <3> HIDE DEF First
    <3> QED  BY <3>1
  <2> QED  BY <2>1, <2>2
<1>6. ASSUME NEW tried \in [ToSet(specs) \cup {"identity"} -> Outcomes], Improving(tried) # {},
             observed' = tried,
             Conclude([source |-> "skill", label |-> First(tried), ranking |-> <<First(tried)>>,
                       credit |-> [x \in {First(tried)} |->
                                     tried[First(tried)] - Score(tried["identity"])]])
      PROVE  AuditInvariant'
  <2> HIDE DEF First, specs
  <2> QED  BY <1>4, <1>6
<1> HIDE DEF specs, First
<1> QED  BY <1>3, <1>5, <1>6

LEMMA AttemptStep ==
  ASSUME AuditInvariant, phase = "repair", NEW assessment, Attempted(assessment),
         assessment \in {Assessment[c] : c \in 1..N} \cup {"action_selection_failed"},
         UNCHANGED <<config, case, records, search, attribution>>
  PROVE  AuditInvariant'
<1> DEFINE e == [label |-> Head(to_try), assessment |-> assessment]
<1>1. /\ attempts' = Append(attempts, e) /\ to_try' = Tail(to_try)
      /\ phase' = IF assessment = "recovered" \/ Len(to_try) = 1 THEN "report" ELSE "repair"
  BY DEF Attempted
<1>2. /\ to_try \in Seq(Labels) /\ to_try # <<>> /\ attempts \in Seq(Attempts)
      /\ config.adapter # "none" /\ attribution # NoAttribution
  BY DEF AuditInvariant
<1>3. /\ Head(to_try) \in Labels /\ Tail(to_try) \in Seq(Labels)
      /\ Len(Tail(to_try)) = Len(to_try) - 1
  BY <1>2, HeadTailProperties
<1>4. e \in Attempts /\ e.label = Head(to_try) /\ e.assessment = assessment
  BY <1>3 DEF Attempts
<1> HIDE DEF e
<1>5. /\ attempts' \in Seq(Attempts) /\ Len(attempts') = Len(attempts) + 1
      /\ attempts'[Len(attempts) + 1] = e
      /\ \A i \in 1..Len(attempts) : attempts'[i] = attempts[i]
  BY <1>1, <1>2, <1>4, AppendProperties
<1>6. /\ Len(attempts) \in Nat /\ DOMAIN attempts = 1..Len(attempts)
      /\ DOMAIN attempts' = 1..Len(attempts')
  BY <1>2, <1>5, LenProperties
<1>7. Tried(attempts') \o to_try' = Tried(attempts) \o to_try
  <2>1. Tried(attempts) \in Seq(Labels)  BY <1>2, TriedLabels
  <2>2. Tried(attempts') = Append(Tried(attempts), Head(to_try))
    BY <1>1, <1>2, <1>4, TriedAppend
  <2> QED  BY <1>1, <1>2, <2>1, <2>2, HeadMoves
<1>8. Begun' = Begun /\ observed' = observed /\ credits' = credits  BY DEF Begun, search
<1>9. /\ Follows(Tried(attempts) \o to_try)
      /\ \A i \in 1..Len(attempts) : attempts[i].assessment # "recovered"
  BY <1>2, <1>6, RepairsFollowIf DEF AuditInvariant
<1>10. Follows(Tried(attempts) \o to_try)'
  <2>1. (Tried(attempts) \o to_try)' = Tried(attempts) \o to_try  BY <1>7 DEF Tried
  <2> QED  BY <1>8, <1>9, <2>1 DEF Follows
<1>11. ASSUME NEW i \in DOMAIN attempts', attempts'[i].assessment = "recovered"
       PROVE  i = Len(attempts') /\ phase' = "report"
  <2>1. i \in 1..Len(attempts) \/ i = Len(attempts) + 1  BY <1>5, <1>6
  <2>2. i = Len(attempts) + 1  BY <1>5, <1>9, <1>11, <2>1
  <2>3. assessment = "recovered"  BY <1>4, <1>5, <1>11, <2>2
  <2> QED  BY <1>1, <1>5, <2>2, <2>3
<1>12. phase' = "report" => to_try' = <<>> \/ Last(attempts').assessment = "recovered"
  <2>1. Last(attempts') = e  BY <1>5 DEF Last
  <2>2. Len(to_try) = 1 => Len(Tail(to_try)) = 0  BY <1>3
  <2>3. Len(to_try) = 1 => to_try' = <<>>  BY <1>1, <1>3, <2>2, EmptySeq
  <2> QED  BY <1>1, <1>4, <2>1, <2>3
<1>13. RepairsFollowTheCredits'
  <2>1. /\ Follows(Tried(attempts) \o to_try)'
        /\ \A i \in DOMAIN attempts' : attempts'[i].assessment = "recovered" =>
             i = Len(attempts') /\ phase' = "report"
        /\ phase' = "report" => to_try' = <<>> \/ Last(attempts').assessment = "recovered"
    BY <1>10, <1>11, <1>12
  <2> QED  BY <2>1 DEF RepairsFollowTheCredits, Follows, Tried
<1>14. AttributionIsFounded'  BY <1>8 DEF AuditInvariant, AttributionIsFounded
<1>15. Credited'  BY <1>8 DEF AuditInvariant, Credited
<1>16. phase' = "repair" => to_try' # <<>>
  <2> SUFFICES ASSUME phase' = "repair" PROVE to_try' # <<>>
    OBVIOUS
  <2>1. Len(to_try) # 1 /\ Len(to_try) \in Nat /\ Len(to_try) # 0
    BY <1>1, <1>2, EmptySeq, LenProperties
  <2>2. Len(to_try') # 0  BY <1>1, <1>3, <2>1
  <2> QED  BY <2>2
<1>17. phase' \notin Undecided  BY <1>1 DEF Undecided
<1> QED
  BY <1>1, <1>2, <1>3, <1>5, <1>8, <1>13, <1>14, <1>15, <1>16, <1>17 DEF AuditInvariant

\* The next case starts from nothing but the memory.
LEMMA ReportStep ==
  ASSUME AuditInvariant, Report
  PROVE  AuditInvariant'
<1>1. CASE case = N
  BY <1>1, ResultsStay DEF Report, search, Undecided
<1>2. CASE case # N
  <2>1. /\ phase' = "hook" /\ case' = case + 1 /\ UNCHANGED <<config, records>>
        /\ credits' = <<>> /\ observed' = <<>> /\ attribution' = NoAttribution
        /\ to_try' = <<>> /\ attempts' = <<>>
    BY <1>2 DEF Report
  <2>2. case \in 1..N /\ case' \in 1..N /\ \A i \in 1..Len(records) : records[i].case \in 1..N
    <3>1. N \in Nat /\ case \in 1..N  BY AuditRunAssumption DEF AuditInvariant
    <3>2. case' \in 1..N  BY <1>2, <2>1, <3>1
    <3>3. \A i \in 1..Len(records) : records[i] \in Learned
      BY ElementOfSeq DEF AuditInvariant
    <3>4. \A r \in Learned : r.case \in 1..N  BY DEF Learned
    <3> QED  BY <3>1, <3>2, <3>3, <3>4
  <2>3. \A i \in 1..Len(records) : records[i].case < case'
    BY <2>1, <2>2 DEF AuditInvariant
  <2>4. AttributionIsFounded' /\ RepairsFollowTheCredits'  BY <2>1, NothingAttributed
  <2>5. Credited' /\ DOMAIN observed' = {}  BY <2>1 DEF Credited
  <2>6. attempts' \in Seq(Attempts) /\ to_try' \in Seq(Labels)  BY <2>1, EmptySeq
  <2>7. \A i \in 1..Len(records) : records[i].case <= case'  BY <2>2, <2>3
  <2> QED  BY <2>1, <2>2, <2>3, <2>4, <2>5, <2>6, <2>7 DEF AuditInvariant
<1> QED  BY <1>1, <1>2

LEMMA StepKeepsAudit ==
  AuditInvariant /\ AccountingInv /\ [Next]_vars => AuditInvariant'
<1> SUFFICES ASSUME AuditInvariant, AccountingInv, [Next]_vars PROVE AuditInvariant'
  OBVIOUS
<1>1. CASE Hook  BY <1>1, HookStep
<1>2. CASE Reuse  BY <1>2, ReuseStep
<1>3. CASE GiveUp \/ Truncate \/ EndSearch
  BY <1>3, ResultsStay DEF GiveUp, Truncate, EndSearch, search, repair, Undecided
<1>4. CASE MeasureIdentity  BY <1>4, IdentityStep
<1>5. CASE MeasureNext  BY <1>5, MeasureStep
<1>6. CASE Attribute  BY <1>6, AttributeStep
<1>7. CASE FailToSelect  BY <1>7, AttemptStep DEF FailToSelect
<1>8. CASE Repair
  <2>1. Assessment[case] \in {Assessment[c] : c \in 1..N}  BY DEF AuditInvariant
  <2> QED  BY <1>8, <2>1, AttemptStep DEF Repair
<1>9. CASE RepairRaises
  BY <1>9, ResultsStay DEF RepairRaises, search, Undecided
<1>10. CASE Report  BY <1>10, ReportStep
<1>11. CASE UNCHANGED vars
  BY <1>11, ResultsStay DEF vars, search, repair
<1> QED
  BY <1>1, <1>2, <1>3, <1>4, <1>5, <1>6, <1>7, <1>8, <1>9, <1>10, <1>11 DEF Next

\* The strengthened invariant of attributions and repairs.
THEOREM AuditStaysFounded == Spec => []AuditInvariant
<1>1. Spec => []AccountingInv
  BY AccountingHoldsAtStart, AccountingIsKept, PTL DEF Spec
<1> QED  BY <1>1, StartsUnaudited, StepKeepsAudit, PTL DEF Spec

\* For any number of cases, any memories and any outcomes, nothing is attributed
\* that was not measured to do better than identity and at least as well as every
\* other rollout, and what was reused was learned from an earlier similar case.
THEOREM AttributionsAreFounded == Spec => []AttributionIsFounded
<1>1. AuditInvariant => AttributionIsFounded  BY DEF AuditInvariant
<1> QED  BY <1>1, AuditStaysFounded, PTL

\* For any attribution and any course of the repairs, the labels are tried in the
\* order of their credits, each once, and none is left out but after a recovery.
THEOREM RepairsAlwaysFollow == Spec => []RepairsFollowTheCredits
<1>1. AuditInvariant => RepairsFollowTheCredits  BY DEF AuditInvariant
<1> QED  BY <1>1, AuditStaysFounded, PTL
=============================================================================
