------------------------ MODULE AuditedNichesProofs ------------------------
(***************************************************************************)
(* What the niche archive keeps through a run, for any stream of cases,    *)
(* operators, outcomes, seeds and graph: its evidence is independent, its  *)
(* elites are sound, an operator lives once per niche, and only elders     *)
(* take a niche over.  The graph it reads stays acyclic for any audits.    *)
(***************************************************************************)
EXTENDS AuditedNiches, FiniteSetTheorems, SequenceTheorems, TLAPS

-----------------------------------------------------------------------------
(* The inductive invariant, over an archive value where a step passes      *)
(* through one.                                                            *)

\* A record's evidence is of later cases of its niche, and explains its anchors.
JudgedIn(cs) ==
  \A r \in DOMAIN cs :
    /\ r.case \in Cases
    /\ DOMAIN cs[r] = {"status", "evidence", "anchors"}
    /\ cs[r].status \in {"provisional", "stable", "retired"}
    /\ \A c \in DOMAIN cs[r].evidence :
         c \in Cases /\ r.case < c /\ Niche[c] = r.niche
    /\ cs[r].status # "provisional" =>
         /\ r.case \in cs[r].anchors
         /\ cs[r].anchors \ {r.case} \subseteq Wins(cs[r].evidence)
         /\ Cardinality(FamiliesOf(Wins(cs[r].evidence))) >= 2

LivesOnce(cs) ==
  \A r, s \in DOMAIN cs :
    /\ cs[r].status # "retired" /\ cs[s].status # "retired"
    /\ r.niche = s.niche /\ r.op = s.op
    => r = s

\* Each elite is a stable record of its niche.
ElitesIn(cs, el) ==
  \A n \in DOMAIN el :
    el[n] \in DOMAIN cs /\ cs[el[n]].status = "stable" /\ el[n].niche = n

EliteOfEach(cs, el) ==
  \A r \in DOMAIN cs : cs[r].status # "provisional" => r.niche \in DOMAIN el

EldersIn(cs, el) ==
  \A r \in DOMAIN cs : cs[r].status = "retired" => el[r.niche].case < r.case

\* The records that are still to be visited run on the current case.
Awaits(cs, q, c) ==
  /\ q \in Seq(DOMAIN cs)
  /\ \A i, j \in 1..Len(q) : i # j => q[i] # q[j]
  /\ \A i \in 1..Len(q) :
       q[i].case < c /\ q[i].niche = Niche[c] /\ c \notin DOMAIN cs[q[i]].evidence

\* Before a case is updated nothing was proposed or recorded on it.
Placed ==
  /\ case_index \in Cases
  /\ IsFiniteSet(DOMAIN candidates)
  /\ phase = "audit" => candidates = <<>>
  /\ phase \in {"test", "update"} => \A r \in DOMAIN candidates : r.case < case_index
  /\ phase = "test" =>
       \A r \in DOMAIN candidates : \A c \in DOMAIN candidates[r].evidence : c < case_index
  /\ phase = "update" =>
       /\ \A r \in DOMAIN candidates : \A c \in DOMAIN candidates[r].evidence : c <= case_index
       /\ Awaits(candidates, queue, case_index)

ArchiveInvariant ==
  /\ Placed
  /\ JudgedIn(candidates) /\ LivesOnce(candidates)
  /\ ElitesIn(candidates, elite) /\ EliteOfEach(candidates, elite)
  /\ EldersIn(candidates, elite)

-----------------------------------------------------------------------------
(* The operators of the archive.                                           *)

LEMMA CasesAreNaturals == ASSUME NEW c \in Cases PROVE c \in Nat /\ 1 <= c /\ c <= N
BY FewFamilies DEF Cases

LEMMA NextCase ==
  ASSUME NEW c \in Cases
  PROVE  /\ Min({c + 1, N}) \in Cases
         /\ c # N => Min({c + 1, N}) = c + 1
<1>1. c + 1 \in Int /\ N \in Int /\ c <= N /\ 1 <= c
  BY CasesAreNaturals, FewFamilies
<1>2. \E x \in {c + 1, N} : \A y \in {c + 1, N} : x =< y
  BY <1>1
<1>3. Min({c + 1, N}) \in {c + 1, N} /\ \A y \in {c + 1, N} : Min({c + 1, N}) =< y
  BY <1>2, Zenon DEF Min
<1> QED
  BY <1>1, <1>3, FewFamilies DEF Cases

LEMMA RowsOfDescriptor ==
  ASSUME NEW cs, IsFiniteSet(DOMAIN cs), NEW n, NEW c \in Cases,
         NEW rows \in CandidatesForDescriptor(cs, n, c)
  PROVE  /\ rows \in Seq(DOMAIN cs)
         /\ \A i, j \in 1..Len(rows) : i # j => rows[i] # rows[j]
         /\ \A i \in 1..Len(rows) : rows[i].niche = n /\ rows[i].case + 1 <= c
<1> DEFINE S == {r \in Live(cs, n) : r.case + 1 <= c}
<1>1. S \in SUBSET DOMAIN cs  BY DEF Live
<1>2. Cardinality(S) \in Nat  BY <1>1, FS_Subset, FS_CardinalityType
<1>3. /\ rows \in [1..Cardinality(S) -> S]
      /\ \A i, j \in 1..Cardinality(S) : i # j => rows[i] # rows[j]
  BY Zenon DEF CandidatesForDescriptor, SetToSeqs
<1>4. rows \in Seq(S) /\ Len(rows) = Cardinality(S)
  BY <1>2, <1>3
<1> QED
  BY <1>1, <1>3, <1>4 DEF Live

\* More cases are of at least as many families.
LEMMA FamiliesGrow ==
  ASSUME NEW S \in SUBSET Cases, NEW T \in SUBSET S,
         Cardinality(FamiliesOf(T)) >= 2
  PROVE  Cardinality(FamiliesOf(S)) >= 2
<1>1. FamiliesOf(S) \in SUBSET Range(FamilyOf)
  BY FewFamilies DEF FamiliesOf, Range, Cases
<1>2. IsFiniteSet(FamiliesOf(S))  BY <1>1, FewFamilies, FS_Subset
<1>3. FamiliesOf(T) \in SUBSET FamiliesOf(S)  BY DEF FamiliesOf
<1>4. /\ Cardinality(FamiliesOf(T)) <= Cardinality(FamiliesOf(S))
      /\ IsFiniteSet(FamiliesOf(T))
  BY <1>2, <1>3, FS_Subset
<1>5. Cardinality(FamiliesOf(T)) \in Nat /\ Cardinality(FamiliesOf(S)) \in Nat
  BY <1>2, <1>4, FS_CardinalityType
<1> QED
  BY <1>4, <1>5

\* A validation touches one record, and leaves it judged as the others are.
LEMMA Recorded ==
  ASSUME NEW cs, JudgedIn(cs), NEW r \in DOMAIN cs, cs[r].status # "retired",
         NEW c \in Cases, r.case < c, Niche[c] = r.niche,
         c \notin DOMAIN cs[r].evidence, NEW result
  PROVE  LET rs == RecordValidation(cs, r, c, result)
         IN  /\ DOMAIN rs = DOMAIN cs
             /\ \A s \in DOMAIN cs : s # r => rs[s] = cs[s]
             /\ DOMAIN rs[r].evidence = DOMAIN cs[r].evidence \cup {c}
             /\ rs[r].status \in {cs[r].status, "stable"}
             /\ JudgedIn(rs)
<1> DEFINE old == cs[r].evidence
           evidence == Put(old, c, result)
           wins == Wins(evidence)
           promoted == cs[r].status = "provisional" /\ BecomesStable(wins)
           rs == RecordValidation(cs, r, c, result)
           new == [status |-> IF promoted THEN "stable" ELSE cs[r].status,
                   evidence |-> evidence,
                   anchors |-> IF promoted THEN AnchorCases(r, wins) ELSE cs[r].anchors]
<1>1. rs = [cs EXCEPT ![r] = new]  BY DEF RecordValidation
<1>2. DOMAIN rs = DOMAIN cs /\ rs[r] = new /\ \A s \in DOMAIN cs : s # r => rs[s] = cs[s]
  BY <1>1
<1>3. /\ DOMAIN evidence = DOMAIN old \cup {c}
      /\ \A d \in DOMAIN old : evidence[d] = old[d]
  BY DEF Put
<1>4. Wins(old) \subseteq wins /\ wins \subseteq Cases
  BY <1>3 DEF Wins, JudgedIn
<1>5. /\ r.case \in Cases
      /\ DOMAIN new = {"status", "evidence", "anchors"}
      /\ new.status \in {"provisional", "stable", "retired"}
      /\ \A d \in DOMAIN new.evidence : d \in Cases /\ r.case < d /\ Niche[d] = r.niche
  BY <1>3 DEF JudgedIn
<1>6. ASSUME new.status # "provisional"
      PROVE  /\ r.case \in new.anchors
             /\ new.anchors \ {r.case} \subseteq Wins(new.evidence)
             /\ Cardinality(FamiliesOf(Wins(new.evidence))) >= 2
  <2>1. CASE promoted
    <3>1. new.anchors = {r.case} \cup FirstOf(wins, 3)  BY <2>1 DEF AnchorCases
    <3>2. FirstOf(wins, 3) \subseteq wins  BY DEF FirstOf
    <3>3. Cardinality(FamiliesOf(wins)) >= 2  BY <2>1 DEF BecomesStable
    <3> QED  BY <3>1, <3>2, <3>3
  <2>2. CASE ~promoted
    <3>1. new.status = cs[r].status /\ new.anchors = cs[r].anchors  BY <2>2
    <3>2. /\ r.case \in cs[r].anchors
          /\ cs[r].anchors \ {r.case} \subseteq Wins(old)
          /\ Cardinality(FamiliesOf(Wins(old))) >= 2
      BY <1>6, <3>1 DEF JudgedIn
    <3>3. Cardinality(FamiliesOf(wins)) >= 2
      BY <1>4, <3>2, FamiliesGrow
    <3> QED  BY <1>4, <3>1, <3>2, <3>3
  <2> QED  BY <2>1, <2>2
<1>7. JudgedIn(rs)
  BY <1>2, <1>5, <1>6 DEF JudgedIn
<1>8. new.status \in {cs[r].status, "stable"}  OBVIOUS
<1> QED
  BY <1>2, <1>3, <1>7, <1>8

\* Considering a record as elite keeps evidence, and retires at most the
\* incumbent, whose producing case the challenger must have recovered.
LEMMA Considered ==
  ASSUME NEW cs, NEW el, JudgedIn(cs), LivesOnce(cs), ElitesIn(cs, el), EldersIn(cs, el),
         NEW s \in DOMAIN cs, cs[s].status # "retired",
         \A r \in DOMAIN cs :
           r # s /\ cs[r].status # "provisional" => r.niche \in DOMAIN el
  PROVE  LET ds == CandidatesAfter(cs, el, s)
             dl == EliteAfter(cs, el, s)
         IN  /\ DOMAIN ds = DOMAIN cs
             /\ \A r \in DOMAIN cs : ds[r].evidence = cs[r].evidence
             /\ JudgedIn(ds) /\ LivesOnce(ds)
             /\ ElitesIn(ds, dl) /\ EliteOfEach(ds, dl) /\ EldersIn(ds, dl)
<1> DEFINE ds == CandidatesAfter(cs, el, s)
           dl == EliteAfter(cs, el, s)
           n == s.niche
<1>1. CASE Displaces(cs, el, s)
  <2> DEFINE r == el[n]
  <2>1. /\ n \in DOMAIN el /\ r \in DOMAIN cs /\ r # s /\ r.niche = n
        /\ cs[r].status = "stable" /\ cs[s].status = "stable"
    BY <1>1 DEF Displaces, ElitesIn
  <2>2. ds = [cs EXCEPT ![r].status = "retired"]
    BY <1>1 DEF CandidatesAfter
  <2>3. /\ DOMAIN ds = DOMAIN cs
        /\ \A q \in DOMAIN cs : q # r => ds[q] = cs[q]
        /\ ds[r].status = "retired"
        /\ ds[r].evidence = cs[r].evidence /\ ds[r].anchors = cs[r].anchors
        /\ DOMAIN ds[r] = DOMAIN cs[r]
    <3>1. DOMAIN ds = DOMAIN cs /\ \A q \in DOMAIN cs : q # r => ds[q] = cs[q]
      BY <2>2
    <3>2. ds[r] = [cs[r] EXCEPT !.status = "retired"]
      BY <2>1, <2>2
    <3> QED
      BY <2>1, <3>1, <3>2 DEF JudgedIn
  <2>4. dl = Put(el, n, s)  BY <1>1 DEF EliteAfter
  <2>5. DOMAIN dl = DOMAIN el /\ dl[n] = s /\ \A m \in DOMAIN el : m # n => dl[m] = el[m]
    BY <2>1, <2>4 DEF Put
  <2>6. s.case < r.case
    <3>1. r.case \in Wins(cs[s].evidence)
      BY <1>1, <2>1 DEF Displaces, Replaces, PreservesAnchors, JudgedIn
    <3> QED
      BY <3>1 DEF Wins, JudgedIn
  <2>7. JudgedIn(ds)
    BY <2>1, <2>3 DEF JudgedIn
  <2>8. LivesOnce(ds)
    BY <2>3 DEF LivesOnce
  <2>9. ElitesIn(ds, dl)
    BY <2>1, <2>3, <2>5 DEF ElitesIn
  <2>10. EliteOfEach(ds, dl)
    BY <2>1, <2>3, <2>5 DEF EliteOfEach
  <2>11. EldersIn(ds, dl)
    <3> SUFFICES ASSUME NEW q \in DOMAIN cs, ds[q].status = "retired"
                 PROVE  dl[q.niche].case < q.case
      BY <2>3 DEF EldersIn
    <3>1. CASE q = r  BY <3>1, <2>1, <2>5, <2>6
    <3>2. CASE q # r
      <4>1. cs[q].status = "retired"  BY <2>3, <3>2
      <4>2. el[q.niche].case < q.case /\ q.niche \in DOMAIN el /\ q # s
        BY <4>1, <2>1 DEF EldersIn
      <4>3. CASE q.niche = n
        <5>1. s.case \in Int /\ r.case \in Int /\ q.case \in Int
          BY <2>1, CasesAreNaturals DEF JudgedIn
        <5> QED  BY <5>1, <4>2, <4>3, <2>5, <2>6
      <4> QED  BY <4>2, <4>3, <2>5
    <3> QED  BY <3>1, <3>2
  <2> QED  BY <2>1, <2>3, <2>7, <2>8, <2>9, <2>10, <2>11
<1>2. CASE ~Displaces(cs, el, s)
  <2>1. ds = cs  BY <1>2 DEF CandidatesAfter
  <2>2. CASE FirstElite(cs, el, s)
    <3>1. cs[s].status = "stable" /\ n \notin DOMAIN el  BY <2>2 DEF FirstElite
    <3>2. dl = Put(el, n, s)  BY <2>2 DEF EliteAfter
    <3>3. /\ DOMAIN dl = DOMAIN el \cup {n} /\ dl[n] = s
          /\ \A m \in DOMAIN el : dl[m] = el[m]
      BY <3>1, <3>2 DEF Put
    <3>4. ElitesIn(ds, dl)  BY <2>1, <3>1, <3>3 DEF ElitesIn
    <3>5. EliteOfEach(ds, dl)  BY <2>1, <3>3 DEF EliteOfEach
    <3>6. EldersIn(ds, dl)  BY <2>1, <3>1, <3>3 DEF EldersIn
    <3> QED  BY <2>1, <3>4, <3>5, <3>6
  <2>3. CASE ~FirstElite(cs, el, s)
    <3>1. dl = el  BY <1>2, <2>3 DEF EliteAfter
    <3>2. cs[s].status = "stable" => n \in DOMAIN el  BY <2>3 DEF FirstElite
    <3>3. EliteOfEach(ds, dl)  BY <2>1, <3>1, <3>2 DEF EliteOfEach, JudgedIn
    <3> QED  BY <2>1, <3>1, <3>3
  <2> QED  BY <2>2, <2>3
<1> QED  BY <1>1, <1>2

\* A proposal adds at most one record, of a niche and operator without a live one.
LEMMA Proposed ==
  ASSUME NEW cs, NEW el, JudgedIn(cs), LivesOnce(cs), ElitesIn(cs, el),
         EliteOfEach(cs, el), EldersIn(cs, el), IsFiniteSet(DOMAIN cs),
         NEW n, NEW o, NEW c \in Cases
  PROVE  LET ps == Propose(cs, n, o, c)
         IN  /\ IsFiniteSet(DOMAIN ps)
             /\ \A r \in DOMAIN ps :
                  \/ r \in DOMAIN cs /\ ps[r] = cs[r]
                  \/ r.case = c /\ DOMAIN ps[r].evidence = {}
             /\ JudgedIn(ps) /\ LivesOnce(ps)
             /\ ElitesIn(ps, el) /\ EliteOfEach(ps, el) /\ EldersIn(ps, el)
<1> DEFINE ps == Propose(cs, n, o, c)
           r == [niche |-> n, op |-> o, case |-> c]
<1>1. CASE HasLiveTwin(cs, n, o) \/ r \in DOMAIN cs
  <2>1. ps = cs  BY <1>1 DEF Propose
  <2> QED  BY <2>1
<1>2. CASE ~(HasLiveTwin(cs, n, o) \/ r \in DOMAIN cs)
  <2>1. ps = Put(cs, r, NewRecord)  BY <1>2 DEF Propose
  <2>2. /\ DOMAIN ps = DOMAIN cs \cup {r} /\ ps[r] = NewRecord
        /\ \A s \in DOMAIN cs : ps[s] = cs[s]
    BY <1>2, <2>1 DEF Put
  <2>3. /\ r.niche = n /\ r.op = o /\ r.case = c /\ NewRecord.status = "provisional"
        /\ DOMAIN NewRecord.evidence = {}
        /\ DOMAIN NewRecord = {"status", "evidence", "anchors"}
    BY DEF NewRecord
  <2>4. IsFiniteSet(DOMAIN ps)  BY <2>2, FS_AddElement
  <2>5. JudgedIn(ps)  BY <2>2, <2>3 DEF JudgedIn
  <2>6. LivesOnce(ps)
    BY <1>2, <2>2, <2>3 DEF LivesOnce, HasLiveTwin, Live
  <2>7. ElitesIn(ps, el) /\ EliteOfEach(ps, el) /\ EldersIn(ps, el)
    BY <2>2, <2>3 DEF ElitesIn, EliteOfEach, EldersIn
  <2> QED  BY <2>2, <2>3, <2>4, <2>5, <2>6, <2>7
<1> QED  BY <1>1, <1>2

LEMMA QueueAdvances ==
  ASSUME NEW cs, NEW ds, DOMAIN ds = DOMAIN cs, NEW q, q # <<>>, NEW c,
         Awaits(cs, q, c),
         \A r \in DOMAIN cs : r # Head(q) => ds[r].evidence = cs[r].evidence
  PROVE  Awaits(ds, Tail(q), c)
<1>1. q \in Seq(DOMAIN cs)  BY DEF Awaits
<1>2. /\ Tail(q) \in Seq(DOMAIN ds) /\ Len(Tail(q)) = Len(q) - 1
      /\ Len(q) \in Nat
      /\ \A i \in 1..Len(Tail(q)) : Tail(q)[i] = q[i + 1] /\ q[i + 1] \in DOMAIN cs
  BY <1>1, HeadTailProperties
<1>3. Head(q) = q[1] /\ Len(q) >= 1  BY <1>1
<1>4. \A i \in 1..Len(Tail(q)) : Tail(q)[i] # Head(q)
  BY <1>2, <1>3 DEF Awaits
<1>5. \A i, j \in 1..Len(Tail(q)) : i # j => Tail(q)[i] # Tail(q)[j]
  BY <1>2 DEF Awaits
<1>6. ASSUME NEW i \in 1..Len(Tail(q))
      PROVE  /\ Tail(q)[i].case < c /\ Tail(q)[i].niche = Niche[c]
             /\ c \notin DOMAIN ds[Tail(q)[i]].evidence
  <2>1. i + 1 \in 1..Len(q)  BY <1>2
  <2>2. /\ q[i + 1].case < c /\ q[i + 1].niche = Niche[c]
        /\ c \notin DOMAIN cs[q[i + 1]].evidence
    BY <2>1 DEF Awaits
  <2> QED  BY <2>2, <1>2, <1>4
<1> QED  BY <1>2, <1>5, <1>6 DEF Awaits

-----------------------------------------------------------------------------
(* The steps of a run.                                                     *)

LEMMA RunStarts == Init => ArchiveInvariant
<1> SUFFICES ASSUME Init PROVE ArchiveInvariant  OBVIOUS
<1>1. /\ phase = "audit" /\ candidates = <<>> /\ elite = <<>> /\ case_index = 1
  BY DEF Init, RunInit
<1>2. DOMAIN candidates = {} /\ DOMAIN elite = {}  BY <1>1
<1>3. 1 \in Cases  BY FewFamilies DEF Cases
<1>4. Placed  BY <1>1, <1>2, <1>3, FS_EmptySet DEF Placed
<1> QED
  BY <1>2, <1>4 DEF ArchiveInvariant, JudgedIn, LivesOnce, ElitesIn, EliteOfEach, EldersIn

\* The archive's part of the invariant is about the archive alone.
LEMMA ArchiveUntouched ==
  ASSUME ArchiveInvariant, UNCHANGED <<candidates, elite>>, Placed'
  PROVE  ArchiveInvariant'
BY DEF ArchiveInvariant

LEMMA TestKeeps == ArchiveInvariant /\ TestCase => ArchiveInvariant'
<1> SUFFICES ASSUME ArchiveInvariant, TestCase PROVE ArchiveInvariant'  OBVIOUS
<1> USE DEF ArchiveInvariant
<1>1. /\ phase = "test" /\ phase' = "update" /\ case_index' = case_index
      /\ UNCHANGED <<candidates, elite>>
  BY DEF TestCase
<1>2. queue' \in CandidatesForDescriptor(candidates, Niche[case_index], case_index)
  BY DEF TestCase
<1>3. case_index \in Cases /\ IsFiniteSet(DOMAIN candidates)  BY DEF Placed
<1>4. /\ queue' \in Seq(DOMAIN candidates)
      /\ \A i, j \in 1..Len(queue') : i # j => queue'[i] # queue'[j]
      /\ \A i \in 1..Len(queue') : queue'[i].niche = Niche[case_index]
  BY <1>2, <1>3, RowsOfDescriptor
<1>5. \A i \in 1..Len(queue') : queue'[i] \in DOMAIN candidates  BY <1>4
<1>6. \A r \in DOMAIN candidates : \A c \in DOMAIN candidates[r].evidence :
        c < case_index /\ c \in Int
  BY <1>1, CasesAreNaturals DEF Placed, JudgedIn
<1>7. \A r \in DOMAIN candidates :
        r.case < case_index /\ case_index \notin DOMAIN candidates[r].evidence
  BY <1>1, <1>3, <1>6, CasesAreNaturals DEF Placed
<1>8. Awaits(candidates, queue', case_index)
  BY <1>4, <1>5, <1>7 DEF Awaits
<1>9. Placed'
  <2>1. \A r \in DOMAIN candidates : \A c \in DOMAIN candidates[r].evidence :
          c <= case_index
    BY <1>3, <1>6, CasesAreNaturals
  <2> QED  BY <1>1, <1>3, <1>7, <1>8, <2>1 DEF Placed
<1> QED  BY <1>1, <1>9, ArchiveUntouched

LEMMA FillKeeps == ArchiveInvariant /\ FillCase => ArchiveInvariant'
<1> SUFFICES ASSUME ArchiveInvariant, FillCase PROVE ArchiveInvariant'  OBVIOUS
<1>1. /\ phase = "test" /\ phase' = (IF case_index = N THEN "done" ELSE "test")
      /\ case_index' = Min({case_index + 1, N})
      /\ UNCHANGED <<candidates, elite>>
  BY DEF FillCase, NextPhase
<1>2. Placed  BY DEF ArchiveInvariant
<1>3. /\ case_index \in Cases /\ case_index' \in Cases
      /\ case_index # N => case_index' = case_index + 1
  BY <1>1, <1>2, NextCase DEF Placed
<1>4. \A r \in DOMAIN candidates :
        /\ r.case < case_index /\ r.case \in Int
        /\ \A c \in DOMAIN candidates[r].evidence : c < case_index /\ c \in Int
  BY <1>1, <1>2, CasesAreNaturals DEF ArchiveInvariant, Placed, JudgedIn
<1>5. case_index # N => \A r \in DOMAIN candidates :
        /\ r.case < case_index'
        /\ \A c \in DOMAIN candidates[r].evidence : c < case_index'
  BY <1>3, <1>4, CasesAreNaturals
<1>6. Placed'  BY <1>1, <1>2, <1>3, <1>5 DEF Placed
<1> QED  BY <1>1, <1>6, ArchiveUntouched

LEMMA SkipKeeps == ArchiveInvariant /\ SkipRecord => ArchiveInvariant'
<1> SUFFICES ASSUME ArchiveInvariant, SkipRecord PROVE ArchiveInvariant'  OBVIOUS
<1>1. /\ phase = "update" /\ queue # <<>> /\ queue' = Tail(queue)
      /\ UNCHANGED <<phase, case_index, candidates, elite>>
  BY DEF SkipRecord, Visiting
<1>2. Placed  BY DEF ArchiveInvariant
<1>3. Awaits(candidates, Tail(queue), case_index)
  BY <1>1, <1>2, QueueAdvances DEF Placed
<1>4. Placed'  BY <1>1, <1>2, <1>3 DEF Placed
<1> QED  BY <1>1, <1>4, ArchiveUntouched

LEMMA ValidateKeeps == ArchiveInvariant /\ ValidateRecord => ArchiveInvariant'
<1> SUFFICES ASSUME ArchiveInvariant, ValidateRecord PROVE ArchiveInvariant'  OBVIOUS
<1> DEFINE r == Head(queue)
           rs == RecordValidation(candidates, r, case_index, executions[r])
<1>1. /\ phase = "update" /\ queue # <<>> /\ queue' = Tail(queue)
      /\ UNCHANGED <<phase, case_index>>
      /\ candidates[r].status # "retired"
      /\ candidates' = CandidatesAfter(rs, elite, r)
      /\ elite' = EliteAfter(rs, elite, r)
  BY DEF ValidateRecord, Visiting
<1>2. Placed /\ case_index \in Cases /\ Awaits(candidates, queue, case_index)
  BY <1>1 DEF ArchiveInvariant, Placed
<1>3. /\ r \in DOMAIN candidates /\ r.case < case_index
      /\ Niche[case_index] = r.niche /\ case_index \notin DOMAIN candidates[r].evidence
  <2>1. queue \in Seq(DOMAIN candidates)  BY <1>2 DEF Awaits
  <2>2. r = queue[1] /\ 1 \in 1..Len(queue)  BY <1>1, <2>1
  <2>3. r \in DOMAIN candidates  BY <2>1, <2>2
  <2> QED  BY <1>2, <2>2, <2>3 DEF Awaits
<1>4. /\ JudgedIn(candidates) /\ LivesOnce(candidates) /\ ElitesIn(candidates, elite)
      /\ EliteOfEach(candidates, elite) /\ EldersIn(candidates, elite)
  BY DEF ArchiveInvariant
<1>5. /\ DOMAIN rs = DOMAIN candidates
      /\ \A s \in DOMAIN candidates : s # r => rs[s] = candidates[s]
      /\ DOMAIN rs[r].evidence = DOMAIN candidates[r].evidence \cup {case_index}
      /\ rs[r].status \in {candidates[r].status, "stable"}
      /\ JudgedIn(rs)
  BY <1>1, <1>2, <1>3, <1>4, Recorded
<1>6. rs[r].status # "retired"  BY <1>1, <1>5
<1>7. LivesOnce(rs)  BY <1>1, <1>4, <1>5, <1>6 DEF LivesOnce
<1>8. ElitesIn(rs, elite)  BY <1>3, <1>4, <1>5 DEF ElitesIn
<1>9. EldersIn(rs, elite)  BY <1>4, <1>5, <1>6 DEF EldersIn
<1>10. \A s \in DOMAIN rs :
         s # r /\ rs[s].status # "provisional" => s.niche \in DOMAIN elite
  BY <1>4, <1>5 DEF EliteOfEach
<1>11. r \in DOMAIN rs  BY <1>3, <1>5
<1> HIDE DEF rs
<1>12. /\ DOMAIN candidates' = DOMAIN rs
       /\ \A s \in DOMAIN rs : candidates'[s].evidence = rs[s].evidence
       /\ JudgedIn(candidates') /\ LivesOnce(candidates')
       /\ ElitesIn(candidates', elite') /\ EliteOfEach(candidates', elite')
       /\ EldersIn(candidates', elite')
  BY <1>1, <1>5, <1>6, <1>7, <1>8, <1>9, <1>10, <1>11, Considered
<1>13. Placed'
  <2>1. Awaits(candidates', queue', case_index)
    <3>1. \A s \in DOMAIN candidates :
            s # Head(queue) => candidates'[s].evidence = candidates[s].evidence
      BY <1>5, <1>12
    <3> QED  BY <1>1, <1>2, <1>5, <1>12, <3>1, QueueAdvances
  <2>2. \A s \in DOMAIN candidates' : s.case < case_index
    BY <1>1, <1>2, <1>5, <1>12 DEF Placed
  <2>3. \A s \in DOMAIN candidates' : \A c \in DOMAIN candidates'[s].evidence :
          c <= case_index
    <3>1. \A s \in DOMAIN candidates : \A c \in DOMAIN candidates[s].evidence :
            c <= case_index
      BY <1>1, <1>2 DEF Placed
    <3>2. case_index <= case_index  BY <1>2, CasesAreNaturals
    <3> QED  BY <1>5, <1>12, <3>1, <3>2
  <2>4. IsFiniteSet(DOMAIN candidates')  BY <1>2, <1>5, <1>12 DEF Placed
  <2> QED  BY <1>1, <1>2, <2>1, <2>2, <2>3, <2>4 DEF Placed
<1> QED  BY <1>12, <1>13 DEF ArchiveInvariant

LEMMA RaiseKeeps == ArchiveInvariant /\ RaiseOnRecord => ArchiveInvariant'
<1> SUFFICES ASSUME ArchiveInvariant, RaiseOnRecord PROVE ArchiveInvariant'  OBVIOUS
<1>1. phase' = "aborted" /\ UNCHANGED <<case_index, queue, candidates, elite>>
  BY DEF RaiseOnRecord
<1>2. Placed'  BY <1>1 DEF ArchiveInvariant, Placed
<1> QED  BY <1>1, <1>2, ArchiveUntouched

LEMMA ProposeKeeps == ArchiveInvariant /\ ProposeBest => ArchiveInvariant'
<1> SUFFICES ASSUME ArchiveInvariant, ProposeBest PROVE ArchiveInvariant'  OBVIOUS
<1>1. /\ phase = "update" /\ phase' = (IF case_index = N THEN "done" ELSE "test")
      /\ case_index' = Min({case_index + 1, N}) /\ elite' = elite
  BY DEF ProposeBest, NextPhase
<1>2. Placed /\ case_index \in Cases  BY DEF ArchiveInvariant, Placed
<1>3. /\ JudgedIn(candidates) /\ LivesOnce(candidates) /\ ElitesIn(candidates, elite)
      /\ EliteOfEach(candidates, elite) /\ EldersIn(candidates, elite)
      /\ IsFiniteSet(DOMAIN candidates)
  BY DEF ArchiveInvariant, Placed
<1>4. /\ case_index' \in Cases
      /\ case_index # N => case_index' = case_index + 1
  BY <1>1, <1>2, NextCase
<1>5. /\ IsFiniteSet(DOMAIN candidates')
      /\ \A r \in DOMAIN candidates' :
           \/ r \in DOMAIN candidates /\ candidates'[r] = candidates[r]
           \/ r.case = case_index /\ DOMAIN candidates'[r].evidence = {}
      /\ JudgedIn(candidates') /\ LivesOnce(candidates')
      /\ ElitesIn(candidates', elite) /\ EliteOfEach(candidates', elite)
      /\ EldersIn(candidates', elite)
  <2>1. CASE candidates' = candidates  BY <2>1, <1>3
  <2>2. CASE \E k \in Best :
               candidates' = Propose(candidates, Niche[case_index],
                                     OperatorOf(k), case_index)
    BY <2>2, <1>2, <1>3, Proposed
  <2> QED  BY <2>1, <2>2 DEF ProposeBest
<1>6. \A r \in DOMAIN candidates' :
        /\ r.case <= case_index /\ r.case \in Int
        /\ \A c \in DOMAIN candidates'[r].evidence : c <= case_index /\ c \in Int
  <2>1. \A r \in DOMAIN candidates :
          /\ r.case < case_index
          /\ \A c \in DOMAIN candidates[r].evidence : c <= case_index
    BY <1>1, <1>2 DEF Placed
  <2>2. \A r \in DOMAIN candidates' :
          r.case \in Int /\ \A c \in DOMAIN candidates'[r].evidence : c \in Int
    BY <1>5, CasesAreNaturals DEF JudgedIn
  <2>3. case_index \in Int  BY <1>2, CasesAreNaturals
  <2> QED  BY <1>5, <2>1, <2>2, <2>3
<1>7. case_index # N => \A r \in DOMAIN candidates' :
        /\ r.case < case_index'
        /\ \A c \in DOMAIN candidates'[r].evidence : c < case_index'
  BY <1>2, <1>4, <1>6, CasesAreNaturals
<1>8. Placed'  BY <1>1, <1>4, <1>5, <1>7 DEF Placed
<1> QED  BY <1>1, <1>5, <1>8 DEF ArchiveInvariant

LEMMA StartKeeps == ArchiveInvariant /\ StartRun => ArchiveInvariant'
<1> SUFFICES ASSUME ArchiveInvariant, StartRun PROVE ArchiveInvariant'  OBVIOUS
<1>1. /\ phase = "audit" /\ phase' = "test"
      /\ UNCHANGED <<case_index, queue, candidates, elite>>
  BY DEF StartRun
<1>2. DOMAIN candidates = {}  BY <1>1 DEF ArchiveInvariant, Placed
<1>3. Placed'  BY <1>1, <1>2 DEF ArchiveInvariant, Placed
<1> QED  BY <1>1, <1>3, ArchiveUntouched

LEMMA IdleKeeps == ArchiveInvariant /\ UNCHANGED vars => ArchiveInvariant'
BY DEF vars, ArchiveInvariant, Placed

-----------------------------------------------------------------------------
(* The theorems.                                                           *)

\* The invariant of the archive and the runner's position, for any stream.
THEOREM ArchiveIsSound == Spec => []ArchiveInvariant
<1>1. ArchiveInvariant /\ [Next]_auditedVars => ArchiveInvariant'
  BY IdleKeeps, StartKeeps, TestKeeps, FillKeeps, SkipKeeps, ValidateKeeps, RaiseKeeps,
     ProposeKeeps
  DEF Next, Auditing, Running, Step, Ended, auditedVars
<1> QED  BY <1>1, RunStarts, PTL DEF Spec

\* Evidence is only of later cases of the niche, whatever the graph's edges
\* execute besides.
THEOREM EvidenceStaysIndependent == Spec => []EvidenceIsIndependent
<1>1. ArchiveInvariant => EvidenceIsIndependent
  <2> SUFFICES ASSUME ArchiveInvariant, NEW r \in DOMAIN candidates
               PROVE  /\ \A c \in DOMAIN candidates[r].evidence :
                           r.case < c /\ Niche[c] = r.niche
                      /\ candidates[r].status # "provisional" =>
                           /\ candidates[r].anchors \cap DOMAIN candidates[r].evidence
                                = candidates[r].anchors \ {r.case}
                           /\ Cardinality(FamiliesOf(Wins(candidates[r].evidence))) >= 2
    BY DEF EvidenceIsIndependent
  <2>1. r.case \notin DOMAIN candidates[r].evidence
    BY CasesAreNaturals DEF ArchiveInvariant, JudgedIn
  <2> QED  BY <2>1 DEF ArchiveInvariant, JudgedIn, Wins
<1> QED  BY <1>1, ArchiveIsSound, PTL

\* Every niche that promoted a revision has one stable elite of its own.
THEOREM ElitesStaySound == Spec => []EliteIsSound
<1>1. ArchiveInvariant => EliteIsSound
  <2> SUFFICES ASSUME ArchiveInvariant PROVE EliteIsSound  OBVIOUS
  <2>1. \A r \in Stable \cup Retired : r.niche \in DOMAIN elite
    BY DEF ArchiveInvariant, EliteOfEach, Stable, Retired
  <2>2. \A n \in DOMAIN elite : elite[n] \in Stable /\ elite[n].niche = n
    BY DEF ArchiveInvariant, ElitesIn, Stable
  <2>3. \A n \in DOMAIN elite :
          candidates[elite[n]].anchors \ {elite[n].case}
            \subseteq Wins(candidates[elite[n]].evidence)
    BY <2>2 DEF ArchiveInvariant, JudgedIn, Stable
  <2> QED  BY <2>1, <2>2, <2>3 DEF EliteIsSound
<1> QED  BY <1>1, ArchiveIsSound, PTL

\* No two live revisions of a niche share an operator.
THEOREM OperatorsLiveOnce == Spec => []OneLiveRevisionPerOperator
<1>1. ArchiveInvariant => OneLiveRevisionPerOperator
  BY DEF ArchiveInvariant, LivesOnce, OneLiveRevisionPerOperator, Retired
<1> QED  BY <1>1, ArchiveIsSound, PTL

\* What retired is younger than the elite of its niche.
THEOREM OnlyEldersTakeOver == Spec => []ElitesAreReplacedByElders
<1>1. ArchiveInvariant => ElitesAreReplacedByElders
  BY DEF ArchiveInvariant, EldersIn, ElitesAreReplacedByElders, Retired
<1> QED  BY <1>1, ArchiveIsSound, PTL
-----------------------------------------------------------------------------
(* The graph, before the run.                                              *)

\* Whatever a reachable niche leads to is reachable.
LEMMA ReachableIsClosed ==
  ASSUME NEW n \in GraphNiches PROVE ClosedUnderArcs(Reachable(n))
<1> SUFFICES ASSUME NEW x \in GraphNiches, NEW y \in GraphNiches,
                    x \in Reachable(n), <<x, y>> \in Arcs,
                    NEW C \in SUBSET GraphNiches, n \in C, ClosedUnderArcs(C)
             PROVE  y \in C
  BY DEF ClosedUnderArcs, Reachable
<1>1. x \in C  BY DEF Reachable
<1> QED  BY <1>1 DEF ClosedUnderArcs

LEMMA StartIsReachable == ASSUME NEW n \in GraphNiches PROVE n \in Reachable(n)
BY DEF Reachable

\* The edge of an audit adds its niches as an arc, and may take another away.
LEMMA ArcsAfterEdge ==
  ASSUME NEW a \in Audits, edges' = WithEdge(a)
  PROVE  Arcs' \subseteq Arcs \cup {<<a.from, a.to>>}
BY DEF Arcs, Range, WithEdge

LEMMA StartsAcyclic == GraphInit => GraphIsAcyclic
<1> SUFFICES ASSUME GraphInit PROVE GraphIsAcyclic  OBVIOUS
<1>1. Arcs = {}  BY DEF GraphInit, Arcs, Range
<1> QED  BY <1>1 DEF GraphIsAcyclic

\* A set of niches that the new arc's target reaches has a sink among the
\* reached, which the arc does not leave; any other set the arc does not enter.
LEMMA EdgeKeepsAcyclic ==
  ASSUME GraphIsAcyclic, NEW from \in GraphNiches, NEW to \in GraphNiches,
         ~WouldCreateCycle(from, to), Arcs' \subseteq Arcs \cup {<<from, to>>}
  PROVE  GraphIsAcyclic'
<1> SUFFICES ASSUME NEW S \in (SUBSET GraphNiches) \ {{}}
             PROVE  \E n \in S : \A m \in S : <<n, m>> \notin Arcs'
  BY DEF GraphIsAcyclic
<1> DEFINE R == S \cap Reachable(to)
<1>1. CASE R = {}
  <2>1. to \notin S  BY <1>1, StartIsReachable
  <2>2. PICK n \in S : \A m \in S : <<n, m>> \notin Arcs  BY DEF GraphIsAcyclic
  <2> QED  BY <2>1, <2>2
<1>2. CASE R # {}
  <2>1. R \in (SUBSET GraphNiches) \ {{}}  BY <1>2
  <2>2. PICK n \in R : \A m \in R : <<n, m>> \notin Arcs  BY <2>1 DEF GraphIsAcyclic
  <2>3. n # from  BY <2>2 DEF WouldCreateCycle
  <2>4. ASSUME NEW m \in S, <<n, m>> \in Arcs PROVE FALSE
    <3>1. m \in Reachable(to)
      BY <2>2, <2>4, ReachableIsClosed DEF ClosedUnderArcs
    <3> QED  BY <2>2, <2>4, <3>1
  <2> QED  BY <2>2, <2>3, <2>4
<1> QED  BY <1>1, <1>2

LEMMA AuditKeepsAcyclic == GraphIsAcyclic /\ [GraphNext]_graphVars => GraphIsAcyclic'
<1> SUFFICES ASSUME GraphIsAcyclic, [GraphNext]_graphVars PROVE GraphIsAcyclic'
  OBVIOUS
<1>1. CASE edges' = edges
  <2>1. Arcs' = Arcs  BY <1>1 DEF Arcs
  <2> QED  BY <2>1 DEF GraphIsAcyclic
<1>2. CASE edges' # edges
  <2>1. PICK a \in Audits, e \in Evidence : Audit(a, e)
    BY <1>2 DEF GraphNext, graphVars
  <2>2. edges' = WithEdge(a) /\ ~WouldCreateCycle(a.from, a.to)
    BY <1>2, <2>1 DEF Audit
  <2>3. a.from \in GraphNiches /\ a.to \in GraphNiches  BY GraphAssumption
  <2> QED  BY <2>2, <2>3, ArcsAfterEdge, EdgeKeepsAcyclic
<1> QED  BY <1>1, <1>2

\* No sequence of audits of the AuditedSkillGraph leads to a cycle of niches.
THEOREM GraphStaysAcyclic == GraphSpec => []GraphIsAcyclic
BY StartsAcyclic, AuditKeepsAcyclic, PTL DEF GraphSpec
=============================================================================
